---------------------------- MODULE ImportProofs ----------------------------
(***************************************************************************)
(* The rows of an imported dataset have the columns it lists, and they are *)
(* the lines of the file that can be read, whatever the file, the          *)
(* parameters of the import and the ties of its mapping; and how many steps*)
(* an import can take.                                                     *)
(***************************************************************************)
EXTENDS Import, SequenceTheorems, FiniteSetTheorems, TLAPS

\* The names the columns will have.
Targets == {Target(c) : c \in Names(columns)}

\* A sequence of records that all have these columns.
Framed(s, T) == \E S : s \in Seq(S) /\ \A r \in S : DOMAIN r = T

LEMMA FramedEmpty == ASSUME NEW T, NEW s, s = <<>> PROVE Framed(s, T)
  <1> DEFINE R == {[t \in T |-> t]}
  <1>1. s \in Seq(R) /\ \A r \in R : DOMAIN r = T
    OBVIOUS
  <1> SUFFICES \E S : s \in Seq(S) /\ \A r \in S : DOMAIN r = T
    BY DEF Framed
  <1> WITNESS R
  <1> QED BY <1>1

LEMMA FramedAppend ==
  ASSUME NEW T, NEW s, Framed(s, T), NEW e, DOMAIN e = T
  PROVE  Framed(Append(s, e), T)
  <1>1. PICK S : s \in Seq(S) /\ \A r \in S : DOMAIN r = T
    BY DEF Framed
  <1> DEFINE R == S \cup {e}
  <1>2. s \in Seq(R) /\ e \in R /\ \A r \in R : DOMAIN r = T
    BY <1>1
  <1>3. Append(s, e) \in Seq(R)
    BY <1>2
  <1> SUFFICES \E W : Append(s, e) \in Seq(W) /\ \A r \in W : DOMAIN r = T
    BY DEF Framed
  <1> WITNESS R
  <1> QED BY <1>2, <1>3

LEMMA FramedConcat ==
  ASSUME NEW T, NEW s, NEW u, Framed(s, T), Framed(u, T)
  PROVE  Framed(s \o u, T)
  <1>1. PICK S : s \in Seq(S) /\ \A r \in S : DOMAIN r = T
    BY DEF Framed
  <1>2. PICK U : u \in Seq(U) /\ \A r \in U : DOMAIN r = T
    BY DEF Framed
  <1> DEFINE R == S \cup U
  <1>3. s \in Seq(R) /\ u \in Seq(R) /\ \A r \in R : DOMAIN r = T
    BY <1>1, <1>2
  <1>4. s \o u \in Seq(R)
    BY <1>3
  <1> SUFFICES \E W : s \o u \in Seq(W) /\ \A r \in W : DOMAIN r = T
    BY DEF Framed
  <1> WITNESS R
  <1> QED BY <1>3, <1>4

LEMMA FramedRows ==
  ASSUME NEW T, NEW s, Framed(s, T), NEW k \in DOMAIN s
  PROVE  DOMAIN s[k] = T
  <1>1. PICK S : s \in Seq(S) /\ \A r \in S : DOMAIN r = T
    BY DEF Framed
  <1>2. s[k] \in S
    BY <1>1
  <1> QED BY <1>1, <1>2

LEMMA RecordsAreFramed ==
  ASSUME NEW row, NEW rec \in RecordsOf(row)
  PROVE  DOMAIN rec = Targets
  BY DEF RecordsOf, Targets

LEMMA MappedNames == Names(MappedColumns) = Targets
  BY DEF MappedColumns, Names, Targets

\* Before the rows nothing is read; while they are read, what is read has the columns.
IInv ==
    /\ pc \in {"open", "header", "skip"} => chunk = <<>> /\ allRecords = <<>>
    /\ pc \in {"rows", "store"} => Framed(chunk, Targets) /\ Framed(allRecords, Targets)
    /\ pc \notin {"done"} => stored = None
    /\ ColumnsMatchRows

LEMMA InitIInv == Init => IInv
  BY DEF Init, IInv, ColumnsMatchRows

LEMMA NextIInv == IInv /\ [Next]_vars => IInv'
  <1> SUFFICES ASSUME IInv, [Next]_vars PROVE IInv'
    OBVIOUS
  <1> USE DEF IInv
  <1>1. CASE Open
    BY <1>1 DEF Open, Fail, outcome, ColumnsMatchRows
  <1>2. CASE ReadHeader
    BY <1>2 DEF ReadHeader, Fail, outcome, ColumnsMatchRows
  <1>3. CASE SkipRow
    BY <1>3 DEF SkipRow, outcome, ColumnsMatchRows
  <1>4. CASE StartRows
    <2>1. chunk' = <<>> /\ allRecords' = <<>> /\ stored' = None /\ pc' \in {"failed", "rows"}
      BY <1>4 DEF StartRows, outcome
    <2>2. Framed(chunk', Targets') /\ Framed(allRecords', Targets')
      BY <2>1, FramedEmpty
    <2> QED BY <2>1, <2>2 DEF ColumnsMatchRows
  <1>5. CASE ReadRow
    <2>1. /\ pc = "rows" /\ pc' \in {"rows", "store"}
          /\ job' = job /\ columns' = columns /\ stored' = stored
          /\ stored = None
      BY <1>5 DEF ReadRow, Reading, outcome
    <2>2. Targets' = Targets
      BY <2>1 DEF Targets, Target, Names
    <2>3. PICK rec \in RecordsOf(job.lines[line + 1]) :
            \/ chunk' = <<>> /\ allRecords' = allRecords \o Append(chunk, rec)
            \/ chunk' = Append(chunk, rec) /\ allRecords' = allRecords
      BY <1>5 DEF ReadRow
    <2>4. Framed(Append(chunk, rec), Targets)
      BY <2>1, RecordsAreFramed, FramedAppend
    <2>5. Framed(chunk', Targets) /\ Framed(allRecords', Targets)
      <3>1. CASE chunk' = <<>> /\ allRecords' = allRecords \o Append(chunk, rec)
        <4>1. Framed(allRecords \o Append(chunk, rec), Targets)
          BY <2>1, <2>4, FramedConcat
        <4> QED BY <3>1, <4>1, FramedEmpty
      <3>2. CASE chunk' = Append(chunk, rec) /\ allRecords' = allRecords
        BY <3>2, <2>1, <2>4
      <3> QED BY <2>3, <3>1, <3>2
    <2> QED BY <2>1, <2>2, <2>5 DEF ColumnsMatchRows
  <1>6. CASE ReadError
    <2>1. UNCHANGED <<job, pc, columns, chunk, allRecords, stored>>
      BY <1>6 DEF ReadError, outcome
    <2> QED BY <2>1 DEF Targets, Target, Names, ColumnsMatchRows
  <1>7. CASE ReadEOF
    <2>1. UNCHANGED <<job, columns, chunk, allRecords, stored>> /\ pc = "rows" /\ pc' = "store"
      BY <1>7 DEF ReadEOF, Reading, outcome
    <2> QED BY <2>1 DEF Targets, Target, Names, ColumnsMatchRows
  <1>8. CASE Cancelled
    BY <1>8 DEF Cancelled, ColumnsMatchRows
  <1>9. CASE Store
    <2>1. pc = "store" /\ pc' = "done" /\ stored' = [columns |-> MappedColumns, rows |-> Flushed]
      BY <1>9 DEF Store
    <2>2. Framed(Flushed, Targets)
      BY <2>1, FramedConcat DEF Flushed
    <2>3. \A k \in DOMAIN Flushed : DOMAIN Flushed[k] = Names(MappedColumns)
      BY <2>2, FramedRows, MappedNames
    <2>4. ColumnsMatchRows'
      BY <2>1, <2>3 DEF ColumnsMatchRows, Names
    <2> QED BY <2>1, <2>4
  <1>10. CASE Upload
    <2>1. CASE Parses
      <3> DEFINE names == job.lines[1]
                 loaded == [k \in 1..(Len(job.lines) - 1) |->
                              [c \in Names(names) |-> job.lines[k + 1][LastOf(names, c)]]]
      <3>1. pc' = "done" /\ stored' = [columns |-> names, rows |-> loaded]
        BY <1>10, <2>1 DEF Upload
      <3>2. stored'.columns = names /\ stored'.rows = loaded
        BY <3>1
      <3>3. \A k \in DOMAIN loaded : DOMAIN loaded[k] = Names(names)
        OBVIOUS
      <3>4. ColumnsMatchRows'
        BY <3>2, <3>3 DEF ColumnsMatchRows, Names
      <3> QED BY <3>1, <3>4
    <2>2. CASE ~Parses
      BY <1>10, <2>2 DEF Upload, ColumnsMatchRows
    <2> QED BY <2>1, <2>2
  <1>11. CASE Expire
    <2>1. UNCHANGED <<job, pc, columns, chunk, allRecords, stored>>
      BY <1>11 DEF Expire, outcome
    <2> QED BY <2>1 DEF Targets, Target, Names, ColumnsMatchRows
  <1>12. CASE UNCHANGED vars
    <2>1. UNCHANGED <<job, pc, columns, chunk, allRecords, stored>>
      BY <1>12 DEF vars
    <2> QED BY <2>1 DEF Targets, Target, Names, ColumnsMatchRows
  <1> QED
    BY <1>1, <1>2, <1>3, <1>4, <1>5, <1>6, <1>7, <1>8, <1>9, <1>10, <1>11, <1>12 DEF Next, Executor

\* A dataset's rows have exactly the columns it lists, for any file, any parameters, any
\* chunk size and however ties of the mapping fall (etl_import.go:122-195, upload.go:110-122).
THEOREM RowsHaveTheColumns == Spec => []ColumnsMatchRows
  <1>1. IInv => ColumnsMatchRows
    BY DEF IInv
  <1> QED BY InitIInv, NextIInv, <1>1, PTL DEF Spec

-----------------------------------------------------------------------------
(* The lines that can be read                                              *)

JobOK == job \in Inputs

LEMMA JobTypes ==
  ASSUME JobOK
  PROVE  /\ job.lines \in Seq({Bad} \cup (Seq(Cells) \ {<<>>}))
         /\ Len(job.lines) \in Nat
         /\ job.skipRows \in Nat /\ job.maxRows \in Nat /\ job.given \in Seq(Cells)
         /\ job.hasHeader \in BOOLEAN /\ job.upload \in BOOLEAN
  BY InputsAssumption DEF JobOK

LEMMA SkippedType == ASSUME JobOK PROVE Skipped \in Nat
  BY JobTypes DEF Skipped

LEMMA ReadableFinite ==
  ASSUME JobOK, NEW n \in Nat
  PROVE  IsFiniteSet(Readable(n)) /\ Numbered(n) \in Nat
  <1>1. Readable(n) \in SUBSET ((Skipped + 1)..n)
    BY DEF Readable
  <1>2. IsFiniteSet((Skipped + 1)..n)
    BY SkippedType, FS_Interval
  <1>3. QED
    BY <1>1, <1>2, FS_Subset, FS_CardinalityType DEF Numbered

\* One line more: a row more if it can be read, and else none.
LEMMA OneLineMore ==
  ASSUME JobOK, NEW n \in Nat, n >= Skipped
  PROVE  /\ job.lines[n + 1] # Bad =>
               Readable(n + 1) = Readable(n) \cup {n + 1} /\ Numbered(n + 1) = Numbered(n) + 1
         /\ job.lines[n + 1] = Bad => Readable(n + 1) = Readable(n) /\ Numbered(n + 1) = Numbered(n)
  <1>1. CASE job.lines[n + 1] # Bad
    <2>1. Readable(n + 1) = Readable(n) \cup {n + 1} /\ n + 1 \notin Readable(n)
      BY <1>1, SkippedType DEF Readable
    <2>2. Cardinality(Readable(n) \cup {n + 1}) = Cardinality(Readable(n)) + 1
      BY <2>1, ReadableFinite, FS_AddElement
    <2>3. QED
      BY <1>1, <2>1, <2>2 DEF Numbered
  <1>2. CASE job.lines[n + 1] = Bad
    <2>1. Readable(n + 1) = Readable(n)
      BY <1>2, SkippedType DEF Readable
    <2>2. QED
      BY <1>2, <2>1 DEF Numbered
  <1>3. QED
    BY <1>1, <1>2

\* Nothing is read while the header and the lines to skip are passed.
LEMMA NothingBefore ==
  ASSUME JobOK, NEW n \in Nat, n <= Skipped
  PROVE  Readable(n) = {} /\ Numbered(n) = 0
  BY SkippedType, FS_EmptySet DEF Readable, Numbered

\* Lines are numbered in their order.
LEMMA NumberedInOrder ==
  ASSUME JobOK, NEW n \in Nat, NEW l \in Nat
  PROVE  /\ n <= l => Numbered(n) <= Numbered(l)
         /\ n < l /\ l \in Readable(l) => Numbered(n) < Numbered(l)
         /\ l \in Readable(l) => Numbered(l) >= 1
  <1>1. n <= l => Readable(n) \in SUBSET Readable(l)
    BY SkippedType DEF Readable
  <1>2. n < l => l \notin Readable(n)
    BY SkippedType DEF Readable
  <1>3. IsFiniteSet(Readable(l))
    BY ReadableFinite
  <1>4. n <= l => Cardinality(Readable(n)) <= Cardinality(Readable(l))
    BY <1>1, <1>3, FS_Subset
  <1>5. n < l /\ l \in Readable(l) => Cardinality(Readable(n)) # Cardinality(Readable(l))
    <2> SUFFICES ASSUME n < l, l \in Readable(l)
                 PROVE  Cardinality(Readable(n)) # Cardinality(Readable(l))
      OBVIOUS
    <2>1. Readable(n) \in SUBSET Readable(l) /\ Readable(n) # Readable(l)
      BY <1>1, <1>2
    <2>2. QED
      BY <2>1, <1>3, FS_Subset
  <1>6. l \in Readable(l) => Cardinality(Readable(l)) # 0
    BY <1>3, FS_EmptySet
  <1>7. Numbered(n) \in Nat /\ Numbered(l) \in Nat
    BY ReadableFinite
  <1>8. QED
    BY <1>4, <1>5, <1>6, <1>7 DEF Numbered

-----------------------------------------------------------------------------
(* Names that differ                                                       *)

LEMMA DistinctNames ==
  ASSUME NEW cols, NEW k \in Nat, DOMAIN cols = 1..k, cols = [n \in 1..k |-> cols[n]],
         Cardinality(Names(cols)) = k
  PROVE  \A m, n \in 1..k : cols[m] = cols[n] => m = n
  <1> DEFINE f == [n \in 1..k |-> cols[n]]
  <1> DEFINE T == Names(cols)
  <1>1. f \in Surjection(1..k, T)
    BY DEF Names, Surjection
  <1>2. IsFiniteSet(1..k) /\ Cardinality(1..k) = k
    <2>1. 1 \in Int /\ k \in Int
      OBVIOUS
    <2>2. IsFiniteSet(1..k) /\ Cardinality(1..k) = IF 1 > k THEN 0 ELSE k - 1 + 1
      BY <2>1, FS_Interval
    <2>3. QED
      BY <2>2
  <1> HIDE DEF f, T
  <1>3. f \in Injection(1..k, T)
    BY <1>1, <1>2, FS_Surjection DEF T
  <1>4. QED
    BY <1>3 DEF Injection, f, IsInjective

LEMMA LastOfDistinct ==
  ASSUME NEW cols, NEW k \in Nat, DOMAIN cols = 1..k,
         \A m, n \in 1..k : cols[m] = cols[n] => m = n,
         NEW n \in 1..k
  PROVE  LastOf(cols, cols[n]) = n
  BY DEF LastOf

\* A row's record has each cell under the new name of its column, if these differ.
LEMMA RecordHasCells ==
  ASSUME NEW row, NEW rec \in RecordsOf(row), NEW k \in Nat, DOMAIN columns = 1..k,
         \A m, n \in 1..k : Target(columns[m]) = Target(columns[n]) => m = n,
         NEW n \in 1..k
  PROVE  rec[Target(columns[n])] = IF n > Len(row) THEN Empty ELSE Trim[row[n]]
  <1>1. PICK w : /\ \A t \in Targets : w[t] \in Names(columns) /\ Target(w[t]) = t
                 /\ rec = [t \in Targets |-> CellOf(columns, row, w[t])]
    BY DEF RecordsOf, Targets
  <1> DEFINE t == Target(columns[n])
  <1>2. t \in Targets
    BY DEF Targets, Names
  <1>3. PICK m \in 1..k : w[t] = columns[m]
    BY <1>1, <1>2 DEF Names
  <1>4. m = n
    BY <1>1, <1>2, <1>3
  <1>5. LastOf(columns, columns[n]) = n
    <2>1. \A p, q \in 1..k : columns[p] = columns[q] => p = q
      OBVIOUS
    <2>2. QED
      BY <2>1, LastOfDistinct
  <1>6. rec[t] = CellOf(columns, row, columns[n])
    BY <1>1, <1>2, <1>3, <1>4
  <1>7. QED
    BY <1>5, <1>6 DEF CellOf

-----------------------------------------------------------------------------
(* What has been read is the part of the file up to the line               *)

\* The header and the lines to skip can be read.
Clean == \A n \in 1..Skipped : n \in DOMAIN job.lines => job.lines[n] # Bad

HasHeader == job.hasHeader \/ job.skipRows = 0
HeaderRow == [n \in DOMAIN job.lines[1] |-> Trim[job.lines[1][n]]]
ReadColumns == IF job.given # <<>> THEN job.given ELSE HeaderRow

Progress ==
    /\ JobOK
    /\ line \in 0..Len(job.lines) /\ toSkip \in Nat /\ totalRead \in Nat
    /\ job.upload => pc \in {"open", "done", "failed"}
    /\ pc \in {"open", "header", "skip"} => totalRead = 0

\* Before the rows: where the reader is, and the header it has read.
SkipInv ==
    ~job.upload /\ Clean =>
        /\ pc \in {"open", "header"} => line = 0 /\ toSkip = job.skipRows /\ columns = <<>>
        /\ pc = "skip" => /\ line + toSkip = Skipped
                          /\ columns = IF HasHeader THEN HeaderRow ELSE <<>>
                          /\ HasHeader => line >= 1

\* While the rows are read: the k-th line that can be read is the k-th record.
Records == allRecords \o chunk
RowsInv ==
    ~job.upload /\ Clean /\ pc \in {"rows", "store"} =>
        /\ line = Len(job.lines) \/ line >= Skipped
        /\ columns = ReadColumns /\ columns \in Seq(Cells)
        /\ Len(Records) = Numbered(line) /\ totalRead = Numbered(line)
        /\ \A l \in Readable(line) : Records[Numbered(l)] \in RecordsOf(job.lines[l])
        /\ pc = "rows" => (job.maxRows > 0 => totalRead < job.maxRows)
        /\ pc = "store" =>
              \/ line = Len(job.lines) /\ (job.maxRows > 0 => totalRead < job.maxRows)
              \/ job.maxRows > 0 /\ totalRead = job.maxRows

FileInv == IInv /\ Progress /\ SkipInv /\ RowsInv /\ StoredIsTheFile

\* Of the job alone: nothing of these changes.
LEMMA OfTheJob ==
  ASSUME job' = job
  PROVE  /\ (JobOK' <=> JobOK) /\ Skipped' = Skipped /\ (Clean' <=> Clean) /\ Wanted' = Wanted
         /\ \A n : Readable(n)' = Readable(n) /\ Numbered(n)' = Numbered(n)
         /\ (HasHeader' <=> HasHeader) /\ HeaderRow' = HeaderRow /\ ReadColumns' = ReadColumns
         /\ Named' = Named
  BY DEF JobOK, Skipped, Clean, Wanted, Readable, Numbered, HasHeader, HeaderRow, ReadColumns,
         Named, Target

LEMMA OfTheColumns ==
  ASSUME job' = job, columns' = columns
  PROVE  \A row : RecordsOf(row)' = RecordsOf(row)
  BY DEF RecordsOf, Target, CellOf

LEMMA FileInvInit == Init => FileInv
  <1> SUFFICES ASSUME Init PROVE FileInv
    OBVIOUS
  <1>1. JobOK
    BY DEF Init, JobOK
  <1>2. Progress
    BY <1>1, JobTypes DEF Init, Progress
  <1>3. SkipInv /\ RowsInv
    BY DEF Init, SkipInv, RowsInv
  <1>4. StoredIsTheFile
    BY DEF Init, StoredIsTheFile
  <1>5. QED
    BY <1>2, <1>3, <1>4, InitIInv DEF FileInv

\* Nothing is stored by a step that does not end in "done".
LEMMA NotStored ==
  ASSUME pc' # "done", stored' = None
  PROVE  StoredIsTheFile'
  BY DEF StoredIsTheFile

LEMMA ReadHeaderStep ==
  ASSUME FileInv, ReadHeader
  PROVE  Progress' /\ SkipInv' /\ RowsInv'
  <1> USE DEF FileInv, Progress
  <1>1. job' = job /\ pc = "header" /\ pc' \in {"skip", "failed"} /\ totalRead' = totalRead
        /\ toSkip' = toSkip /\ ~job.upload
    BY DEF ReadHeader, Fail, counts
  <1>2. JobOK /\ Len(job.lines) \in Nat /\ job.skipRows \in Nat
    BY JobTypes
  <1>3. /\ HasHeader => Skipped = job.skipRows + 1
        /\ ~HasHeader => Skipped = job.skipRows
    BY <1>1, <1>2 DEF Skipped, HasHeader
  <1>4. line' \in 0..Len(job.lines)
    BY <1>1, <1>2 DEF ReadHeader, Fail, ReadsRow, Left
  <1>5. Progress'
    BY <1>1, <1>4, OfTheJob
  <1>6. SkipInv'
    <2> SUFFICES ASSUME Clean, pc' = "skip"
                 PROVE  /\ line' + toSkip' = Skipped
                        /\ columns' = IF HasHeader THEN HeaderRow ELSE <<>>
                        /\ HasHeader => line' >= 1
      BY <1>1, OfTheJob DEF SkipInv
    <2>1. line = 0 /\ toSkip = job.skipRows /\ columns = <<>>
      BY <1>1 DEF SkipInv
    <2>2. CASE HasHeader
      <3>1. line' = 1 /\ columns' = HeaderRow
        BY <2>1, <2>2 DEF ReadHeader, Fail, HasHeader, HeaderRow
      <3>2. QED
        BY <1>1, <1>2, <1>3, <2>1, <2>2, <3>1
    <2>3. CASE ~HasHeader
      <3>1. line' = 0 /\ columns' = <<>>
        BY <2>1, <2>3 DEF ReadHeader, HasHeader
      <3>2. QED
        BY <1>1, <1>2, <1>3, <2>1, <2>3, <3>1
    <2>4. QED
      BY <2>2, <2>3
  <1>7. RowsInv'
    BY <1>1 DEF RowsInv
  <1>8. QED
    BY <1>5, <1>6, <1>7

LEMMA SkipRowStep ==
  ASSUME FileInv, SkipRow
  PROVE  Progress' /\ SkipInv' /\ RowsInv'
  <1> USE DEF FileInv, Progress
  <1>1. /\ job' = job /\ columns' = columns /\ pc = "skip" /\ pc' = "skip" /\ ~job.upload
        /\ totalRead' = totalRead /\ toSkip' = toSkip - 1 /\ toSkip > 0 /\ line' = line + 1
        /\ line < Len(job.lines)
    BY DEF SkipRow, ReadsRow, Left, counts
  <1>2. JobOK /\ Len(job.lines) \in Nat
    BY JobTypes
  <1>3. Progress'
    BY <1>1, <1>2, OfTheJob
  <1>4. SkipInv'
    <2>1. ~job.upload /\ Clean => /\ line + toSkip = Skipped
                                  /\ columns = IF HasHeader THEN HeaderRow ELSE <<>>
      BY <1>1 DEF SkipInv
    <2>2. ~job.upload /\ Clean => line' + toSkip' = Skipped /\ line' >= 1
      BY <1>1, <1>2, <2>1, SkippedType
    <2>3. QED
      BY <1>1, <2>1, <2>2, OfTheJob DEF SkipInv
  <1>5. RowsInv'
    BY <1>1 DEF RowsInv
  <1>6. QED
    BY <1>3, <1>4, <1>5

LEMMA StartRowsStep ==
  ASSUME FileInv, StartRows
  PROVE  Progress' /\ SkipInv' /\ RowsInv'
  <1> USE DEF FileInv, Progress
  <1>1. /\ job' = job /\ pc = "skip" /\ pc' \in {"rows", "failed"} /\ ~job.upload
        /\ totalRead' = totalRead /\ totalRead = 0 /\ toSkip' = toSkip
        /\ chunk' = <<>> /\ allRecords' = <<>>
    BY DEF StartRows, counts, IInv
  <1>2. JobOK /\ Len(job.lines) \in Nat /\ job.given \in Seq(Cells)
        /\ job.lines \in Seq({Bad} \cup (Seq(Cells) \ {<<>>}))
        /\ job.maxRows \in Nat
    BY JobTypes
  <1>3. line' \in 0..Len(job.lines)
    BY <1>2 DEF StartRows, Left
  <1>4. Progress'
    BY <1>1, <1>2, <1>3, OfTheJob
  <1>5. SkipInv'
    BY <1>1 DEF SkipInv
  <1>6. ASSUME Clean, pc' = "rows"
        PROVE  /\ line' = Len(job.lines) \/ line' >= Skipped
               /\ columns' = ReadColumns /\ columns' \in Seq(Cells)
               /\ line' <= Skipped
    <2>1. /\ line + toSkip = Skipped
          /\ columns = IF HasHeader THEN HeaderRow ELSE <<>>
          /\ HasHeader => line >= 1
      BY <1>1, <1>6 DEF SkipInv
    <2>2. columns' = (IF job.given # <<>> THEN job.given ELSE columns) /\ columns' # <<>>
      BY <1>6 DEF StartRows
    <2>3. columns' = ReadColumns /\ (job.given = <<>> => HasHeader)
      BY <2>1, <2>2 DEF ReadColumns
    <2>4. line >= 1 => job.lines[1] # Bad
      <3>1. line >= 1 => 1 \in 1..Skipped /\ 1 \in DOMAIN job.lines
        BY <1>2, <2>1, SkippedType
      <3>2. QED
        BY <1>6, <3>1 DEF Clean
    <2>5. columns' \in Seq(Cells)
      <3>1. CASE job.given # <<>>
        BY <1>2, <2>2, <3>1
      <3>2. CASE job.given = <<>>
        <4>1. line >= 1 /\ columns' = HeaderRow
          BY <2>1, <2>2, <2>3, <3>2 DEF ReadColumns
        <4>2. job.lines[1] \in Seq(Cells)
          BY <1>2, <2>4, <4>1
        <4>3. \A n \in 1..Len(job.lines[1]) : Trim[job.lines[1][n]] \in Cells
          BY <4>2, CellsAssumption
        <4>4. Len(job.lines[1]) \in Nat /\ DOMAIN job.lines[1] = 1..Len(job.lines[1])
          BY <4>2
        <4>5. HeaderRow \in Seq(Cells)
          BY <4>3, <4>4 DEF HeaderRow
        <4>6. QED
          BY <4>1, <4>5
      <3>3. QED
        BY <3>1, <3>2
    <2>6. CASE toSkip = 0
      BY <2>1, <2>3, <2>5, <2>6, SkippedType DEF StartRows
    <2>7. CASE toSkip # 0
      <3>1. ~Left
        <4>1. Left => line + 1 \in 1..Skipped /\ line + 1 \in DOMAIN job.lines
          BY <1>2, <2>1, <2>7, SkippedType DEF Left
        <4>2. Left => ReadsRow
          BY <1>6, <4>1 DEF Clean, ReadsRow
        <4>3. QED
          BY <2>7, <4>2 DEF StartRows
      <3>2. line' = line /\ line = Len(job.lines)
        BY <1>2, <3>1 DEF StartRows, Left
      <3>3. QED
        BY <2>1, <2>3, <2>5, <3>2, SkippedType
    <2>8. QED
      BY <2>6, <2>7
  <1>7. RowsInv'
    <2> SUFFICES ASSUME Clean, pc' = "rows" PROVE RowsInv'
      BY <1>1, OfTheJob DEF RowsInv
    <2>1. Records' = <<>> /\ Len(Records') = 0
      BY <1>1 DEF Records
    <2>2. Readable(line') = {} /\ Numbered(line') = 0
      BY <1>3, <1>6, NothingBefore
    <2>3. Readable(line)' = {} /\ Numbered(line)' = 0
      BY <1>1, <2>2 DEF Readable, Numbered, Skipped
    <2>4. QED
      BY <1>1, <1>2, <1>6, <2>1, <2>3, OfTheJob DEF RowsInv
  <1>8. QED
    BY <1>4, <1>5, <1>7

LEMMA AppendToRecords ==
  ASSUME NEW S, NEW a \in Seq(S), NEW c \in Seq(S), NEW e \in S
  PROVE  /\ a \o Append(c, e) = Append(a \o c, e)
         /\ (a \o Append(c, e)) \o <<>> = Append(a \o c, e)
         /\ a \o c \in Seq(S) /\ Len(a \o c) \in Nat
         /\ Len(Append(a \o c, e)) = Len(a \o c) + 1
         /\ Append(a \o c, e)[Len(a \o c) + 1] = e
         /\ \A k \in 1..Len(a \o c) : Append(a \o c, e)[k] = (a \o c)[k]
  <1>1. a \o Append(c, e) = Append(a \o c, e)
    OBVIOUS
  <1>2. a \o c \in Seq(S) /\ Append(a \o c, e) \in Seq(S)
    OBVIOUS
  <1>3. Append(a \o c, e) \o <<>> = Append(a \o c, e)
    BY <1>2, ConcatEmptySeq
  <1>4. QED
    BY <1>1, <1>2, <1>3

\* The records read so far are one more, whether the record joins the chunk or
\* the full chunk goes out with it.
LEMMA OneRecordMore ==
  ASSUME NEW S, allRecords \in Seq(S), chunk \in Seq(S), NEW rec \in S,
         \/ chunk' = <<>> /\ allRecords' = allRecords \o Append(chunk, rec)
         \/ chunk' = Append(chunk, rec) /\ allRecords' = allRecords
  PROVE  /\ Records' = Append(Records, rec)
         /\ Len(Records) \in Nat /\ Len(Records') = Len(Records) + 1
         /\ Records'[Len(Records) + 1] = rec
         /\ \A k \in 1..Len(Records) : Records'[k] = Records[k]
  <1>1. /\ allRecords \o Append(chunk, rec) = Append(allRecords \o chunk, rec)
        /\ (allRecords \o Append(chunk, rec)) \o <<>> = Append(allRecords \o chunk, rec)
    <2>1. allRecords \o Append(chunk, rec) = Append(allRecords \o chunk, rec)
      OBVIOUS
    <2>2. Append(allRecords \o chunk, rec) \in Seq(S)
      OBVIOUS
    <2>3. Append(allRecords \o chunk, rec) \o <<>> = Append(allRecords \o chunk, rec)
      BY <2>2, ConcatEmptySeq
    <2>4. QED
      BY <2>1, <2>3, Zenon
  <1>2. Records' = Append(Records, rec)
    <2>1. CASE chunk' = <<>> /\ allRecords' = allRecords \o Append(chunk, rec)
      BY <1>1, <2>1, Zenon DEF Records
    <2>2. CASE chunk' = Append(chunk, rec) /\ allRecords' = allRecords
      BY <1>1, <2>2, Zenon DEF Records
    <2>3. QED
      BY <2>1, <2>2
  <1>3. /\ Len(allRecords \o chunk) \in Nat
        /\ Len(Append(allRecords \o chunk, rec)) = Len(allRecords \o chunk) + 1
        /\ Append(allRecords \o chunk, rec)[Len(allRecords \o chunk) + 1] = rec
        /\ \A k \in 1..Len(allRecords \o chunk) :
              Append(allRecords \o chunk, rec)[k] = (allRecords \o chunk)[k]
    BY AppendToRecords
  <1>4. QED
    BY <1>2, <1>3, Zenon DEF Records

\* A row read is one record more, whether or not the chunk is full.
LEMMA ReadRowStep ==
  ASSUME FileInv, ReadRow
  PROVE  Progress' /\ SkipInv' /\ RowsInv'
  <1> USE DEF FileInv, Progress
  <1>1. /\ job' = job /\ columns' = columns /\ pc = "rows" /\ pc' \in {"rows", "store"}
        /\ ~job.upload /\ line' = line + 1 /\ totalRead' = totalRead + 1 /\ toSkip' = toSkip
        /\ line < Len(job.lines) /\ job.lines[line + 1] # Bad
        /\ pc' = IF job.maxRows > 0 /\ totalRead' >= job.maxRows THEN "store" ELSE "rows"
    BY DEF ReadRow, Reading, ReadsRow, Left
  <1>2. JobOK /\ Len(job.lines) \in Nat /\ job.maxRows \in Nat
    BY JobTypes
  <1>3. Progress'
    BY <1>1, <1>2, OfTheJob
  <1>4. SkipInv'
    BY <1>1 DEF SkipInv
  <1>5. RowsInv'
    <2> SUFFICES ASSUME Clean PROVE RowsInv'
      BY <1>1, OfTheJob DEF RowsInv
    <2>1. /\ line >= Skipped
          /\ columns = ReadColumns /\ columns \in Seq(Cells)
          /\ Len(Records) = Numbered(line) /\ totalRead = Numbered(line)
          /\ \A l \in Readable(line) : Records[Numbered(l)] \in RecordsOf(job.lines[l])
          /\ job.maxRows > 0 => totalRead < job.maxRows
      BY <1>1 DEF RowsInv
    <2>2. PICK rec \in RecordsOf(job.lines[line + 1]) :
             \/ chunk' = <<>> /\ allRecords' = allRecords \o Append(chunk, rec)
             \/ chunk' = Append(chunk, rec) /\ allRecords' = allRecords
      BY DEF ReadRow
    <2>3. PICK S : allRecords \in Seq(S) /\ chunk \in Seq(S) /\ rec \in S
      <3>1. PICK S1 : allRecords \in Seq(S1)
        BY <1>1 DEF IInv, Framed
      <3>2. PICK S2 : chunk \in Seq(S2)
        BY <1>1 DEF IInv, Framed
      <3>3. allRecords \in Seq(S1 \cup S2 \cup {rec}) /\ chunk \in Seq(S1 \cup S2 \cup {rec})
        BY <3>1, <3>2
      <3>4. QED
        BY <3>3
    <2>4. Records' = Append(Records, rec)
      BY <2>2, <2>3, OneRecordMore, Zenon
    <2>5. /\ Len(Records) \in Nat /\ Len(Records') = Len(Records) + 1
          /\ Records'[Len(Records) + 1] = rec
          /\ \A k \in 1..Len(Records) : Records'[k] = Records[k]
      BY <2>2, <2>3, OneRecordMore, Zenon
    <2>6. /\ Readable(line + 1) = Readable(line) \cup {line + 1}
          /\ Numbered(line + 1) = Numbered(line) + 1
      BY <1>1, <2>1, OneLineMore
    <2>7. ASSUME NEW l \in Readable(line + 1)
          PROVE  Records'[Numbered(l)] \in RecordsOf(job.lines[l])
      <3>1. CASE l = line + 1
        BY <2>1, <2>2, <2>5, <2>6, <3>1
      <3>2. CASE l \in Readable(line)
        <4>1. l \in Nat /\ l <= line /\ l \in Readable(l)
          BY <3>2, SkippedType DEF Readable
        <4>2. Numbered(l) \in 1..Len(Records)
          BY <2>1, <2>5, <4>1, NumberedInOrder, ReadableFinite
        <4>3. QED
          BY <2>1, <2>5, <3>2, <4>2
      <3>3. QED
        BY <2>6, <3>1, <3>2
    <2>8. /\ Readable(line)' = Readable(line + 1)
          /\ Numbered(line)' = Numbered(line + 1)
      BY <1>1 DEF Readable, Numbered, Skipped
    <2>9. \A l \in Readable(line)' : Records'[Numbered(l)'] \in RecordsOf(job.lines[l])'
      BY <1>1, <2>7, <2>8, OfTheJob, OfTheColumns
    <2>10. /\ Len(Records)' = Numbered(line)' /\ totalRead' = Numbered(line)'
           /\ line' >= Skipped'
      BY <1>1, <1>2, <2>1, <2>5, <2>6, <2>8, SkippedType, OfTheJob
    <2>11. /\ pc' = "rows" => (job.maxRows > 0 => totalRead' < job.maxRows)
           /\ pc' = "store" => job.maxRows > 0 /\ totalRead' = job.maxRows
      BY <1>1, <1>2, <2>1
    <2>12. columns' = ReadColumns' /\ columns' \in Seq(Cells)
      BY <1>1, <2>1, OfTheJob
    <2>13. QED
      BY <1>1, <2>9, <2>10, <2>11, <2>12 DEF RowsInv
  <1>6. QED
    BY <1>3, <1>4, <1>5

LEMMA ReadErrorStep ==
  ASSUME FileInv, ReadError
  PROVE  Progress' /\ SkipInv' /\ RowsInv'
  <1> USE DEF FileInv, Progress
  <1>1. /\ UNCHANGED <<job, pc, columns, toSkip, chunk, allRecords, totalRead>>
        /\ pc = "rows" /\ ~job.upload
        /\ \/ line' = line + 1 /\ line < Len(job.lines) /\ job.lines[line + 1] = Bad
           \/ line' = line
    BY DEF ReadError, Reading, ReadsError, ReadsRow, Left
  <1>2. JobOK /\ Len(job.lines) \in Nat
    BY JobTypes
  <1>3. Progress'
    BY <1>1, <1>2, OfTheJob
  <1>4. SkipInv'
    BY <1>1 DEF SkipInv
  <1>5. RowsInv'
    <2> SUFFICES ASSUME Clean PROVE RowsInv'
      BY <1>1, OfTheJob DEF RowsInv
    <2>1. /\ line = Len(job.lines) \/ line >= Skipped
          /\ columns = ReadColumns /\ columns \in Seq(Cells)
          /\ Len(Records) = Numbered(line) /\ totalRead = Numbered(line)
          /\ \A l \in Readable(line) : Records[Numbered(l)] \in RecordsOf(job.lines[l])
          /\ job.maxRows > 0 => totalRead < job.maxRows
      BY <1>1 DEF RowsInv
    <2>2. /\ Readable(line') = Readable(line) /\ Numbered(line') = Numbered(line)
          /\ line' = Len(job.lines) \/ line' >= Skipped
      <3>1. CASE line' = line
        BY <2>1, <3>1
      <3>2. CASE line' = line + 1 /\ line < Len(job.lines) /\ job.lines[line + 1] = Bad
        <4>1. line \in Nat /\ line >= Skipped
          BY <1>2, <2>1, <3>2
        <4>2. Readable(line + 1) = Readable(line) /\ Numbered(line + 1) = Numbered(line)
          BY <1>2, <3>2, <4>1, OneLineMore
        <4>3. line' >= Skipped
          BY <3>2, <4>1, SkippedType
        <4>4. QED
          BY <3>2, <4>2, <4>3
      <3>3. QED
        BY <1>1, <3>1, <3>2
    <2>3. Readable(line)' = Readable(line') /\ Numbered(line)' = Numbered(line')
      BY <1>1 DEF Readable, Numbered, Skipped
    <2>4. Records' = Records
      BY <1>1 DEF Records
    <2>5. \A l \in Readable(line)' : Records'[Numbered(l)'] \in RecordsOf(job.lines[l])'
      BY <1>1, <2>1, <2>2, <2>3, <2>4, OfTheJob, OfTheColumns
    <2>6. Len(Records)' = Numbered(line)' /\ totalRead' = Numbered(line)'
      BY <1>1, <2>1, <2>2, <2>3, <2>4
    <2>7. columns' = ReadColumns' /\ columns' \in Seq(Cells)
      BY <1>1, <2>1, OfTheJob
    <2>8. line' = Len(job.lines)' \/ line' >= Skipped'
      BY <1>1, <2>2, OfTheJob
    <2>9. QED
      BY <1>1, <2>1, <2>5, <2>6, <2>7, <2>8 DEF RowsInv
  <1>6. QED
    BY <1>3, <1>4, <1>5

\* What is stored is what was read, and that is the whole file or as much as is wanted.
LEMMA StoreStep ==
  ASSUME FileInv, Store
  PROVE  StoredIsTheFile'
  <1> USE DEF FileInv, Progress
  <1>1. /\ job' = job /\ pc = "store" /\ pc' = "done" /\ ~job.upload
        /\ stored' = [columns |-> MappedColumns, rows |-> Records]
    BY DEF Store, Flushed, Records
  <1>2. JobOK /\ Len(job.lines) \in Nat /\ job.maxRows \in Nat
    BY JobTypes
  <1>3. stored' # None
    <2>1. DOMAIN stored' = {"columns", "rows"}
      BY <1>1
    <2>2. DOMAIN None = {}
      BY DEF None
    <2>3. QED
      BY <2>1, <2>2
  <1>4. ASSUME Clean
        PROVE  /\ Len(Records) = Wanted
               /\ Cardinality(Names(Named)) = Len(Named) =>
                     \A l \in Readable(Len(job.lines)), n \in DOMAIN Named :
                        Numbered(l) <= Wanted =>
                           Records[Numbered(l)][Named[n]] =
                              IF n > Len(job.lines[l]) THEN Empty ELSE Trim[job.lines[l][n]]
    <2>1. /\ columns = ReadColumns /\ columns \in Seq(Cells)
          /\ Len(Records) = Numbered(line) /\ totalRead = Numbered(line)
          /\ \A l \in Readable(line) : Records[Numbered(l)] \in RecordsOf(job.lines[l])
          /\ \/ line = Len(job.lines) /\ (job.maxRows > 0 => totalRead < job.maxRows)
             \/ job.maxRows > 0 /\ totalRead = job.maxRows
      BY <1>1, <1>4 DEF RowsInv
    <2>2. Numbered(line) \in Nat /\ Numbered(Len(job.lines)) \in Nat
          /\ Numbered(line) <= Numbered(Len(job.lines))
      <3>1. line \in Nat /\ Len(job.lines) \in Nat /\ line <= Len(job.lines)
        BY <1>2
      <3>2. QED
        BY <1>2, <3>1, ReadableFinite, NumberedInOrder
    <2>3. Numbered(line) = Wanted
      BY <1>1, <1>2, <2>1, <2>2 DEF Wanted
    <2>4. /\ Named = [n \in 1..Len(columns) |-> Target(columns[n])]
          /\ Len(columns) \in Nat /\ DOMAIN columns = 1..Len(columns)
      BY <1>1, <2>1 DEF Named, ReadColumns, HeaderRow
    <2>5. ASSUME Cardinality(Names(Named)) = Len(Named),
                 NEW l \in Readable(Len(job.lines)), NEW n \in DOMAIN Named,
                 Numbered(l) <= Wanted
          PROVE  Records[Numbered(l)][Named[n]] =
                    IF n > Len(job.lines[l]) THEN Empty ELSE Trim[job.lines[l][n]]
      <3>1. l \in Nat /\ l \in Readable(l)
        BY <1>2, SkippedType DEF Readable
      <3>2. l <= line
        BY <2>2, <2>3, <2>5, <3>1, NumberedInOrder, ReadableFinite
      <3>3. l \in Readable(line)
        BY <3>1, <3>2 DEF Readable
      <3>4. Records[Numbered(l)] \in RecordsOf(job.lines[l])
        BY <2>1, <3>3
      <3>5. \A m, k \in 1..Len(columns) : Target(columns[m]) = Target(columns[k]) => m = k
        <4> DEFINE names == Named
                   len == Len(columns)
        <4>1. /\ len \in Nat /\ names = [k \in 1..len |-> names[k]]
              /\ DOMAIN names = 1..len /\ Len(names) = len
          BY <2>4
        <4>2. Cardinality(Names(names)) = len
          BY <2>5, <4>1
        <4> HIDE DEF names, len
        <4>3. \A m, k \in 1..len : names[m] = names[k] => m = k
          BY <4>1, <4>2, DistinctNames
        <4>4. QED
          BY <2>4, <4>3 DEF names, len
      <3>6. n \in 1..Len(columns) /\ Named[n] = Target(columns[n])
        BY <2>4
      <3>7. QED
        <4> DEFINE row == job.lines[l]
                   rec == Records[Numbered(l)]
                   len == Len(columns)
        <4>1. rec \in RecordsOf(row) /\ len \in Nat /\ DOMAIN columns = 1..len
          BY <2>4, <3>4
        <4>2. \A m, k \in 1..len : Target(columns[m]) = Target(columns[k]) => m = k
          BY <3>5
        <4>3. n \in 1..len
          BY <3>6
        <4> HIDE DEF row, rec, len
        <4>4. rec[Target(columns[n])] = IF n > Len(row) THEN Empty ELSE Trim[row[n]]
          BY <4>1, <4>2, <4>3, RecordHasCells
        <4>5. QED
          BY <3>6, <4>4 DEF row, rec
    <2>6. QED
      BY <2>1, <2>3, <2>5
  <1>5. stored'.rows = Records
    BY <1>1
  <1>6. QED
    BY <1>1, <1>3, <1>4, <1>5, OfTheJob DEF StoredIsTheFile, Clean

\* An upload that parses has every line after the first as a row.
LEMMA UploadStep ==
  ASSUME FileInv, Upload
  PROVE  StoredIsTheFile'
  <1> USE DEF FileInv, Progress
  <1>1. job' = job /\ pc = "open" /\ job.upload
    BY DEF Upload
  <1>2. CASE ~Parses
    <2>1. pc' = "failed" /\ stored' = None
      BY <1>2 DEF Upload
    <2>2. QED
      BY <2>1, NotStored
  <1>3. CASE Parses
    <2> DEFINE names == job.lines[1]
               len == Len(job.lines)
               width == Len(names)
               loaded == [k \in 1..(len - 1) |->
                            [c \in Names(names) |-> job.lines[k + 1][LastOf(names, c)]]]
    <2>1. pc' = "done" /\ stored' = [columns |-> names, rows |-> loaded]
      BY <1>3 DEF Upload
    <2>2. stored' # None
      <3>1. DOMAIN stored' = {"columns", "rows"}
        BY <2>1
      <3>2. DOMAIN None = {}
        BY DEF None
      <3>3. QED
        BY <3>1, <3>2
    <2>3. /\ len \in Nat /\ len >= 2
          /\ \A l \in 1..len : job.lines[l] \in Seq(Cells) /\ job.lines[l] # Bad
                               /\ Len(job.lines[l]) = width
      <3>1. len \in Nat /\ DOMAIN job.lines = 1..len
            /\ job.lines \in Seq({Bad} \cup (Seq(Cells) \ {<<>>}))
        BY JobTypes
      <3>2. \A l \in 1..len : job.lines[l] \in {Bad} \cup (Seq(Cells) \ {<<>>})
        BY <3>1
      <3>3. QED
        BY <1>3, <3>1, <3>2 DEF Parses
    <2>4. width \in Nat /\ DOMAIN names = 1..width /\ names = [n \in 1..width |-> names[n]]
      <3>1. names \in Seq(Cells)
        BY <2>3
      <3>2. QED
        BY <3>1
    <2>5. \A n \in 1..len : Readable(n) = 2..n /\ Numbered(n) = n - 1
      <3>1. Skipped = 1
        BY <1>1 DEF Skipped
      <3>2. ASSUME NEW n \in 1..len
            PROVE  Readable(n) = 2..n /\ Numbered(n) = n - 1
        <4>1. Readable(n) = 2..n
          BY <2>3, <3>1 DEF Readable
        <4>2. 2 \in Int /\ n \in Int /\ n >= 1
          BY <2>3
        <4>3. Cardinality(2..n) = IF 2 > n THEN 0 ELSE n - 2 + 1
          BY <4>2, FS_Interval
        <4>4. QED
          BY <4>1, <4>2, <4>3 DEF Numbered
      <3>3. QED
        BY <3>2
    <2>6. Wanted = len - 1
      BY <1>1, <2>3, <2>5 DEF Wanted
    <2>7. Named = names
      BY <1>1 DEF Named
    <2>8. Len(loaded) = len - 1
      BY <2>3
    <2>9. ASSUME Cardinality(Names(names)) = width,
                 NEW l \in 2..len, NEW n \in 1..width
          PROVE  loaded[l - 1][names[n]] = job.lines[l][n] /\ ~(n > Len(job.lines[l]))
      <3>1. LastOf(names, names[n]) = n
        <4> HIDE DEF names, width
        <4>1. \A m, k \in 1..width : names[m] = names[k] => m = k
          BY <2>4, <2>9, DistinctNames
        <4>2. QED
          BY <2>4, <4>1, LastOfDistinct
      <3>2. l - 1 \in 1..(len - 1) /\ (l - 1) + 1 = l /\ names[n] \in Names(names)
        BY <2>3, <2>4 DEF Names
      <3>3. loaded[l - 1][names[n]] = job.lines[l][LastOf(names, names[n])]
        BY <3>2
      <3>4. QED
        BY <2>3, <2>4, <3>1, <3>3
    <2>10. /\ Len(loaded) = Wanted
           /\ Cardinality(Names(Named)) = Len(Named) =>
                 \A l \in Readable(len), n \in DOMAIN Named :
                    Numbered(l) <= Wanted =>
                       loaded[Numbered(l)][Named[n]] =
                          IF n > Len(job.lines[l]) THEN Empty
                          ELSE IF job.upload THEN job.lines[l][n] ELSE Trim[job.lines[l][n]]
      <3> HIDE DEF loaded
      <3>1. Readable(len) = 2..len /\ \A l \in 2..len : Numbered(l) = l - 1
        BY <2>3, <2>5
      <3>2. ASSUME Cardinality(Names(Named)) = Len(Named),
                   NEW l \in Readable(len), NEW n \in DOMAIN Named
            PROVE  loaded[Numbered(l)][Named[n]] =
                      IF n > Len(job.lines[l]) THEN Empty
                      ELSE IF job.upload THEN job.lines[l][n] ELSE Trim[job.lines[l][n]]
        <4>1. Cardinality(Names(names)) = width /\ l \in 2..len /\ n \in 1..width
          BY <2>4, <2>7, <3>1, <3>2
        <4>2. loaded[l - 1][names[n]] = job.lines[l][n] /\ ~(n > Len(job.lines[l]))
          BY <2>9, <4>1
        <4>3. Numbered(l) = l - 1 /\ Named[n] = names[n]
          BY <2>7, <3>1, <4>1
        <4> HIDE DEF names, len, width
        <4>4. QED
          BY <1>1, <4>2, <4>3
      <3>3. QED
        BY <2>6, <2>8, <3>2
    <2>11. stored'.rows = loaded
      BY <2>1
    <2> HIDE DEF loaded
    <2>12. QED
      BY <1>1, <2>1, <2>2, <2>10, <2>11, OfTheJob DEF StoredIsTheFile
  <1>4. QED
    BY <1>2, <1>3

\* A step that reads nothing and stores nothing.
LEMMA OtherStep ==
  ASSUME FileInv, IInv',
         UNCHANGED <<job, line, toSkip, columns, chunk, allRecords, totalRead, stored>>,
         \/ pc' = pc
         \/ pc # "done" /\ pc' = "failed"
         \/ pc = "open" /\ ~job.upload /\ pc' = "header"
         \/ pc = "rows" /\ line = Len(job.lines) /\ pc' = "store"
  PROVE  FileInv'
  <1> USE DEF FileInv
  <1>1. job' = job /\ columns' = columns /\ line' = line
    OBVIOUS
  <1>2. Progress'
    BY <1>1, OfTheJob DEF Progress
  <1>3. SkipInv'
    BY <1>1, OfTheJob DEF SkipInv
  <1>4. RowsInv'
    <2> SUFFICES ASSUME ~job.upload, Clean, pc' \in {"rows", "store"}
                 PROVE  RowsInv'
      BY <1>1, OfTheJob DEF RowsInv
    <2>1. pc \in {"rows", "store"} /\ (pc' # pc => line = Len(job.lines) /\ pc = "rows")
      OBVIOUS
    <2>2. /\ line = Len(job.lines) \/ line >= Skipped
          /\ columns = ReadColumns /\ columns \in Seq(Cells)
          /\ Len(Records) = Numbered(line) /\ totalRead = Numbered(line)
          /\ \A l \in Readable(line) : Records[Numbered(l)] \in RecordsOf(job.lines[l])
          /\ pc = "rows" => (job.maxRows > 0 => totalRead < job.maxRows)
          /\ pc = "store" =>
                \/ line = Len(job.lines) /\ (job.maxRows > 0 => totalRead < job.maxRows)
                \/ job.maxRows > 0 /\ totalRead = job.maxRows
      BY <2>1 DEF RowsInv
    <2>3. Readable(line)' = Readable(line) /\ Numbered(line)' = Numbered(line)
      BY <1>1 DEF Readable, Numbered, Skipped
    <2>4. Records' = Records
      BY DEF Records
    <2>5. \A l \in Readable(line)' : Records'[Numbered(l)'] \in RecordsOf(job.lines[l])'
      BY <1>1, <2>2, <2>3, <2>4, OfTheJob, OfTheColumns
    <2>6. Len(Records)' = Numbered(line)' /\ totalRead' = Numbered(line)'
      BY <2>2, <2>3, <2>4
    <2>7. /\ columns' = ReadColumns' /\ columns' \in Seq(Cells)
          /\ line' = Len(job.lines)' \/ line' >= Skipped'
      BY <1>1, <2>2, OfTheJob
    <2>8. /\ pc' = "rows" => (job.maxRows > 0 => totalRead' < job.maxRows)
          /\ pc' = "store" =>
                \/ line' = Len(job.lines) /\ (job.maxRows > 0 => totalRead' < job.maxRows)
                \/ job.maxRows > 0 /\ totalRead' = job.maxRows
      BY <1>1, <2>1, <2>2
    <2>9. QED
      BY <1>1, <2>5, <2>6, <2>7, <2>8 DEF RowsInv
  <1>5. StoredIsTheFile'
    <2>1. CASE pc' = pc
      BY <1>1, <2>1, OfTheJob DEF StoredIsTheFile
    <2>2. CASE pc' # pc
      <3>1. pc' # "done" /\ pc # "done"
        BY <2>2
      <3>2. stored' = None
        BY <3>1 DEF IInv
      <3>3. QED
        BY <3>1, <3>2, NotStored
    <2>3. QED
      BY <2>1, <2>2
  <1>6. QED
    BY <1>2, <1>3, <1>4, <1>5

LEMMA FileInvNext == FileInv /\ [Next]_vars => FileInv'
  <1> SUFFICES ASSUME FileInv, [Next]_vars PROVE FileInv'
    OBVIOUS
  <1>1. IInv'
    BY NextIInv DEF FileInv
  <1>2. ASSUME pc' # "done", pc # "done", stored' = stored, Progress', SkipInv', RowsInv'
        PROVE  FileInv'
    <2>1. stored' = None
      BY <1>2 DEF FileInv, IInv
    <2>2. QED
      BY <1>1, <1>2, <2>1, NotStored DEF FileInv
  <1>3. CASE Open
    BY <1>1, <1>3, OtherStep DEF Open, Fail, counts, outcome
  <1>4. CASE ReadHeader
    BY <1>2, <1>4, ReadHeaderStep DEF ReadHeader, Fail, outcome
  <1>5. CASE SkipRow
    BY <1>2, <1>5, SkipRowStep DEF SkipRow, outcome
  <1>6. CASE StartRows
    BY <1>2, <1>6, StartRowsStep DEF StartRows, outcome
  <1>7. CASE ReadRow
    BY <1>2, <1>7, ReadRowStep DEF ReadRow, Reading, outcome
  <1>8. CASE ReadError
    BY <1>2, <1>8, ReadErrorStep DEF ReadError, Reading, outcome
  <1>9. CASE ReadEOF
    <2>1. line = Len(job.lines)
      <3>1. ~(line < Len(job.lines)) /\ line \in 0..Len(job.lines) /\ Len(job.lines) \in Nat
        BY <1>9, JobTypes DEF ReadEOF, ReadsEOF, Left, FileInv, Progress
      <3>2. QED
        BY <3>1
    <2>2. QED
      BY <1>1, <1>9, <2>1, OtherStep DEF ReadEOF, Reading, counts, outcome
  <1>10. CASE Cancelled
    BY <1>1, <1>10, OtherStep DEF Cancelled, counts
  <1>11. CASE Store
    <2>1. /\ UNCHANGED <<job, line, toSkip, totalRead>> /\ pc' = "done"
      BY <1>11 DEF Store, counts
    <2>2. Progress'
      BY <2>1, OfTheJob DEF Progress, FileInv
    <2>3. SkipInv' /\ RowsInv'
      BY <2>1 DEF SkipInv, RowsInv
    <2>4. QED
      BY <1>1, <1>11, <2>2, <2>3, StoreStep DEF FileInv
  <1>12. CASE Upload
    <2>1. /\ UNCHANGED <<job, line, toSkip, totalRead>> /\ pc' \in {"done", "failed"} /\ job.upload
      BY <1>12 DEF Upload, counts
    <2>2. Progress'
      BY <2>1, OfTheJob DEF Progress, FileInv
    <2>3. SkipInv' /\ RowsInv'
      BY <2>1 DEF SkipInv, RowsInv
    <2>4. QED
      BY <1>1, <1>12, <2>2, <2>3, UploadStep DEF FileInv
  <1>13. CASE Expire
    BY <1>1, <1>13, OtherStep DEF Expire, counts, outcome
  <1>14. CASE UNCHANGED vars
    BY <1>1, <1>14, OtherStep DEF vars
  <1>15. QED
    BY <1>3, <1>4, <1>5, <1>6, <1>7, <1>8, <1>9, <1>10, <1>11, <1>12, <1>13, <1>14
       DEF Next, Executor

\* A dataset is stored by an import that succeeds and by no other, and it is the file: the
\* k-th line that can be read is the k-th row, up to the row limit, for any file, any
\* parameters and any chunk size, with bad lines among the good ones
\* (etl_import.go:60-254, upload.go:90-144).
THEOREM DatasetIsTheFile == Spec => []StoredIsTheFile
  <1>1. FileInv => StoredIsTheFile
    BY DEF FileInv
  <1>2. QED
    BY FileInvInit, FileInvNext, <1>1, PTL DEF Spec

-----------------------------------------------------------------------------
(* The end of an import.                                                   *)

\* How many phases are ahead of the executor.
Phases ==
    CASE pc = "open" -> 5 [] pc = "header" -> 4 [] pc = "skip" -> 3 [] pc = "rows" -> 2
      [] pc = "store" -> 1 [] OTHER -> 0

\* The most steps an import can still take: a line each while it reads, the phases that
\* are ahead of it, and the end of its context.
StepsAhead ==
    IF pc \in {"done", "failed"} THEN 0
    ELSE Phases + (Len(job.lines) - line) + (IF expired THEN 0 ELSE 1)

\* The reader has nothing left and fails at every read, and the context is not done.
Stuck == pc = "rows" /\ job.endless /\ ~Left /\ ~expired

\* A step leaves fewer ahead, unless it is a failed read with nothing left to read.
RunsOut == [][StepsAhead' < StepsAhead \/ (Stuck /\ UNCHANGED <<pc, line, expired>>)]_vars

PhaseInv ==
    /\ Progress /\ expired \in BOOLEAN
    /\ pc \in {"open", "header", "skip", "rows", "store", "done", "failed"}

LEMMA StepsType == ASSUME PhaseInv PROVE StepsAhead \in Nat
  <1>1. Len(job.lines) \in Nat /\ line \in 0..Len(job.lines)
    BY JobTypes DEF PhaseInv, Progress
  <1>2. Phases \in Nat
    BY DEF Phases
  <1> DEFINE lines == Len(job.lines)
  <1>3. StepsAhead = IF pc \in {"done", "failed"} THEN 0
                     ELSE Phases + (lines - line) + (IF expired THEN 0 ELSE 1)
    BY DEF StepsAhead
  <1>4. lines \in Nat /\ line \in 0..lines
    BY <1>1
  <1> HIDE DEF lines
  <1> QED BY <1>2, <1>3, <1>4

LEMMA FewerAhead ==
  ASSUME NEW l \in Int, NEW p \in Int, NEW q \in Int, NEW m \in Int, NEW n \in Int,
         NEW a \in Int, NEW b \in Int, q <= p, m <= n, b <= a, q < p \/ m < n \/ b < a
  PROVE  q + (l - n) + b < p + (l - m) + a
  OBVIOUS

\* A step to a later phase, or to a later line, or to the end of the context.
LEMMA StepAhead ==
  ASSUME PhaseInv, PhaseInv', job' = job,
         pc \notin {"done", "failed"}, line <= line', Phases' <= Phases, expired => expired',
         \/ pc' \in {"done", "failed"}
         \/ Phases' < Phases \/ line < line' \/ (~expired /\ expired')
  PROVE  StepsAhead' < StepsAhead
  <1>1. /\ Len(job.lines) \in Nat /\ line \in 0..Len(job.lines) /\ line' \in 0..Len(job.lines)
        /\ expired \in BOOLEAN /\ expired' \in BOOLEAN
    BY JobTypes DEF PhaseInv, Progress
  <1>2. Phases \in 1..5 /\ Phases' \in 0..5
    BY DEF PhaseInv, Phases
  <1> DEFINE lines == Len(job.lines)
             more == IF expired THEN 0 ELSE 1
             after == IF expired' THEN 0 ELSE 1
  <1>3. StepsAhead = Phases + (lines - line) + more
    BY DEF StepsAhead
  <1>4. StepsAhead' = IF pc' \in {"done", "failed"} THEN 0 ELSE Phases' + (lines - line') + after
    BY DEF StepsAhead
  <1>7. lines \in Nat /\ line \in 0..lines /\ line' \in 0..lines
    BY <1>1
  <1>8. more \in 0..1 /\ after \in 0..1 /\ after <= more /\ (~expired /\ expired' => after < more)
    BY <1>1
  <1> HIDE DEF lines, more, after
  <1>5. CASE pc' \in {"done", "failed"}
    BY <1>2, <1>3, <1>4, <1>5, <1>7, <1>8
  <1>6. CASE pc' \notin {"done", "failed"}
    <2>1. Phases' < Phases \/ line < line' \/ after < more
      BY <1>6, <1>8
    <2>2. StepsAhead' = Phases' + (lines - line') + after
      BY <1>4, <1>6
    <2>3. Phases' + (lines - line') + after < Phases + (lines - line) + more
      <3>1. /\ Phases \in Int /\ Phases' \in Int /\ line \in Int /\ line' \in Int
            /\ lines \in Int /\ more \in Int /\ after \in Int
        BY <1>2, <1>7, <1>8
      <3>2. Phases' <= Phases /\ line <= line' /\ after <= more
        BY <1>8
      <3> QED BY <2>1, <3>1, <3>2, FewerAhead
    <2> QED BY <1>3, <2>2, <2>3
  <1> QED BY <1>5, <1>6

LEMMA PhaseInvNext ==
  ASSUME FileInv, PhaseInv, [Next]_vars, Progress'
  PROVE  PhaseInv'
  <1> USE DEF PhaseInv
  <1>1. CASE Open \/ ReadHeader \/ SkipRow \/ StartRows
    BY <1>1 DEF Open, ReadHeader, SkipRow, StartRows, Fail
  <1>2. CASE ReadRow \/ ReadError \/ ReadEOF
    BY <1>2 DEF ReadRow, ReadError, ReadEOF
  <1>3. CASE Cancelled \/ Store \/ Upload \/ Expire
    BY <1>3 DEF Cancelled, Store, Upload, Expire
  <1>4. CASE UNCHANGED vars
    BY <1>4 DEF vars
  <1> QED BY <1>1, <1>2, <1>3, <1>4 DEF Next, Executor

LEMMA NextRunsOut ==
  ASSUME FileInv, PhaseInv, PhaseInv', [Next]_vars
  PROVE  [StepsAhead' < StepsAhead \/ (Stuck /\ UNCHANGED <<pc, line, expired>>)]_vars
  <1>0. /\ Len(job.lines) \in Nat /\ line \in 0..Len(job.lines)
    BY JobTypes DEF PhaseInv, Progress
  <1>1. CASE Open
    <2>1. pc = "open" /\ pc' \in {"header", "failed"} /\ UNCHANGED <<job, line, expired>>
      BY <1>1 DEF Open, Fail
    <2> QED BY <1>0, <2>1, StepAhead DEF Phases
  <1>2. CASE ReadHeader
    <2>1. pc = "header" /\ pc' \in {"skip", "failed"} /\ line' \in {line, line + 1}
          /\ UNCHANGED <<job, expired>>
      BY <1>2 DEF ReadHeader, Fail
    <2> QED BY <1>0, <2>1, StepAhead DEF Phases
  <1>3. CASE SkipRow
    <2>1. pc = "skip" /\ line' = line + 1 /\ UNCHANGED <<job, pc, expired>>
      BY <1>3 DEF SkipRow
    <2> QED BY <1>0, <2>1, StepAhead DEF Phases
  <1>4. CASE StartRows
    <2>1. pc = "skip" /\ pc' \in {"rows", "failed"} /\ line' \in {line, line + 1}
          /\ UNCHANGED <<job, expired>>
      BY <1>4 DEF StartRows
    <2> QED BY <1>0, <2>1, StepAhead DEF Phases
  <1>5. CASE ReadRow
    <2>1. pc = "rows" /\ pc' \in {"rows", "store"} /\ line' = line + 1 /\ UNCHANGED <<job, expired>>
      BY <1>5 DEF ReadRow, Reading
    <2> QED BY <1>0, <2>1, StepAhead DEF Phases
  <1>6. CASE ReadError
    <2>1. pc = "rows" /\ ~expired /\ UNCHANGED <<job, pc, expired>> /\ ReadsError
          /\ line' = IF Left THEN line + 1 ELSE line
      BY <1>6 DEF ReadError, Reading
    <2>2. CASE Left
      BY <1>0, <2>1, <2>2, StepAhead DEF Phases
    <2>3. CASE ~Left
      BY <2>1, <2>3 DEF Stuck, ReadsError, ReadsEOF
    <2> QED BY <2>2, <2>3
  <1>7. CASE ReadEOF
    <2>1. pc = "rows" /\ pc' = "store" /\ UNCHANGED <<job, line, expired>>
      BY <1>7 DEF ReadEOF, Reading
    <2> QED BY <1>0, <2>1, StepAhead DEF Phases
  <1>8. CASE Cancelled
    <2>1. pc = "rows" /\ pc' = "failed" /\ UNCHANGED <<job, line, expired>>
      BY <1>8 DEF Cancelled
    <2> QED BY <1>0, <2>1, StepAhead DEF Phases
  <1>9. CASE Store
    <2>1. pc = "store" /\ pc' = "done" /\ UNCHANGED <<job, line, expired>>
      BY <1>9 DEF Store
    <2> QED BY <1>0, <2>1, StepAhead DEF Phases
  <1>10. CASE Upload
    <2>1. pc = "open" /\ pc' \in {"done", "failed"} /\ UNCHANGED <<job, line, expired>>
      BY <1>10 DEF Upload
    <2> QED BY <1>0, <2>1, StepAhead DEF Phases
  <1>11. CASE Expire
    <2>1. pc \notin {"done", "failed"} /\ ~expired /\ expired' /\ UNCHANGED <<job, pc, line>>
      BY <1>11 DEF Expire
    <2>2. Phases' = Phases
      BY <2>1 DEF Phases
    <2>3. Phases \in Nat
      BY DEF Phases
    <2>4. line <= line' /\ Phases' <= Phases
      BY <1>0, <2>1, <2>2, <2>3
    <2> QED BY <2>1, <2>4, StepAhead
  <1>12. CASE UNCHANGED vars
    BY <1>12
  <1> QED
    BY <1>1, <1>2, <1>3, <1>4, <1>5, <1>6, <1>7, <1>8, <1>9, <1>10, <1>11, <1>12 DEF Next, Executor

\* An import ends after at most six steps and one for each line, unless its reader goes on to
\* fail after the last line; then it ends a step after its context is done, for that is
\* looked at before each read (etl_import.go:103-118).
THEOREM ImportRunsOut == Spec => [](StepsAhead \in Nat) /\ RunsOut
  <1> DEFINE Inv == FileInv /\ PhaseInv
  <1>1. Init => Inv
    BY FileInvInit DEF Init, FileInv, PhaseInv
  <1>2. Inv /\ [Next]_vars => Inv'
    BY FileInvNext, PhaseInvNext DEF FileInv
  <1>3. Inv => StepsAhead \in Nat
    BY StepsType
  <1>4. Inv /\ Inv' /\ [Next]_vars
        => [StepsAhead' < StepsAhead \/ (Stuck /\ UNCHANGED <<pc, line, expired>>)]_vars
    BY NextRunsOut
  <1> HIDE DEF Inv
  <1>5. QED
    BY <1>1, <1>2, <1>3, <1>4, PTL DEF Spec, RunsOut
=============================================================================
