------------------------------- MODULE Import -------------------------------
(***************************************************************************)
(* How a CSV file becomes a dataset: the import executor,                  *)
(* internal/executor/etl_import.go, that reads it line by line into chunks,*)
(* looking at its context before each line, and stores the dataset at the  *)
(* end; and the upload handler, internal/api/handlers/upload.go, that      *)
(* parses all of it or nothing.                                            *)
(*                                                                         *)
(* A line is a sequence of cells, or one the reader reports an error for.  *)
(* Column names are cells.  Who else uses the store is in DatasetStore.    *)
(***************************************************************************)
EXTENDS Integers, Sequences, FiniteSets

CONSTANTS
    Cells,
    Empty,      \* the cell that holds nothing
    Trim,       \* what TrimSpace makes of a cell
    Bad,        \* a line that cannot be read
    Inputs,     \* files and the parameters of their import
    MaxFailed   \* bound: failed reads are counted up to it

ASSUME CellsAssumption ==
    /\ Empty \in Cells /\ Trim \in [Cells -> Cells] /\ Trim[Empty] = Empty
    /\ MaxFailed \in Nat
ASSUME InputsAssumption ==
    \A in \in Inputs :
        /\ in.lines \in Seq({Bad} \cup (Seq(Cells) \ {<<>>}))
        /\ in.endless \in BOOLEAN      \* reads go on to fail after the last line
        /\ in.upload \in BOOLEAN /\ in.hasHeader \in BOOLEAN
        /\ in.skipRows \in Nat /\ in.maxRows \in Nat /\ in.batchSize \in Nat \ {0}
        /\ in.given \in Seq(Cells)     \* the columns of the job, or none
        /\ DOMAIN in.mapping \subseteq Cells

\* Nothing stored, nothing reported.
None == <<>>

VARIABLES
    job,
    pc,
    line,      \* the lines read so far
    toSkip,
    columns,
    chunk, allRecords,
    totalRead, totalFailed,
    expired,   \* the job's context is done
    stored,    \* the dataset in the store
    report     \* the result of the job

vars == <<job, pc, line, toSkip, columns, chunk, allRecords, totalRead, totalFailed, expired,
          stored, report>>
counts == <<totalRead, totalFailed>>
outcome == <<stored, report>>

Init ==
    /\ job \in Inputs
    /\ pc = "open"
    /\ line = 0 /\ toSkip = job.skipRows
    /\ columns = <<>> /\ chunk = <<>> /\ allRecords = <<>>
    /\ totalRead = 0 /\ totalFailed = 0
    /\ expired = FALSE
    /\ stored = None /\ report = None

-----------------------------------------------------------------------------
(* The reader                                                              *)

Left == line < Len(job.lines)
ReadsRow == Left /\ job.lines[line + 1] # Bad
ReadsEOF == ~Left /\ ~job.endless
ReadsError == ~ReadsRow /\ ~ReadsEOF

-----------------------------------------------------------------------------
(* Records                                                                 *)

Names(cols) == {cols[n] : n \in DOMAIN cols}
LastOf(cols, c) == CHOOSE n \in DOMAIN cols : cols[n] = c /\ \A m \in DOMAIN cols : cols[m] = c => m <= n

\* The cell of a column in a row: of columns with one name the last counts, and a
\* short row is filled up.
CellOf(cols, row, c) ==
    IF LastOf(cols, c) <= Len(row) THEN Trim[row[LastOf(cols, c)]] ELSE Empty

Target(c) == IF c \in DOMAIN job.mapping THEN job.mapping[c] ELSE c

\* The records a row may become: of columns mapped to one name, any wins, as the
\* mapping ranges over a map.
RecordsOf(row) ==
    LET sources == Names(columns)
        targets == {Target(c) : c \in sources}
        winners == {w \in [targets -> sources] : \A t \in targets : Target(w[t]) = t}
    IN  {[t \in targets |-> CellOf(columns, row, w[t])] : w \in winners}

\* Faulty: the list of columns keeps the old names.
MappedColumns_AsRead == columns

MappedColumns == [n \in DOMAIN columns |-> Target(columns[n])]

-----------------------------------------------------------------------------
(* The executor                                                            *)

Fail == pc' = "failed" /\ UNCHANGED <<job, line, toSkip, columns, chunk, allRecords, counts, expired, outcome>>

Open ==
    /\ pc = "open" /\ ~job.upload
    /\ \/ pc' = "header"
          /\ UNCHANGED <<job, line, toSkip, columns, chunk, allRecords, counts, expired, outcome>>
       \/ Fail

\* A first row is taken for the header if it is said to be one, or nothing is to be
\* skipped.
ReadHeader ==
    /\ pc = "header"
    /\ IF job.hasHeader \/ job.skipRows = 0
       THEN \/ /\ ReadsRow
               /\ columns' = [n \in DOMAIN job.lines[line + 1] |-> Trim[job.lines[line + 1][n]]]
               /\ line' = line + 1
               /\ pc' = "skip"
               /\ UNCHANGED <<job, toSkip, chunk, allRecords, counts, expired, outcome>>
            \/ ~ReadsRow /\ Fail
       ELSE /\ pc' = "skip"
            /\ UNCHANGED <<job, line, toSkip, columns, chunk, allRecords, counts, expired, outcome>>

SkipRow ==
    /\ pc = "skip" /\ toSkip > 0 /\ ReadsRow
    /\ line' = line + 1 /\ toSkip' = toSkip - 1
    /\ UNCHANGED <<job, pc, columns, chunk, allRecords, counts, expired, outcome>>

\* Skipping ends with a failed read too.  Columns given replace those read.
StartRows ==
    /\ pc = "skip" /\ (toSkip = 0 \/ ~ReadsRow)
    /\ line' = IF toSkip > 0 /\ Left THEN line + 1 ELSE line
    /\ columns' = IF job.given # <<>> THEN job.given ELSE columns
    /\ pc' = IF columns' = <<>> THEN "failed" ELSE "rows"
    /\ UNCHANGED <<job, toSkip, chunk, allRecords, counts, expired, outcome>>

Reading == pc = "rows" /\ ~expired

\* Faulty: a chunk that is not full is left out.
Flushed_FullOnly == allRecords

Flushed == allRecords \o chunk

\* A full chunk goes to the records.
ReadRow ==
    /\ Reading /\ ReadsRow
    /\ \E rec \in RecordsOf(job.lines[line + 1]) :
          LET grown == Append(chunk, rec) IN
          IF Len(grown) >= job.batchSize
          THEN chunk' = <<>> /\ allRecords' = allRecords \o grown
          ELSE chunk' = grown /\ UNCHANGED allRecords
    /\ line' = line + 1
    /\ totalRead' = totalRead + 1
    /\ pc' = IF job.maxRows > 0 /\ totalRead' >= job.maxRows THEN "store" ELSE "rows"
    /\ UNCHANGED <<job, toSkip, columns, totalFailed, expired, outcome>>

\* A read that fails is counted, and the next one tried.
ReadError ==
    /\ Reading /\ ReadsError
    /\ line' = IF Left THEN line + 1 ELSE line
    /\ totalFailed' = IF totalFailed < MaxFailed THEN totalFailed + 1 ELSE totalFailed
    /\ UNCHANGED <<job, pc, toSkip, columns, chunk, allRecords, totalRead, expired, outcome>>

ReadEOF ==
    /\ Reading /\ ReadsEOF
    /\ pc' = "store"
    /\ UNCHANGED <<job, line, toSkip, columns, chunk, allRecords, counts, expired, outcome>>

\* Faulty: the context is only looked at after a row that could be read.
Cancelled_AfterRow ==
    /\ pc = "rows" /\ expired /\ ~ReadsError
    /\ pc' = "failed"
    /\ report' = [total |-> totalRead, failed |-> totalFailed]
    /\ UNCHANGED <<job, line, toSkip, columns, chunk, allRecords, counts, expired, stored>>

Cancelled ==
    /\ pc = "rows" /\ expired
    /\ pc' = "failed"
    /\ report' = [total |-> totalRead, failed |-> totalFailed]
    /\ UNCHANGED <<job, line, toSkip, columns, chunk, allRecords, counts, expired, stored>>

\* The last chunk, the names of the columns, the dataset, the result.
Store ==
    /\ pc = "store"
    /\ allRecords' = Flushed /\ chunk' = <<>>
    /\ columns' = MappedColumns
    /\ stored' = [columns |-> MappedColumns, rows |-> Flushed]
    /\ report' = [total |-> totalRead, failed |-> totalFailed]
    /\ pc' = "done"
    /\ UNCHANGED <<job, line, toSkip, counts, expired>>

\* The job's time is up, or its context cancelled.
Expire ==
    /\ ~expired /\ ~job.upload /\ pc \notin {"done", "failed"}
    /\ expired' = TRUE
    /\ UNCHANGED <<job, pc, line, toSkip, columns, chunk, allRecords, counts, outcome>>

-----------------------------------------------------------------------------
(* The upload handler                                                      *)

\* The parser wants as many cells in every row as in the first, which is the header,
\* and one row more.
Parses ==
    /\ Len(job.lines) >= 2 /\ ~job.endless
    /\ \A n \in DOMAIN job.lines :
          job.lines[n] # Bad /\ Len(job.lines[n]) = Len(job.lines[1])

Upload ==
    /\ pc = "open" /\ job.upload
    /\ pc' = IF Parses THEN "done" ELSE "failed"
    /\ stored' = IF Parses
                 THEN LET names == job.lines[1] IN
                      [columns |-> names,
                       rows |-> [k \in 1..(Len(job.lines) - 1) |->
                                   [c \in Names(names) |-> job.lines[k + 1][LastOf(names, c)]]]]
                 ELSE None
    /\ UNCHANGED <<job, line, toSkip, columns, chunk, allRecords, counts, expired, report>>

Executor ==
    \/ Open \/ ReadHeader \/ SkipRow \/ StartRows \/ ReadRow \/ ReadError \/ ReadEOF
    \/ Cancelled \/ Store \/ Upload

Next == Executor \/ Expire

\* The goroutine runs, and the pool gives every job a deadline.
Spec == Init /\ [][Next]_vars /\ WF_vars(Executor) /\ WF_vars(Expire)

-----------------------------------------------------------------------------
(* Properties                                                              *)

\* The header and the lines to skip; of the lines after them, up to the n-th, those that
\* can be read; how many of these are wanted.
Skipped == (IF job.upload \/ job.hasHeader \/ job.skipRows = 0 THEN 1 ELSE 0)
           + (IF job.upload THEN 0 ELSE job.skipRows)
Readable(n) == {l \in (Skipped + 1)..n : job.lines[l] # Bad}
Numbered(l) == Cardinality(Readable(l))
Wanted == IF ~job.upload /\ job.maxRows > 0 /\ job.maxRows < Numbered(Len(job.lines))
          THEN job.maxRows ELSE Numbered(Len(job.lines))

\* The names the dataset's columns have, in the order of the cells.
Named == IF job.upload THEN job.lines[1]
         ELSE LET read == IF job.given # <<>> THEN job.given
                          ELSE [n \in DOMAIN job.lines[1] |-> Trim[job.lines[1][n]]]
              IN  [n \in DOMAIN read |-> Target(read[n])]

\* A dataset is stored by an import that reports success and by no other, and it is the
\* file: the k-th line that can be read is the k-th row, up to the row limit and wherever
\* the chunks end, and its cells are under the names of their columns, if these are
\* different names.
StoredIsTheFile ==
    /\ stored # None <=> pc = "done"
    /\ (pc = "done" /\ \A n \in 1..Skipped : n \in DOMAIN job.lines => job.lines[n] # Bad) =>
          /\ Len(stored.rows) = Wanted
          /\ Cardinality(Names(Named)) = Len(Named) =>
                \A l \in Readable(Len(job.lines)), n \in DOMAIN Named :
                   Numbered(l) <= Wanted =>
                      stored.rows[Numbered(l)][Named[n]] =
                         IF n > Len(job.lines[l]) THEN Empty
                         ELSE IF job.upload THEN job.lines[l][n] ELSE Trim[job.lines[l][n]]

\* The columns a dataset lists are those its rows have, also when columns are renamed, two
\* are mapped to one name, or the file has a name twice: what looks a cell up by its
\* column (cleaning, keys, exports) finds it.
ColumnsMatchRows ==
    stored # None =>
       \A k \in DOMAIN stored.rows : DOMAIN stored.rows[k] = Names(stored.columns)

\* An import ends, even one whose reader fails again and again without reaching the end:
\* the loop that passes over bad lines looks at the job's deadline before each.
ImportEnds == <>(pc \in {"done", "failed"})
=============================================================================
