--------------------------- MODULE DatasetProofs ---------------------------
(***************************************************************************)
(* What holds of datasets for any ids, jobs, exports, rows and chunks, and *)
(* of a column of one that is analysed and cleaned, for any cells.         *)
(*                                                                         *)
(* The store: until a job has stored the dataset it makes, nobody else has *)
(* a pointer to it (Hidden), for pointers come from the map only; so what  *)
(* is written to an import or a clone is written unseen.  The array a job  *)
(* replaces Records by is as new (Lengths), so that an export goes on in   *)
(* the one it took, which only what disturbs it changes (Undisturbed).     *)
(*                                                                         *)
(* The column: no rule looks at another row, so that the four properties   *)
(* are of a cell, what it was and the rules it was given (Cell), and the   *)
(* rules are those that the column as it was loaded calls for (Advice).    *)
(***************************************************************************)
EXTENDS DatasetStore, Analyzer, SequenceTheorems, FiniteSetTheorems, TLAPS

-----------------------------------------------------------------------------
(* The store                                                               *)

\* A dataset is filed under its own ID, and a job works for the id it was given.
Filed ==
    /\ \A i \in Ids : datasets[i] # None => IdOf(datasets[i]) = i
    /\ \A j \in Jobs : IdOf(work[j]) = to[j]

\* Which jobs are in which phase.
Shape ==
    \A j \in Jobs :
        /\ kind[j] \notin InPlace => work[j] = j
        /\ at[j] = "read" => kind[j] = "import"
        /\ at[j] = "clone" => kind[j] = "copy"
        /\ at[j] \in {"columns", "rewrite", "compare", "replace", "put"} => kind[j] # "import"

Unpublished(j) ==
    \/ kind[j] \in InPlace \/ at[j] \notin {"analyze", "done"}
    \/ kind[j] = "import" /\ at[j] = "analyze"

\* Nobody else knows the dataset of a job that has not stored it.
Hidden ==
    \A j \in Jobs :
        Unpublished(j) =>
            /\ \A i \in Ids : datasets[i] # j
            /\ \A k \in Jobs \ {j} : source[k] # j /\ work[k] # j
            /\ \A e \in Exports : held[e] # j
            /\ kind[j] \in InPlace /\ at[j] \notin {"new", "failed"} => work[j] # j

\* The phases in which a job goes through an array, and those before it makes one.
Walking == {"clone", "columns", "rewrite", "compare"}
Early == Walking \cup {"new", "read"}

\* Nobody goes beyond the array it took; what is being made is as long as it is done.
JobLengths(j) ==
    /\ at[j] \in Early => \A o \in Objects : arrays[o][j] = <<>>
    /\ at[j] = "new" /\ kind[j] \notin InPlace => arrays[j][None] = <<>>
    /\ at[j] = "read" => Len(arrays[j][None]) < Rows
    /\ at[j] = "clone" => Len(arrays[j][None]) = pos[j] - 1
    /\ at[j] \in Walking => until[j] <= Len(arrays[From(j)][taken[j]])
    /\ at[j] \in {"new", "read", "put"} => until[j] = 0
    /\ at[j] # "rewrite" /\ until[j] = 0 => pos[j] = 1

ExportLengths(e) ==
    /\ held[e] = None => until[e] = 0
    /\ held[e] # None => until[e] <= Len(arrays[held[e]][taken[e]])
    /\ until[e] = 0 => pos[e] = 1
    /\ pos[e] <= until[e] + 1

Lengths ==
    /\ \A o \in Objects : \A w \in Slices : Len(arrays[o][w]) <= Rows
    /\ \A j \in Jobs : JobLengths(j)
    /\ \A e \in Exports : ExportLengths(e)

\* Of two jobs on one id that were ever running together, the one that ends first is
\* contested.
Contention ==
    \A j, k \in Jobs :
        j # k /\ to[j] = to[k] /\ Running(k) /\ (Running(j) \/ at[j] = "done")
        => j \in contested

\* A job that has its id for itself has read, of the rows it analyzes, what they are.
ScannedBy(j) ==
    /\ at[j] # "analyze" => scanned[j] = <<>>
    /\ at[j] = "analyze" /\ j \notin contested =>
          /\ Len(scanned[j]) = pos[j] - 1 /\ pos[j] <= until[j] + 1
          /\ until[j] # 0 => until[j] = Length(work[j])
          /\ \A k \in 1..(pos[j] - 1) : scanned[j][k] = Contents(work[j])[k]

Scanned == \A j \in Jobs : ScannedBy(j)

\* An export that was not disturbed goes through the rows it took.
GoesOn(e) ==
    /\ held[e] = None => opened[e] = None
    /\ until[e] = 0 => exported[e] = <<>>
    /\ opened[e] # None /\ until[e] # 0 => opened[e] = Through(held[e], taken[e])

Undisturbed == \A e \in Exports : GoesOn(e)

IInv ==
    /\ TypeOK /\ Filed /\ Shape /\ Hidden /\ Lengths /\ Contention /\ Scanned /\ Undisturbed
    /\ ExportsAreWhole /\ FinishedStands /\ AnalysisFits

-----------------------------------------------------------------------------
(* What is written to the arrays                                           *)

LEMMA OfLength ==
    ASSUME NEW n \in Nat, NEW S, NEW t \in [1..n -> S]
    PROVE t \in Seq(S) /\ Len(t) = n
<1>1. t \in Seq(S)  BY SeqDef
<1>2. Len(t) \in Nat /\ DOMAIN t = 1..Len(t)  BY <1>1, LenProperties
<1>3. 1..Len(t) = 1..n  BY <1>2
<1>4. CASE Len(t) < n
  <2>1. n \in 1..n /\ n \notin 1..Len(t)  BY <1>2, <1>4
  <2> QED BY <2>1, <1>3
<1>5. CASE n < Len(t)
  <2>1. Len(t) \in 1..Len(t) /\ Len(t) \notin 1..n  BY <1>2, <1>5
  <2> QED BY <2>1, <1>3
<1> QED BY <1>1, <1>2, <1>4, <1>5

\* The first rows of an array, as many as survived and one at least.
LEMMA FirstRows ==
    ASSUME NEW s \in Seq(1..Rows), NEW n \in Nat
    PROVE LET t == [k \in {i \in DOMAIN s : i = 1 \/ i <= n} |-> s[k]]
          IN t \in Seq(1..Rows) /\ Len(t) <= Len(s)
<1> DEFINE t == [k \in {i \in DOMAIN s : i = 1 \/ i <= n} |-> s[k]]
<1>1. Len(s) \in Nat /\ DOMAIN s = 1..Len(s) /\ \A k \in DOMAIN s : s[k] \in 1..Rows
  BY LenProperties, ElementOfSeq
<1>2. \E m \in Nat : m <= Len(s) /\ {i \in DOMAIN s : i = 1 \/ i <= n} = 1..m
  <2>1. CASE n >= Len(s)  BY <1>1, <2>1
  <2>2. CASE n < Len(s) /\ n >= 1  BY <1>1, <2>2
  <2>3. CASE n < Len(s) /\ n = 0
    <3>1. {i \in DOMAIN s : i = 1 \/ i <= n} = 1..1  BY <1>1, <2>3
    <3> QED BY <3>1, <1>1, <2>3
  <2> QED BY <1>1, <2>1, <2>2, <2>3
<1>3. PICK m \in Nat : m <= Len(s) /\ {i \in DOMAIN s : i = 1 \/ i <= n} = 1..m  BY <1>2
<1>4. t = [k \in 1..m |-> s[k]]  BY <1>3
<1>5. t \in [1..m -> 1..Rows]  BY <1>1, <1>3, <1>4
<1> HIDE DEF t
<1>6. t \in Seq(1..Rows) /\ Len(t) = m  BY <1>3, <1>5, OfLength
<1> QED BY <1>3, <1>6 DEF t

\* One row of each group.
LEMMA WinnersOf ==
    ASSUME NEW s \in Seq(1..Rows), NEW n \in Nat, n <= Len(s), NEW f \in Winners(n)
    PROVE LET t == [k \in DOMAIN f |-> s[f[k]]]
          IN t \in Seq(1..Rows) /\ Len(t) <= Len(s)
<1> DEFINE t == [k \in DOMAIN f |-> s[f[k]]]
<1>1. PICK m \in 1..n : f \in [1..m -> 1..n]  BY DEF Winners
<1>2. Len(s) \in Nat /\ \A k \in 1..Len(s) : s[k] \in 1..Rows
  BY LenProperties, ElementOfSeq
<1>3. t \in [1..m -> 1..Rows]  BY <1>1, <1>2
<1>4. m \in Nat  BY <1>1
<1> HIDE DEF t
<1>5. t \in Seq(1..Rows) /\ Len(t) = m  BY <1>3, <1>4, OfLength
<1> QED BY <1>1, <1>2, <1>5 DEF t

\* Survivors over part of an array.
LEMMA CopiedOver ==
    ASSUME NEW s \in Seq(1..Rows), NEW u \in Seq(1..Rows), NEW c \in Int
    PROVE Over(s, u, c) \in Seq(1..Rows) /\ Len(Over(s, u, c)) = Len(s)
<1>1. Len(s) \in Nat /\ DOMAIN s = 1..Len(s)  BY LenProperties
<1>2. /\ \A k \in DOMAIN s : s[k] \in 1..Rows
      /\ \A k \in DOMAIN u : u[k] \in 1..Rows
  BY LenProperties, ElementOfSeq
<1>3. Over(s, u, c) \in [1..Len(s) -> 1..Rows]
  <2>1. \A k \in DOMAIN s :
          (IF k - c + 1 \in DOMAIN u THEN u[k - c + 1] ELSE s[k]) \in 1..Rows
    BY <1>2
  <2> QED BY <1>1, <2>1 DEF Over
<1> QED BY <1>1, <1>3, OfLength

LEMMA Quotients ==
    ASSUME NEW n \in Nat, NEW c \in Nat \ {0}
    PROVE (n \div c) * c \in Nat
<1>1. n \div c \in Nat  OBVIOUS
<1>2. ASSUME NEW q \in Nat PROVE q * c \in Nat  BY <1>2
<1> QED BY <1>1, <1>2

\* A chunk begins at a row.
LEMMA ChunksBegin ==
    ASSUME TypeOK, NEW j \in Jobs, until[j] # 0
    PROVE ChunkStart(j) \in Nat \ {0}
<1>1. until[j] - 1 \in Nat  BY DEF TypeOK
<1> DEFINE n == until[j] - 1
<1>2. (n \div Chunk) * Chunk \in Nat
  <2> HIDE DEF n
  <2>1. n \in Nat  BY <1>1 DEF n
  <2> QED BY <2>1, Quotients, StoreAssumption
<1>3. ChunkStart(j) = (n \div Chunk) * Chunk + 1  BY DEF ChunkStart
<1> HIDE DEF n
<1> QED BY <1>2, <1>3

Grows(o, w) == Len(arrays[o][w]) <= Len(arrays'[o][w])

\* What a step leaves to the arrays and maps: their types, a length that does not
\* shrink, and all of the datasets that the job does not work on.
LEMMA Written ==
    ASSUME TypeOK, Shape, Lengths, NEW j \in Jobs,
           \/ ReadRow(j) \/ CloneRow(j) \/ DropColumns(j) \/ RewriteRow(j) \/ CopyBack(j)
           \/ EndRewrite(j) \/ EndCompare(j)
    PROVE /\ rows' \in [Objects -> [1..Rows -> SUBSET Jobs]]
          /\ arrays' \in [Objects -> [Slices -> Seq(1..Rows)]]
          /\ \A o \in Objects : \A w \in Slices : Grows(o, w) /\ Len(arrays'[o][w]) <= Rows
          /\ \A o \in Objects \ {work[j]} : arrays'[o] = arrays[o] /\ rows'[o] = rows[o]
<1> DEFINE Good == /\ rows' \in [Objects -> [1..Rows -> SUBSET Jobs]]
                   /\ arrays' \in [Objects -> [Slices -> Seq(1..Rows)]]
                   /\ \A o \in Objects : \A w \in Slices :
                         Grows(o, w) /\ Len(arrays'[o][w]) <= Rows
                   /\ \A o \in Objects \ {work[j]} : arrays'[o] = arrays[o] /\ rows'[o] = rows[o]
<1> SUFFICES Good  OBVIOUS
<1> USE StoreAssumption DEF Objects, Slices
<1>0. /\ work[j] \in Objects /\ source[j] \in Objects /\ j \in Objects
      /\ \A o \in Objects : \A w \in Slices :
            /\ arrays[o][w] \in Seq(1..Rows) /\ Len(arrays[o][w]) \in Nat
            /\ Len(arrays[o][w]) <= Rows
  <2>1. ASSUME NEW o \in Objects, NEW w \in Slices
        PROVE /\ arrays[o][w] \in Seq(1..Rows) /\ Len(arrays[o][w]) \in Nat
              /\ Len(arrays[o][w]) <= Rows
    <3>0. arrays \in [Objects -> [Slices -> Seq(1..Rows)]]  BY DEF TypeOK
    <3>1. arrays[o][w] \in Seq(1..Rows)  BY <3>0, <2>1
    <3>2. Len(arrays[o][w]) \in Nat  BY <3>1, LenProperties
    <3> QED BY <3>1, <3>2 DEF Lengths, JobLengths
  <2> QED BY <2>1 DEF TypeOK
\* An array replaced by one no shorter leaves the arrays good.
<1>1. ASSUME NEW o \in Objects, NEW w \in Slices, NEW s \in Seq(1..Rows),
             arrays' = [arrays EXCEPT ![o][w] = s],
             Len(arrays[o][w]) <= Len(s), Len(s) <= Rows
      PROVE /\ arrays' \in [Objects -> [Slices -> Seq(1..Rows)]]
            /\ \A p \in Objects : \A v \in Slices : Grows(p, v) /\ Len(arrays'[p][v]) <= Rows
            /\ \A p \in Objects \ {o} : arrays'[p] = arrays[p]
  <2>1. arrays \in [Objects -> [Slices -> Seq(1..Rows)]]  BY DEF TypeOK
  <2>2. arrays' \in [Objects -> [Slices -> Seq(1..Rows)]]  BY <1>1, <2>1
  <2>3. \A p \in Objects : \A v \in Slices :
          arrays'[p][v] = IF p = o /\ v = w THEN s ELSE arrays[p][v]
    BY <1>1, <2>1
  <2>4. ASSUME NEW p \in Objects, NEW v \in Slices
        PROVE Grows(p, v) /\ Len(arrays'[p][v]) <= Rows
    <3>1. Len(arrays[p][v]) \in Nat /\ Len(arrays[p][v]) <= Rows  BY <1>0
    <3>2. CASE p = o /\ v = w
      <4>1. arrays'[p][v] = s  BY <2>3, <3>2
      <4> QED BY <4>1, <3>2, <1>1 DEF Grows
    <3>3. CASE ~(p = o /\ v = w)
      <4>1. arrays'[p][v] = arrays[p][v]  BY <2>3, <3>3
      <4> QED BY <4>1, <3>1 DEF Grows
    <3> QED BY <3>2, <3>3
  <2> QED BY <1>1, <2>1, <2>2, <2>4
<1>2. ASSUME UNCHANGED arrays
      PROVE /\ arrays' \in [Objects -> [Slices -> Seq(1..Rows)]]
            /\ \A p \in Objects : \A v \in Slices : Grows(p, v) /\ Len(arrays'[p][v]) <= Rows
  <2>1. arrays' = arrays  BY <1>2
  <2>2. ASSUME NEW p \in Objects, NEW v \in Slices
        PROVE Grows(p, v) /\ Len(arrays'[p][v]) <= Rows
    <3>1. Len(arrays[p][v]) \in Nat /\ Len(arrays[p][v]) <= Rows  BY <1>0
    <3>2. arrays'[p][v] = arrays[p][v]  BY <2>1
    <3> QED BY <3>1, <3>2 DEF Grows
  <2> QED BY <2>1, <2>2 DEF TypeOK
\* A row made for the dataset of a job.
<1>3. ASSUME NEW r \in SUBSET Jobs, MakeRow(j, r), Len(arrays[j][None]) < Rows, work[j] = j
      PROVE Good
  <2>1. Made(j) \in 1..Rows  BY <1>0, <1>3 DEF Made
  <2>2. /\ Append(arrays[j][None], Made(j)) \in Seq(1..Rows)
        /\ Len(Append(arrays[j][None], Made(j))) = Len(arrays[j][None]) + 1
    BY <2>1, <1>0, AppendProperties
  <2>3. arrays' = [arrays EXCEPT ![j][None] = Append(arrays[j][None], Made(j))]
    BY <1>3, <1>0 DEF MakeRow, TypeOK
  <2>4. /\ arrays' \in [Objects -> [Slices -> Seq(1..Rows)]]
        /\ \A p \in Objects : \A v \in Slices : Grows(p, v) /\ Len(arrays'[p][v]) <= Rows
        /\ \A p \in Objects \ {j} : arrays'[p] = arrays[p]
    <3> DEFINE s == Append(arrays[j][None], Made(j))
    <3>1. s \in Seq(1..Rows) /\ arrays' = [arrays EXCEPT ![j][None] = s]  BY <2>2, <2>3
    <3>2. Len(arrays[j][None]) <= Len(s) /\ Len(s) <= Rows  BY <2>2, <1>0, <1>3
    <3> HIDE DEF s
    <3> QED BY <3>1, <3>2, <1>0, <1>1
  <2>5. /\ rows' \in [Objects -> [1..Rows -> SUBSET Jobs]]
        /\ \A p \in Objects \ {j} : rows'[p] = rows[p]
    BY <2>1, <1>3, <1>0 DEF MakeRow, TypeOK
  <2> QED BY <2>4, <2>5, <1>3
\* A map written.
<1>4. ASSUME WriteRow(j), UNCHANGED arrays, Row(j) \in 1..Rows PROVE Good
  <2> DEFINE r == rows[work[j]][Row(j)] \cup {j}
  <2>1. rows \in [Objects -> [1..Rows -> SUBSET Jobs]] /\ work[j] \in Objects  BY <1>0 DEF TypeOK
  <2>2. r \in SUBSET Jobs  BY <2>1, <1>4
  <2>3. rows' = [rows EXCEPT ![work[j]][Row(j)] = r]  BY <1>4 DEF WriteRow
  <2> HIDE DEF r
  <2>4. /\ rows' \in [Objects -> [1..Rows -> SUBSET Jobs]]
        /\ \A p \in Objects \ {work[j]} : rows'[p] = rows[p]
    BY <2>1, <2>2, <2>3, <1>4
  <2> QED BY <2>4, <1>2, <1>4
<1>5. ASSUME at[j] \in Walking, pos[j] <= until[j] PROVE Row(j) \in 1..Rows
  <2>1. From(j) \in Objects /\ taken[j] \in Slices  BY <1>0 DEF From, TypeOK
  <2>2. until[j] <= Len(arrays[From(j)][taken[j]])  BY <1>5 DEF Lengths, JobLengths
  <2>3. pos[j] \in Nat \ {0} /\ until[j] \in Nat /\ Len(arrays[From(j)][taken[j]]) \in Nat
    BY <2>1, <1>0 DEF TypeOK
  <2>4. pos[j] \in 1..Len(arrays[From(j)][taken[j]])  BY <1>5, <2>2, <2>3
  <2> QED BY <2>1, <2>4, <1>0, ElementOfSeq DEF Row
<1>6. CASE ReadRow(j)
  <2>1. work[j] = j /\ Len(arrays[j][None]) < Rows /\ MakeRow(j, {j})
    BY <1>6 DEF ReadRow, Shape, Lengths, JobLengths, InPlace
  <2> HIDE DEF Good
  <2> QED BY <2>1, <1>3
<1>7. CASE CloneRow(j)
  <2>1. at[j] = "clone" /\ pos[j] <= until[j] /\ MakeRow(j, rows[source[j]][Row(j)])
    BY <1>7 DEF CloneRow, AtRow
  <2>2. work[j] = j /\ From(j) = source[j]  BY <2>1 DEF Shape, InPlace, From
  <2>3. rows[source[j]][Row(j)] \in SUBSET Jobs
    BY <2>1, <1>5, <1>0 DEF Walking, TypeOK
  <2>4. Len(arrays[j][None]) < Rows
    <3>1. taken[j] \in Slices /\ until[j] <= Len(arrays[source[j]][taken[j]])
      BY <2>1, <2>2 DEF Walking, Lengths, JobLengths, TypeOK
    <3>2. Len(arrays[j][None]) = pos[j] - 1  BY <2>1 DEF Lengths, JobLengths
    <3>3. pos[j] \in Nat \ {0} /\ until[j] \in Nat /\ Len(arrays[source[j]][taken[j]]) \in Nat
          /\ Len(arrays[source[j]][taken[j]]) <= Rows
      BY <3>1, <1>0 DEF TypeOK
    <3> QED BY <3>1, <3>2, <3>3, <2>1
  <2> HIDE DEF Good
  <2> QED BY <2>1, <2>2, <2>3, <2>4, <1>3
<1>8. CASE DropColumns(j)
  <2>1. WriteRow(j) /\ UNCHANGED arrays /\ at[j] \in Walking /\ pos[j] <= until[j]
    BY <1>8 DEF DropColumns, AtRow, Walking
  <2> HIDE DEF Good
  <2> QED BY <2>1, <1>4, <1>5
<1>9. CASE RewriteRow(j)
  <2>1. /\ WriteRow(j) \/ UNCHANGED rows
        /\ UNCHANGED arrays /\ at[j] \in Walking /\ pos[j] <= until[j]
    BY <1>9 DEF RewriteRow, AtRow, Walking
  <2>2. CASE UNCHANGED rows  BY <2>1, <2>2, <1>2 DEF TypeOK
  <2>3. CASE WriteRow(j)
    <3> HIDE DEF Good
    <3> QED BY <2>1, <2>3, <1>4, <1>5
  <2> QED BY <2>1, <2>2, <2>3
<1>10. CASE CopyBack(j)
  <2> DEFINE o == work[j]
             w == records[work[j]]
             t == arrays[o][w]
             u == surviving[j]
             c == ChunkStart(j)
             s == Over(t, u, c)
  <2>1. until[j] # 0 /\ UNCHANGED rows  BY <1>10 DEF CopyBack, PastRows
  <2>2. c \in Int  BY <2>1, ChunksBegin
  <2>3. o \in Objects /\ w \in Slices /\ u \in Seq(1..Rows)  BY <1>0 DEF TypeOK
  <2>4. t \in Seq(1..Rows) /\ Len(t) \in Nat /\ Len(t) <= Rows  BY <2>3, <1>0
  <2>5. arrays' = [arrays EXCEPT ![o][w] = s]
    BY <1>10, <2>3 DEF CopyBack, TypeOK
  <2>6. s \in Seq(1..Rows) /\ Len(s) = Len(t)
    <3> HIDE DEF t, u, c
    <3> QED BY <2>2, <2>3, <2>4, CopiedOver
  <2>7. Len(arrays[o][w]) <= Len(s) /\ Len(s) <= Rows  BY <2>4, <2>6
  <2>8. /\ arrays' \in [Objects -> [Slices -> Seq(1..Rows)]]
        /\ \A p \in Objects : \A v \in Slices : Grows(p, v) /\ Len(arrays'[p][v]) <= Rows
        /\ \A p \in Objects \ {o} : arrays'[p] = arrays[p]
    <3> HIDE DEF s, o, w
    <3> QED BY <2>3, <2>5, <2>6, <2>7, <1>1
  <2> QED BY <2>1, <2>8 DEF TypeOK
<1>11. CASE EndRewrite(j)
  <2> DEFINE t == arrays[work[j]][records[work[j]]]
             s == [k \in {i \in DOMAIN t : i = 1 \/ i <= processed[j]} |-> t[k]]
  <2>1. UNCHANGED rows /\ (UNCHANGED arrays \/ arrays' = [arrays EXCEPT ![work[j]][j] = s])
    BY <1>11 DEF EndRewrite
  <2>2. t \in Seq(1..Rows) /\ Len(t) \in Nat /\ Len(t) <= Rows /\ processed[j] \in Nat
    BY <1>0 DEF TypeOK
  <2>3. s \in Seq(1..Rows) /\ Len(s) <= Len(t)
    <3> HIDE DEF t
    <3> QED BY <2>2, FirstRows
  <2>4. arrays[work[j]][j] = <<>>  BY <1>11, <1>0 DEF EndRewrite, Lengths, JobLengths, Early,
      Walking
  <2>5. Len(arrays[work[j]][j]) <= Len(s) /\ Len(s) <= Rows
    <3> HIDE DEF t, s
    <3> QED BY <2>2, <2>3, <2>4, LenProperties, EmptySeq
  <2>6. CASE UNCHANGED arrays  BY <2>1, <2>6, <1>2 DEF TypeOK
  <2>7. CASE arrays' = [arrays EXCEPT ![work[j]][j] = s]
    <3> HIDE DEF s
    <3>1. /\ arrays' \in [Objects -> [Slices -> Seq(1..Rows)]]
          /\ \A p \in Objects : \A v \in Slices : Grows(p, v) /\ Len(arrays'[p][v]) <= Rows
          /\ \A p \in Objects \ {work[j]} : arrays'[p] = arrays[p]
      BY <2>3, <2>5, <2>7, <1>0, <1>1
    <3> QED BY <3>1, <2>1 DEF TypeOK
  <2> QED BY <2>1, <2>6, <2>7
<1>12. CASE EndCompare(j)
  <2> DEFINE t == arrays[work[j]][taken[j]]
             s(f) == [k \in DOMAIN f |-> t[f[k]]]
  <2>1. UNCHANGED rows
        /\ \E f \in Winners(until[j]) : arrays' = [arrays EXCEPT ![work[j]][j] = s(f)]
    BY <1>12 DEF EndCompare
  <2>2. PICK f \in Winners(until[j]) : arrays' = [arrays EXCEPT ![work[j]][j] = s(f)]
    BY <2>1
  <2>3. t \in Seq(1..Rows) /\ Len(t) \in Nat /\ Len(t) <= Rows /\ until[j] \in Nat
    BY <1>0 DEF TypeOK
  <2>4. until[j] <= Len(t) /\ arrays[work[j]][j] = <<>>
    BY <1>12, <1>0 DEF EndCompare, PastRows, Lengths, JobLengths, Early, Walking, From
  <2>5. s(f) \in Seq(1..Rows) /\ Len(s(f)) <= Len(t)
    <3> HIDE DEF t
    <3> QED BY <2>3, <2>4, WinnersOf
  <2>6. Len(arrays[work[j]][j]) <= Len(s(f)) /\ Len(s(f)) <= Rows
    <3> HIDE DEF t, s
    <3> QED BY <2>3, <2>4, <2>5, LenProperties, EmptySeq
  <2> HIDE DEF s
  <2>7. /\ arrays' \in [Objects -> [Slices -> Seq(1..Rows)]]
        /\ \A p \in Objects : \A v \in Slices : Grows(p, v) /\ Len(arrays'[p][v]) <= Rows
        /\ \A p \in Objects \ {work[j]} : arrays'[p] = arrays[p]
    BY <2>2, <2>5, <2>6, <1>0, <1>1
  <2> QED BY <2>1, <2>7 DEF TypeOK
<1> HIDE DEF Good
<1> QED BY <1>6, <1>7, <1>8, <1>9, <1>10, <1>11, <1>12

-----------------------------------------------------------------------------
(* The types                                                               *)

LEMMA TypeInit == Init => TypeOK
<1> SUFFICES ASSUME Init PROVE TypeOK  OBVIOUS
<1> DEFINE blank == [k \in 1..Rows |-> {}]
           ids == [k \in 1..Rows |-> k]
<1>1. Rows \in Nat /\ blank \in [1..Rows -> SUBSET Jobs] /\ ids \in [1..Rows -> 1..Rows]
  BY StoreAssumption
<1>2. blank \in Seq(SUBSET Jobs) /\ ids \in Seq(1..Rows)  BY <1>1, SeqDef
<1>3. <<>> \in Seq(SUBSET Jobs) /\ <<>> \in Seq(1..Rows)  BY EmptySeq
<1>4. rows = [o \in Objects |-> blank]  BY DEF Init
<1>5. \A o \in Objects : rows[o] \in RowsSoFar  BY <1>2, <1>4 DEF RowsSoFar
<1>6. rows \in [Objects -> [1..Rows -> SUBSET Jobs]]  BY <1>1, <1>4
<1>7. analysis \in [Objects -> RowsSoFar \cup {None}]
  <2>1. analysis = [o \in Objects |-> IF o \in Loaded THEN rows[o] ELSE None]  BY DEF Init
  <2> HIDE DEF blank
  <2> QED BY <2>1, <1>5
<1>8. arrays \in [Objects -> [Slices -> Seq(1..Rows)]]
  <2> DEFINE first(o, w) == IF o \in Loaded /\ w = None THEN ids ELSE <<>>
  <2>1. arrays = [o \in Objects |-> [w \in Slices |-> first(o, w)]]  BY DEF Init
  <2>2. \A o \in Objects : \A w \in Slices : first(o, w) \in Seq(1..Rows)  BY <1>2, <1>3
  <2> HIDE DEF first
  <2> QED BY <2>1, <2>2
<1>9. /\ scanned \in [Jobs -> RowsSoFar] /\ exported \in [Exports -> RowsSoFar]
      /\ surviving \in [Jobs -> Seq(1..Rows)]
  BY <1>3 DEF Init, RowsSoFar
<1>10. datasets \in [Ids -> Objects \cup {None}]  BY StoreAssumption DEF Init, Objects
<1>11. /\ at \in [Jobs -> Phases] /\ kind \in [Jobs -> Kinds] /\ to \in [Jobs -> Ids]
       /\ source \in [Jobs -> Objects] /\ work \in [Jobs -> Objects]
       /\ held \in [Exports -> Objects \cup {None}] /\ opened \in [Exports -> RowsSoFar \cup {None}]
       /\ records \in [Objects -> Slices] /\ taken \in [Jobs \cup Exports -> Slices]
  BY DEF Init, Phases, Objects, Slices
<1>12. /\ pos \in [Jobs \cup Exports -> Nat \ {0}] /\ until \in [Jobs \cup Exports -> Nat]
       /\ processed \in [Jobs -> Nat] /\ dropped \in [Jobs -> BOOLEAN]
       /\ crashed \in BOOLEAN /\ contested \subseteq Jobs /\ unfit \subseteq Objects
  <2>1. \A x \in Jobs \cup Exports : 1 \in Nat \ {0} /\ 0 \in Nat  OBVIOUS
  <2> QED BY <2>1 DEF Init
<1> QED BY <1>6, <1>7, <1>8, <1>9, <1>10, <1>11, <1>12 DEF TypeOK

\* The row a job or an export is at is a row.
LEMMA AtARow ==
    ASSUME TypeOK, Lengths
    PROVE /\ \A j \in Jobs :
                at[j] \in Walking /\ pos[j] <= until[j] => Row(j) \in 1..Rows
          /\ \A o \in Objects : \A w \in Slices :
                /\ Through(o, w) \in RowsSoFar
                /\ DOMAIN Through(o, w) = 1..Len(arrays[o][w])
                /\ Len(Through(o, w)) = Len(arrays[o][w]) /\ Len(arrays[o][w]) \in Nat
<1>0. /\ arrays \in [Objects -> [Slices -> Seq(1..Rows)]]
      /\ rows \in [Objects -> [1..Rows -> SUBSET Jobs]]
  BY DEF TypeOK
<1>1. ASSUME NEW o \in Objects, NEW w \in Slices
      PROVE /\ arrays[o][w] \in Seq(1..Rows) /\ Len(arrays[o][w]) \in Nat
            /\ DOMAIN arrays[o][w] = 1..Len(arrays[o][w])
            /\ \A k \in 1..Len(arrays[o][w]) : arrays[o][w][k] \in 1..Rows
  <2>1. arrays[o][w] \in Seq(1..Rows)  BY <1>0, <1>1
  <2> QED BY <2>1, LenProperties, ElementOfSeq
<1>2. ASSUME NEW j \in Jobs, at[j] \in Walking, pos[j] <= until[j] PROVE Row(j) \in 1..Rows
  <2>1. From(j) \in Objects /\ taken[j] \in Slices  BY DEF From, TypeOK
  <2>2. until[j] <= Len(arrays[From(j)][taken[j]])  BY <1>2 DEF Lengths, JobLengths
  <2>3. pos[j] \in Nat \ {0} /\ until[j] \in Nat  BY DEF TypeOK
  <2> QED BY <2>1, <2>2, <2>3, <1>1, <1>2 DEF Row
<1>3. ASSUME NEW o \in Objects, NEW w \in Slices
      PROVE /\ Through(o, w) \in RowsSoFar
            /\ DOMAIN Through(o, w) = 1..Len(arrays[o][w])
            /\ Len(Through(o, w)) = Len(arrays[o][w]) /\ Len(arrays[o][w]) \in Nat
  <2> DEFINE n == Len(arrays[o][w])
  <2>1. n \in Nat /\ Through(o, w) \in [1..n -> SUBSET Jobs]
    BY <1>0, <1>1, <1>3 DEF Through
  <2> HIDE DEF n
  <2>2. Through(o, w) \in Seq(SUBSET Jobs) /\ Len(Through(o, w)) = n  BY <2>1, OfLength
  <2> QED BY <2>1, <2>2 DEF RowsSoFar, n
<1> QED BY <1>2, <1>3

LEMMA LeaveTypes ==
    ASSUME TypeOK, NEW x \in Jobs \cup Exports, NEW n \in Nat \ {0}, Leave(x, n)
    PROVE /\ taken' \in [Jobs \cup Exports -> Slices] /\ until' \in [Jobs \cup Exports -> Nat]
          /\ pos' \in [Jobs \cup Exports -> Nat \ {0}]
BY DEF Leave, TypeOK, Slices

LEMMA AdvanceTypes ==
    ASSUME TypeOK, NEW x \in Jobs \cup Exports, Advance(x)
    PROVE /\ taken' \in [Jobs \cup Exports -> Slices] /\ until' \in [Jobs \cup Exports -> Nat]
          /\ pos' \in [Jobs \cup Exports -> Nat \ {0}]
<1>1. pos[x] + 1 \in Nat \ {0}  BY DEF TypeOK
<1> QED BY <1>1 DEF Advance, TypeOK

LEMMA DisturbTypes ==
    ASSUME TypeOK, NEW o, Disturb(o) PROVE opened' \in [Exports -> RowsSoFar \cup {None}]
BY DEF Disturb, TypeOK

LEMMA ForgetTypes ==
    ASSUME TypeOK, NEW j \in Jobs, ForgetRows(j)
    PROVE /\ surviving' \in [Jobs -> Seq(1..Rows)]
          /\ processed' \in [Jobs -> Nat] /\ dropped' \in [Jobs -> BOOLEAN]
<1>1. <<>> \in Seq(1..Rows)  BY EmptySeq
<1> QED BY <1>1 DEF ForgetRows, TypeOK

\* Any step leaves each variable with its type.
LEMMA TypeStep == TypeOK /\ Shape /\ Lengths /\ [Next]_vars => TypeOK'
<1> SUFFICES ASSUME TypeOK, Shape, Lengths, [Next]_vars PROVE TypeOK'  OBVIOUS
<1> USE StoreAssumption DEF Objects, Slices, plan, data, cleaning, pass, exporting, history
<1>1. ASSUME NEW j \in Jobs, NEW i \in Ids, Start(j, i) PROVE TypeOK'
  <2>1. WorkOn(j, i) \in Objects /\ (kind[j] # "import" => datasets[i] \in Objects)
    BY <1>1 DEF Start, WorkOn, InPlace, TypeOK
  <2>2. source' \in [Jobs -> Objects] /\ work' \in [Jobs -> Objects]  BY <1>1, <2>1 DEF Start,
      TypeOK
  <2>3. at' \in [Jobs -> Phases]
    <3>1. PICK first \in {"read", "clone", "compare"} \cup CleanFrom : at' = [at EXCEPT ![j] = first]
      BY <1>1 DEF Start, Kinds, TypeOK
    <3> QED BY <3>1 DEF CleanFrom, TypeOK, Phases
  <2>4. contested' \subseteq Jobs  BY <1>1 DEF Start, Onto, TypeOK
  <2> QED BY <1>1, <2>1, <2>2, <2>3, <2>4 DEF Start, TypeOK
<1>2. ASSUME NEW j \in Jobs, NEW i \in Ids, NotFound(j, i) PROVE TypeOK'
  BY <1>2 DEF NotFound, TypeOK, Phases
<1>3. ASSUME NEW j \in Jobs, Cancel(j) PROVE TypeOK'
  <2>1. /\ taken' \in [Jobs \cup Exports -> Slices] /\ until' \in [Jobs \cup Exports -> Nat]
        /\ pos' \in [Jobs \cup Exports -> Nat \ {0}]
    BY <1>3, LeaveTypes, 1 \in Nat \ {0} DEF Cancel
  <2>2. /\ surviving' \in [Jobs -> Seq(1..Rows)]
        /\ processed' \in [Jobs -> Nat] /\ dropped' \in [Jobs -> BOOLEAN]
    BY <1>3, ForgetTypes DEF Cancel
  <2>3. at' \in [Jobs -> Phases]  BY <1>3 DEF Cancel, TypeOK, Phases
  <2>4. unfit' \subseteq Objects  BY <1>3 DEF Cancel, TypeOK
  <2> QED BY <1>3, <2>1, <2>2, <2>3, <2>4 DEF Cancel, TypeOK
<1>4. ASSUME NEW j \in Jobs, TakeRows(j) PROVE TypeOK'
  <2>1. From(j) \in Objects  BY DEF From, TypeOK
  <2>2. Length(From(j)) \in Nat
    BY <2>1, AtARow DEF Length, TypeOK
  <2>3. pos[j] \in Nat \ {0}  BY DEF TypeOK
  <2>4. taken' \in [Jobs \cup Exports -> Slices]  BY <1>4, <2>1 DEF TakeRows, TypeOK
  <2>5. until' \in [Jobs \cup Exports -> Nat]
    <3>1. (IF at[j] = "rewrite" /\ pos[j] + Chunk <= Length(From(j))
           THEN pos[j] + Chunk - 1 ELSE Length(From(j))) \in Nat
      BY <2>2, <2>3
    <3> QED BY <1>4, <3>1 DEF TakeRows, TypeOK
  <2> QED BY <1>4, <2>1, <2>2, <2>3, <2>4, <2>5 DEF TakeRows, TypeOK
<1>5. ASSUME NEW j \in Jobs, ReadRow(j) PROVE TypeOK'
  <2>1. /\ rows' \in [Objects -> [1..Rows -> SUBSET Jobs]]
        /\ arrays' \in [Objects -> [Slices -> Seq(1..Rows)]]
    BY <1>5, Written
  <2>2. at' \in [Jobs -> Phases]  BY <1>5 DEF ReadRow, TypeOK, Phases
  <2>3. UNCHANGED records  BY <1>5 DEF ReadRow, MakeRow
  <2> QED BY <1>5, <2>1, <2>2, <2>3 DEF ReadRow, TypeOK
<1>6. ASSUME NEW j \in Jobs, CloneRow(j) PROVE TypeOK'
  <2>1. /\ rows' \in [Objects -> [1..Rows -> SUBSET Jobs]]
        /\ arrays' \in [Objects -> [Slices -> Seq(1..Rows)]]
    BY <1>6, Written
  <2>2. /\ taken' \in [Jobs \cup Exports -> Slices] /\ until' \in [Jobs \cup Exports -> Nat]
        /\ pos' \in [Jobs \cup Exports -> Nat \ {0}]
    <3>1. CASE Leave(j, 1)  BY <3>1, LeaveTypes, 1 \in Nat \ {0}
    <3>2. CASE Advance(j)  BY <3>2, AdvanceTypes
    <3> QED BY <1>6, <3>1, <3>2 DEF CloneRow
  <2>3. at' \in [Jobs -> Phases]
    <3>1. (\E first \in CleanFrom : at' = [at EXCEPT ![j] = first]) \/ UNCHANGED at
      BY <1>6 DEF CloneRow
    <3> QED BY <3>1 DEF CleanFrom, TypeOK, Phases
  <2>4. analysis' \in [Objects -> RowsSoFar \cup {None}]  BY <1>6 DEF CloneRow, TypeOK
  <2>5. UNCHANGED records  BY <1>6 DEF CloneRow, MakeRow
  <2> QED BY <1>6, <2>1, <2>2, <2>3, <2>4, <2>5 DEF CloneRow, TypeOK
<1>7. ASSUME NEW j \in Jobs, DropColumns(j) PROVE TypeOK'
  <2>1. /\ rows' \in [Objects -> [1..Rows -> SUBSET Jobs]]
        /\ arrays' \in [Objects -> [Slices -> Seq(1..Rows)]]
    BY <1>7, Written
  <2>2. /\ taken' \in [Jobs \cup Exports -> Slices] /\ until' \in [Jobs \cup Exports -> Nat]
        /\ pos' \in [Jobs \cup Exports -> Nat \ {0}]
    BY <1>7, AdvanceTypes DEF DropColumns
  <2>3. opened' \in [Exports -> RowsSoFar \cup {None}]
    BY <1>7, DisturbTypes DEF DropColumns, WriteRow, TypeOK
  <2> QED BY <1>7, <2>1, <2>2, <2>3 DEF DropColumns, TypeOK
<1>8. ASSUME NEW j \in Jobs, ReplaceColumns(j) PROVE TypeOK'
  <2>1. /\ taken' \in [Jobs \cup Exports -> Slices] /\ until' \in [Jobs \cup Exports -> Nat]
        /\ pos' \in [Jobs \cup Exports -> Nat \ {0}]
    BY <1>8, LeaveTypes, 1 \in Nat \ {0} DEF ReplaceColumns
  <2>2. opened' \in [Exports -> RowsSoFar \cup {None}]
    BY <1>8, DisturbTypes DEF ReplaceColumns, TypeOK
  <2>3. at' \in [Jobs -> Phases]  BY <1>8 DEF ReplaceColumns, TypeOK, Phases
  <2> QED BY <1>8, <2>1, <2>2, <2>3 DEF ReplaceColumns, TypeOK
<1>9. ASSUME NEW j \in Jobs, RewriteRow(j) PROVE TypeOK'
  <2>1. /\ rows' \in [Objects -> [1..Rows -> SUBSET Jobs]]
        /\ arrays' \in [Objects -> [Slices -> Seq(1..Rows)]]
    BY <1>9, Written
  <2>2. /\ taken' \in [Jobs \cup Exports -> Slices] /\ until' \in [Jobs \cup Exports -> Nat]
        /\ pos' \in [Jobs \cup Exports -> Nat \ {0}]
    BY <1>9, AdvanceTypes DEF RewriteRow
  <2>3. opened' \in [Exports -> RowsSoFar \cup {None}]
    <3>1. CASE UNCHANGED opened  BY <3>1 DEF TypeOK
    <3>2. CASE Disturb(work[j])  BY <3>2, DisturbTypes
    <3> QED BY <1>9, <3>1, <3>2 DEF RewriteRow, WriteRow
  <2>4. Row(j) \in 1..Rows  BY <1>9, AtARow DEF RewriteRow, AtRow, Walking
  <2>5. Append(surviving[j], Row(j)) \in Seq(1..Rows)  BY <2>4, AppendProperties DEF TypeOK
  <2>6. surviving' \in [Jobs -> Seq(1..Rows)]
    <3>1. surviving' = [surviving EXCEPT ![j] = Append(surviving[j], Row(j))] \/ UNCHANGED surviving
      BY <1>9 DEF RewriteRow
    <3>2. CASE surviving' = [surviving EXCEPT ![j] = Append(surviving[j], Row(j))]
      BY <3>2, <2>5 DEF TypeOK
    <3>3. CASE UNCHANGED surviving  BY <3>3 DEF TypeOK
    <3> QED BY <3>1, <3>2, <3>3
  <2>7. processed' \in [Jobs -> Nat] /\ dropped' \in [Jobs -> BOOLEAN]
    <3>1. /\ processed' = [processed EXCEPT ![j] = processed[j] + 1] \/ UNCHANGED processed
          /\ dropped' = [dropped EXCEPT ![j] = TRUE] \/ UNCHANGED dropped
      BY <1>9 DEF RewriteRow
    <3>2. processed' \in [Jobs -> Nat]
      <4>1. CASE UNCHANGED processed  BY <4>1 DEF TypeOK
      <4>2. CASE processed' = [processed EXCEPT ![j] = processed[j] + 1]  BY <4>2 DEF TypeOK
      <4> QED BY <3>1, <4>1, <4>2
    <3>3. dropped' \in [Jobs -> BOOLEAN]
      <4>1. CASE UNCHANGED dropped  BY <4>1 DEF TypeOK
      <4>2. CASE dropped' = [dropped EXCEPT ![j] = TRUE]  BY <4>2 DEF TypeOK
      <4> QED BY <3>1, <4>1, <4>2
    <3> QED BY <3>2, <3>3
  <2> QED BY <1>9, <2>1, <2>2, <2>3, <2>4, <2>5, <2>6, <2>7 DEF RewriteRow, TypeOK
<1>10. ASSUME NEW j \in Jobs, CopyBack(j) PROVE TypeOK'
  <2>1. /\ rows' \in [Objects -> [1..Rows -> SUBSET Jobs]]
        /\ arrays' \in [Objects -> [Slices -> Seq(1..Rows)]]
    BY <1>10, Written
  <2>2. ChunkStart(j) + Chunk \in Nat \ {0}
    BY <1>10, ChunksBegin DEF CopyBack, PastRows
  <2>3. /\ taken' \in [Jobs \cup Exports -> Slices] /\ until' \in [Jobs \cup Exports -> Nat]
        /\ pos' \in [Jobs \cup Exports -> Nat \ {0}]
    BY <1>10, <2>2, LeaveTypes DEF CopyBack
  <2>4. opened' \in [Exports -> RowsSoFar \cup {None}]
    BY <1>10, DisturbTypes DEF CopyBack, TypeOK
  <2>5. surviving' \in [Jobs -> Seq(1..Rows)]  BY <1>10, EmptySeq DEF CopyBack, TypeOK
  <2> QED BY <1>10, <2>1, <2>2, <2>3, <2>4, <2>5 DEF CopyBack, TypeOK
<1>11. ASSUME NEW j \in Jobs, EndRewrite(j) PROVE TypeOK'
  <2>1. /\ rows' \in [Objects -> [1..Rows -> SUBSET Jobs]]
        /\ arrays' \in [Objects -> [Slices -> Seq(1..Rows)]]
    BY <1>11, Written
  <2>2. taken' \in [Jobs \cup Exports -> Slices] /\ pos' \in [Jobs \cup Exports -> Nat \ {0}]
    <3>1. (taken' = [taken EXCEPT ![j] = j] \/ UNCHANGED taken) /\ pos' = [pos EXCEPT ![j] = 1]
      BY <1>11 DEF EndRewrite
    <3>2. pos' \in [Jobs \cup Exports -> Nat \ {0}]  BY <3>1 DEF TypeOK
    <3>3. taken' \in [Jobs \cup Exports -> Slices]
      <4>1. CASE taken' = [taken EXCEPT ![j] = j]  BY <4>1 DEF TypeOK
      <4>2. CASE UNCHANGED taken  BY <4>2 DEF TypeOK
      <4> QED BY <3>1, <4>1, <4>2
    <3> QED BY <3>2, <3>3
  <2>3. /\ surviving' \in [Jobs -> Seq(1..Rows)]
        /\ processed' \in [Jobs -> Nat] /\ dropped' \in [Jobs -> BOOLEAN]
    BY <1>11, ForgetTypes DEF EndRewrite
  <2>4. at' \in [Jobs -> Phases]
    <3>1. \E p \in {"replace", "put"} : at' = [at EXCEPT ![j] = p]  BY <1>11 DEF EndRewrite
    <3> QED BY <3>1 DEF TypeOK, Phases
  <2> QED BY <1>11, <2>1, <2>2, <2>3, <2>4 DEF EndRewrite, TypeOK
<1>12. ASSUME NEW j \in Jobs, CompareRow(j) PROVE TypeOK'
  <2>1. /\ taken' \in [Jobs \cup Exports -> Slices] /\ until' \in [Jobs \cup Exports -> Nat]
        /\ pos' \in [Jobs \cup Exports -> Nat \ {0}]
    BY <1>12, AdvanceTypes DEF CompareRow
  <2> QED BY <1>12, <2>1 DEF CompareRow, TypeOK
<1>13. ASSUME NEW j \in Jobs, EndCompare(j) PROVE TypeOK'
  <2>1. /\ rows' \in [Objects -> [1..Rows -> SUBSET Jobs]]
        /\ arrays' \in [Objects -> [Slices -> Seq(1..Rows)]]
    BY <1>13, Written
  <2>2. taken' \in [Jobs \cup Exports -> Slices]  BY <1>13 DEF EndCompare, TypeOK
  <2>3. at' \in [Jobs -> Phases]  BY <1>13 DEF EndCompare, TypeOK, Phases
  <2> QED BY <1>13, <2>1, <2>2, <2>3 DEF EndCompare, TypeOK
<1>14. ASSUME NEW j \in Jobs, KeepAll(j) PROVE TypeOK'
  <2>1. at' \in [Jobs -> Phases]  BY <1>14 DEF KeepAll, TypeOK, Phases
  <2> QED BY <1>14, <2>1 DEF KeepAll, TypeOK
<1>15. ASSUME NEW j \in Jobs, ReplaceRecords(j) PROVE TypeOK'
  <2>1. /\ taken' \in [Jobs \cup Exports -> Slices] /\ until' \in [Jobs \cup Exports -> Nat]
        /\ pos' \in [Jobs \cup Exports -> Nat \ {0}]
    BY <1>15, LeaveTypes, 1 \in Nat \ {0} DEF ReplaceRecords
  <2>2. at' \in [Jobs -> Phases]  BY <1>15 DEF ReplaceRecords, TypeOK, Phases
  <2>3. records' \in [Objects -> Slices] /\ UNCHANGED arrays
    BY <1>15 DEF ReplaceRecords, Replace, TypeOK
  <2> QED BY <1>15, <2>1, <2>2, <2>3 DEF ReplaceRecords, TypeOK
<1>16. ASSUME NEW j \in Jobs, Put(j) PROVE TypeOK'
  <2>1. /\ taken' \in [Jobs \cup Exports -> Slices] /\ until' \in [Jobs \cup Exports -> Nat]
        /\ pos' \in [Jobs \cup Exports -> Nat \ {0}]
    BY <1>16, LeaveTypes, 1 \in Nat \ {0} DEF Put
  <2>2. at' \in [Jobs -> Phases]  BY <1>16 DEF Put, TypeOK, Phases
  <2>3. datasets' \in [Ids -> Objects \cup {None}]  BY <1>16 DEF Put, IdOf, TypeOK
  <2> QED BY <1>16, <2>1, <2>2, <2>3 DEF Put, TypeOK
<1>17. ASSUME NEW j \in Jobs, AnalyzeRow(j) PROVE TypeOK'
  <2>1. /\ taken' \in [Jobs \cup Exports -> Slices] /\ until' \in [Jobs \cup Exports -> Nat]
        /\ pos' \in [Jobs \cup Exports -> Nat \ {0}]
    BY <1>17, AdvanceTypes DEF AnalyzeRow
  <2>2. Contents(work[j])[pos[j]] \in SUBSET Jobs
    <3>1. work[j] \in Objects /\ records[work[j]] \in Slices /\ pos[j] \in Nat \ {0}  BY DEF TypeOK
    <3>2. /\ Contents(work[j]) \in Seq(SUBSET Jobs) /\ Length(work[j]) \in Nat
          /\ Len(Contents(work[j])) = Length(work[j])
      BY <3>1, AtARow DEF Contents, Length, RowsSoFar
    <3>3. pos[j] <= Length(work[j])  BY <1>17 DEF AnalyzeRow, Analyzed
    <3> QED BY <3>1, <3>2, <3>3, ElementOfSeq
  <2>3. Append(scanned[j], Contents(work[j])[pos[j]]) \in RowsSoFar
    BY <2>2, AppendProperties DEF RowsSoFar, TypeOK
  <2>4. scanned' \in [Jobs -> RowsSoFar]  BY <1>17, <2>3 DEF AnalyzeRow, Analyzed, TypeOK
  <2> QED BY <1>17, <2>1, <2>2, <2>3, <2>4 DEF AnalyzeRow, TypeOK
<1>18. ASSUME NEW j \in Jobs, Save(j) PROVE TypeOK'
  <2>1. /\ taken' \in [Jobs \cup Exports -> Slices] /\ until' \in [Jobs \cup Exports -> Nat]
        /\ pos' \in [Jobs \cup Exports -> Nat \ {0}]
    BY <1>18, LeaveTypes, 1 \in Nat \ {0} DEF Save
  <2>2. at' \in [Jobs -> Phases]  BY <1>18 DEF Save, TypeOK, Phases
  <2>3. datasets' \in [Ids -> Objects \cup {None}]  BY <1>18 DEF Save, IdOf, TypeOK
  <2>4. analysis' \in [Objects -> RowsSoFar \cup {None}] /\ unfit' \subseteq Objects
    BY <1>18 DEF Save, TypeOK
  <2>5. scanned' \in [Jobs -> RowsSoFar]  BY <1>18, EmptySeq DEF Save, RowsSoFar, TypeOK
  <2> QED BY <1>18, <2>1, <2>2, <2>3, <2>4, <2>5 DEF Save, TypeOK
<1>19. ASSUME NEW j \in Jobs, Panic(j) PROVE TypeOK'
  BY <1>19 DEF Panic, AtRow, PastRows, TypeOK, Phases
<1>20. ASSUME NEW e \in Exports, NEW i \in Ids, Open(e, i) PROVE TypeOK'
  <2>1. held' \in [Exports -> Objects \cup {None}]  BY <1>20 DEF Open, TypeOK
  <2>2. opened' \in [Exports -> RowsSoFar \cup {None}]
    BY <1>20, EmptySeq DEF Open, RowsSoFar, TypeOK
  <2> QED BY <1>20, <2>1, <2>2 DEF Open, TypeOK
<1>21. ASSUME NEW e \in Exports, NEW j \in Jobs, RangeTorn(e, j) PROVE TypeOK'
  <2>1. held[e] \in Objects /\ work[j] \in Objects /\ taken[j] \in Slices  BY <1>21 DEF RangeTorn, TypeOK
  <2>2. Len(arrays[work[j]][taken[j]]) \in Nat  BY <2>1, AtARow
  <2>3. taken' \in [Jobs \cup Exports -> Slices] /\ until' \in [Jobs \cup Exports -> Nat]
    BY <1>21, <2>1, <2>2 DEF RangeTorn, TypeOK
  <2>4. opened' \in [Exports -> RowsSoFar \cup {None}]  BY <1>21 DEF RangeTorn, TypeOK
  <2> QED BY <1>21, <2>1, <2>2, <2>3, <2>4 DEF RangeTorn, TypeOK
<1>22. ASSUME NEW e \in Exports, RangeOver(e) PROVE TypeOK'
  <2>1. held[e] \in Objects /\ records[held[e]] \in Slices  BY <1>22 DEF RangeOver, TypeOK
  <2>2. Length(held[e]) \in Nat /\ Contents(held[e]) \in RowsSoFar  BY <2>1, AtARow DEF Length, Contents
  <2>3. taken' \in [Jobs \cup Exports -> Slices] /\ until' \in [Jobs \cup Exports -> Nat]
    BY <1>22, <2>1, <2>2 DEF RangeOver, TypeOK
  <2>4. opened' \in [Exports -> RowsSoFar \cup {None}]  BY <1>22, <2>2 DEF RangeOver, TypeOK
  <2> QED BY <1>22, <2>1, <2>2, <2>3, <2>4 DEF RangeOver, TypeOK
<1>23. ASSUME NEW e \in Exports, ExportRow(e) PROVE TypeOK'
  <2>1. /\ taken' \in [Jobs \cup Exports -> Slices] /\ until' \in [Jobs \cup Exports -> Nat]
        /\ pos' \in [Jobs \cup Exports -> Nat \ {0}]
    BY <1>23, AdvanceTypes DEF ExportRow
  <2>2. held[e] \in Objects /\ taken[e] \in Slices /\ pos[e] \in Nat \ {0} /\ until[e] \in Nat
    BY <1>23 DEF ExportRow, TypeOK
  <2>3. pos[e] \in 1..Len(Through(held[e], taken[e]))
    BY <1>23, <2>2, AtARow DEF ExportRow, Lengths, ExportLengths
  <2>4. Through(held[e], taken[e])[pos[e]] \in SUBSET Jobs
    BY <2>2, <2>3, AtARow, ElementOfSeq DEF RowsSoFar
  <2>5. Append(exported[e], Through(held[e], taken[e])[pos[e]]) \in RowsSoFar
    BY <2>4, AppendProperties DEF RowsSoFar, TypeOK
  <2>6. exported' \in [Exports -> RowsSoFar]  BY <1>23, <2>5 DEF ExportRow, TypeOK
  <2> QED BY <1>23, <2>1, <2>2, <2>3, <2>4, <2>5, <2>6 DEF ExportRow, TypeOK
<1>24. ASSUME NEW e \in Exports, Close(e) PROVE TypeOK'
  <2>1. /\ taken' \in [Jobs \cup Exports -> Slices] /\ until' \in [Jobs \cup Exports -> Nat]
        /\ pos' \in [Jobs \cup Exports -> Nat \ {0}]
    BY <1>24, LeaveTypes, 1 \in Nat \ {0} DEF Close
  <2>2. /\ held' \in [Exports -> Objects \cup {None}] /\ exported' \in [Exports -> RowsSoFar]
        /\ opened' \in [Exports -> RowsSoFar \cup {None}]
    BY <1>24, EmptySeq DEF Close, RowsSoFar, TypeOK
  <2> QED BY <1>24, <2>1, <2>2 DEF Close, TypeOK
<1>25. ASSUME Crash PROVE TypeOK'
  BY <1>25 DEF Crash, TypeOK, Phases
<1>26. CASE UNCHANGED vars
  BY <1>26 DEF vars, TypeOK, Phases
<1> QED
  BY <1>1, <1>2, <1>3, <1>4, <1>5, <1>6, <1>7, <1>8, <1>9,
     <1>10, <1>11, <1>12, <1>13, <1>14, <1>15, <1>16, <1>17, <1>18,
     <1>19, <1>20, <1>21, <1>22, <1>23, <1>24, <1>25, <1>26
  DEF Next

-----------------------------------------------------------------------------
(* Who knows a dataset                                                     *)

\* A dataset keeps its ID, and a job the id it works for.
LEMMA FiledStep == TypeOK /\ Shape /\ Filed /\ [Next]_vars => Filed'
<1> SUFFICES ASSUME TypeOK, Shape, Filed, [Next]_vars PROVE Filed'  OBVIOUS
<1> USE StoreAssumption DEF plan, data, cleaning, pass, exporting, history, IdOf
<1>1. ASSUME NEW j \in Jobs, NEW i \in Ids, Start(j, i) PROVE Filed'
  <2>1. UNCHANGED <<datasets, to>> /\ work' = [work EXCEPT ![j] = WorkOn(j, i)]  BY <1>1 DEF Start
  <2>2. IdOf(WorkOn(j, i)) = to[j]  BY <1>1 DEF Start, WorkOn, InPlace, Filed
  <2> QED BY <2>1, <2>2 DEF Filed, TypeOK
<1>2. ASSUME NEW j \in Jobs, NEW i \in Ids, NotFound(j, i) PROVE Filed'
  BY <1>2 DEF NotFound, Filed, TypeOK, Objects
<1>3. ASSUME NEW j \in Jobs, Cancel(j) PROVE Filed'
  BY <1>3 DEF Cancel, Leave, ForgetRows, Filed, TypeOK, Objects
<1>4. ASSUME NEW j \in Jobs, TakeRows(j) PROVE Filed'
  BY <1>4 DEF TakeRows, Filed, TypeOK, Objects
<1>5. ASSUME NEW j \in Jobs, ReadRow(j) PROVE Filed'
  BY <1>5 DEF ReadRow, MakeRow, Filed, TypeOK, Objects
<1>6. ASSUME NEW j \in Jobs, CloneRow(j) PROVE Filed'
  BY <1>6 DEF CloneRow, AtRow, MakeRow, Advance, Leave, Filed, TypeOK, Objects
<1>7. ASSUME NEW j \in Jobs, DropColumns(j) PROVE Filed'
  BY <1>7 DEF DropColumns, AtRow, WriteRow, Advance, Disturb, Filed, TypeOK, Objects
<1>8. ASSUME NEW j \in Jobs, ReplaceColumns(j) PROVE Filed'
  BY <1>8 DEF ReplaceColumns, PastRows, Leave, Disturb, Filed, TypeOK, Objects
<1>9. ASSUME NEW j \in Jobs, RewriteRow(j) PROVE Filed'
  BY <1>9 DEF RewriteRow, AtRow, WriteRow, Advance, Disturb, Filed, TypeOK, Objects
<1>10. ASSUME NEW j \in Jobs, CopyBack(j) PROVE Filed'
  BY <1>10 DEF CopyBack, PastRows, Leave, Disturb, Filed, TypeOK, Objects
<1>11. ASSUME NEW j \in Jobs, EndRewrite(j) PROVE Filed'
  BY <1>11 DEF EndRewrite, ForgetRows, Filed, TypeOK, Objects
<1>12. ASSUME NEW j \in Jobs, CompareRow(j) PROVE Filed'
  BY <1>12 DEF CompareRow, AtRow, Advance, Filed, TypeOK, Objects
<1>13. ASSUME NEW j \in Jobs, EndCompare(j) PROVE Filed'
  BY <1>13 DEF EndCompare, PastRows, Filed, TypeOK, Objects
<1>14. ASSUME NEW j \in Jobs, KeepAll(j) PROVE Filed'
  BY <1>14 DEF KeepAll, AtRow, Filed, TypeOK, Objects
<1>15. ASSUME NEW j \in Jobs, ReplaceRecords(j) PROVE Filed'
  BY <1>15 DEF ReplaceRecords, Replace, Leave, Filed, TypeOK, Objects
<1>16. ASSUME NEW j \in Jobs, Put(j) PROVE Filed'
  <2>1. datasets' = [datasets EXCEPT ![to[j]] = work[j]]  BY <1>16 DEF Put, Filed
  <2>2. UNCHANGED <<to, work>>  BY <1>16 DEF Put
  <2> HIDE DEF plan
  <2> QED BY <2>1, <2>2 DEF Filed, TypeOK
<1>17. ASSUME NEW j \in Jobs, AnalyzeRow(j) PROVE Filed'
  BY <1>17 DEF AnalyzeRow, AtRow, Advance, Filed, TypeOK, Objects
<1>18. ASSUME NEW j \in Jobs, Save(j) PROVE Filed'
  <2>1. datasets' = [datasets EXCEPT ![to[j]] = work[j]]  BY <1>18 DEF Save, Filed
  <2>2. UNCHANGED <<to, work>>  BY <1>18 DEF Save
  <2> HIDE DEF plan
  <2> QED BY <2>1, <2>2 DEF Filed, TypeOK
<1>19. ASSUME NEW j \in Jobs, Panic(j) PROVE Filed'
  BY <1>19 DEF Panic, AtRow, PastRows, Filed, TypeOK, Objects
<1>20. ASSUME NEW e \in Exports, NEW i \in Ids, Open(e, i) PROVE Filed'
  BY <1>20 DEF Open, Filed, TypeOK, Objects
<1>21. ASSUME NEW e \in Exports, NEW j \in Jobs, RangeTorn(e, j) PROVE Filed'
  BY <1>21 DEF RangeTorn, Filed, TypeOK, Objects
<1>22. ASSUME NEW e \in Exports, RangeOver(e) PROVE Filed'
  BY <1>22 DEF RangeOver, Filed, TypeOK, Objects
<1>23. ASSUME NEW e \in Exports, ExportRow(e) PROVE Filed'
  BY <1>23 DEF ExportRow, Advance, Filed, TypeOK, Objects
<1>24. ASSUME NEW e \in Exports, Close(e) PROVE Filed'
  BY <1>24 DEF Close, Leave, Filed, TypeOK, Objects
<1>25. ASSUME Crash PROVE Filed'
  BY <1>25 DEF Crash, Filed, TypeOK, Objects
<1>26. CASE UNCHANGED vars
  BY <1>26 DEF vars, Filed, TypeOK, Objects
<1> QED
  BY <1>1, <1>2, <1>3, <1>4, <1>5, <1>6, <1>7, <1>8, <1>9,
     <1>10, <1>11, <1>12, <1>13, <1>14, <1>15, <1>16, <1>17, <1>18,
     <1>19, <1>20, <1>21, <1>22, <1>23, <1>24, <1>25, <1>26
  DEF Next

LEMMA ShapeStep == TypeOK /\ Shape /\ Lengths /\ [Next]_vars => Shape'
<1> SUFFICES ASSUME TypeOK, Shape, Lengths, [Next]_vars PROVE Shape'  OBVIOUS
<1> USE StoreAssumption DEF plan, data, cleaning, pass, exporting, history, InPlace
<1>1. ASSUME NEW j \in Jobs, NEW i \in Ids, Start(j, i) PROVE Shape'
  BY <1>1 DEF Start, WorkOn, Kinds, CleanFrom, Shape, TypeOK
<1>2. ASSUME NEW j \in Jobs, NEW i \in Ids, NotFound(j, i) PROVE Shape'
  BY <1>2 DEF NotFound, Shape, TypeOK
<1>3. ASSUME NEW j \in Jobs, Cancel(j) PROVE Shape'
  BY <1>3 DEF Cancel, Leave, ForgetRows, Shape, TypeOK
<1>4. ASSUME NEW j \in Jobs, TakeRows(j) PROVE Shape'
  BY <1>4 DEF TakeRows, Shape, TypeOK
<1>5. ASSUME NEW j \in Jobs, ReadRow(j) PROVE Shape'
  BY <1>5 DEF ReadRow, MakeRow, Shape, TypeOK
<1>6. ASSUME NEW j \in Jobs, CloneRow(j) PROVE Shape'
  <2>1. UNCHANGED at \/ \E p \in CleanFrom : at' = [at EXCEPT ![j] = p]  BY <1>6 DEF CloneRow
  <2>2. UNCHANGED <<kind, work>> /\ at[j] = "clone"  BY <1>6 DEF CloneRow, AtRow
  <2>3. CASE UNCHANGED at  BY <2>2, <2>3 DEF Shape
  <2>4. CASE \E p \in CleanFrom : at' = [at EXCEPT ![j] = p]
    BY <2>2, <2>4 DEF Shape, CleanFrom, TypeOK
  <2> QED BY <2>1, <2>3, <2>4
<1>7. ASSUME NEW j \in Jobs, DropColumns(j) PROVE Shape'
  BY <1>7 DEF DropColumns, AtRow, WriteRow, Advance, Disturb, Shape, TypeOK
<1>8. ASSUME NEW j \in Jobs, ReplaceColumns(j) PROVE Shape'
  BY <1>8 DEF ReplaceColumns, PastRows, Leave, Disturb, Shape, TypeOK
<1>9. ASSUME NEW j \in Jobs, RewriteRow(j) PROVE Shape'
  BY <1>9 DEF RewriteRow, AtRow, WriteRow, Advance, Disturb, Shape, TypeOK
<1>10. ASSUME NEW j \in Jobs, CopyBack(j) PROVE Shape'
  BY <1>10 DEF CopyBack, PastRows, Leave, Disturb, Shape, TypeOK
<1>11. ASSUME NEW j \in Jobs, EndRewrite(j) PROVE Shape'
  <2>1. \E p \in {"replace", "put"} : at' = [at EXCEPT ![j] = p]  BY <1>11 DEF EndRewrite
  <2>2. UNCHANGED <<kind, work>> /\ at[j] = "rewrite"  BY <1>11 DEF EndRewrite
  <2> QED BY <2>1, <2>2 DEF Shape, TypeOK
<1>12. ASSUME NEW j \in Jobs, CompareRow(j) PROVE Shape'
  BY <1>12 DEF CompareRow, AtRow, Advance, Shape, TypeOK
<1>13. ASSUME NEW j \in Jobs, EndCompare(j) PROVE Shape'
  BY <1>13 DEF EndCompare, PastRows, Shape, TypeOK
<1>14. ASSUME NEW j \in Jobs, KeepAll(j) PROVE Shape'
  BY <1>14 DEF KeepAll, AtRow, Shape, TypeOK
<1>15. ASSUME NEW j \in Jobs, ReplaceRecords(j) PROVE Shape'
  BY <1>15 DEF ReplaceRecords, Replace, Leave, Shape, TypeOK
<1>16. ASSUME NEW j \in Jobs, Put(j) PROVE Shape'
  BY <1>16 DEF Put, Leave, Shape, TypeOK
<1>17. ASSUME NEW j \in Jobs, AnalyzeRow(j) PROVE Shape'
  BY <1>17 DEF AnalyzeRow, AtRow, Advance, Shape, TypeOK
<1>18. ASSUME NEW j \in Jobs, Save(j) PROVE Shape'
  BY <1>18 DEF Save, PastRows, Leave, Shape, TypeOK
<1>19. ASSUME NEW j \in Jobs, Panic(j) PROVE Shape'
  BY <1>19 DEF Panic, AtRow, PastRows, Shape, TypeOK
<1>20. ASSUME NEW e \in Exports, NEW i \in Ids, Open(e, i) PROVE Shape'
  BY <1>20 DEF Open, Shape, TypeOK
<1>21. ASSUME NEW e \in Exports, NEW j \in Jobs, RangeTorn(e, j) PROVE Shape'
  BY <1>21 DEF RangeTorn, Shape, TypeOK
<1>22. ASSUME NEW e \in Exports, RangeOver(e) PROVE Shape'
  BY <1>22 DEF RangeOver, Shape, TypeOK
<1>23. ASSUME NEW e \in Exports, ExportRow(e) PROVE Shape'
  BY <1>23 DEF ExportRow, Advance, Shape, TypeOK
<1>24. ASSUME NEW e \in Exports, Close(e) PROVE Shape'
  BY <1>24 DEF Close, Leave, Shape, TypeOK
<1>25. ASSUME Crash PROVE Shape'
  BY <1>25 DEF Crash, Shape, TypeOK
<1>26. CASE UNCHANGED vars
  BY <1>26 DEF vars, Shape, TypeOK
<1> QED
  BY <1>1, <1>2, <1>3, <1>4, <1>5, <1>6, <1>7, <1>8, <1>9,
     <1>10, <1>11, <1>12, <1>13, <1>14, <1>15, <1>16, <1>17, <1>18,
     <1>19, <1>20, <1>21, <1>22, <1>23, <1>24, <1>25, <1>26
  DEF Next

\* A job that is neither at its beginning nor at its end tells nobody of its dataset.
LEMMA Quiet ==
    ASSUME TypeOK, Hidden, UNCHANGED <<datasets, kind, source, work, held>>, NEW j \in Jobs,
           at[j] \notin {"new", "failed", "analyze", "done"},
           \A k \in Jobs \ {j} : at'[k] = at[k]
    PROVE Hidden'
<1>1. \A k \in Jobs : Unpublished(k)' => Unpublished(k)  BY DEF Unpublished
<1> QED BY <1>1 DEF Hidden

LEMMA HiddenStep == TypeOK /\ Shape /\ Hidden /\ [Next]_vars => Hidden'
<1> SUFFICES ASSUME TypeOK, Shape, Hidden, [Next]_vars PROVE Hidden'  OBVIOUS
<1> USE StoreAssumption DEF plan, data, cleaning, pass, exporting, history, Unpublished, InPlace
<1>1. ASSUME NEW j \in Jobs, NEW i \in Ids, Start(j, i) PROVE Hidden'
  <2>1. /\ UNCHANGED <<datasets, kind, held>> /\ at[j] = "new"
        /\ \E p \in Phases \ {"new", "failed", "analyze", "done"} : at' = [at EXCEPT ![j] = p]
    BY <1>1 DEF Start, CleanFrom, Kinds, Phases, TypeOK
  <2>2. /\ source' = [source EXCEPT ![j] = IF kind[j] = "import" THEN j ELSE datasets[i]]
        /\ work' = [work EXCEPT ![j] = WorkOn(j, i)]
    BY <1>1 DEF Start
  <2>3. ASSUME NEW k \in Jobs \ {j}, Unpublished(k) PROVE source'[j] # k /\ work'[j] # k
    <3>1. datasets[i] # k  BY <2>3 DEF Hidden
    <3> QED BY <2>2, <3>1 DEF WorkOn, TypeOK
  <2>4. kind[j] \in InPlace => work'[j] # j
    BY <2>1, <2>2 DEF WorkOn, Hidden, TypeOK
  <2>5. \A k \in Jobs \ {j} : at'[k] = at[k] /\ source'[k] = source[k] /\ work'[k] = work[k]
    BY <2>1, <2>2 DEF TypeOK
  <2>6. \A k \in Jobs : Unpublished(k)' => Unpublished(k)  BY <2>1, <2>5
  <2> HIDE DEF Unpublished
  <2>7. Unpublished(j)' => Unpublished(j) /\ \A k \in Jobs \ {j} : source[k] # j /\ work[k] # j
    BY <2>6 DEF Hidden
  <2> QED BY <2>1, <2>3, <2>4, <2>5, <2>6, <2>7 DEF Hidden
<1>2. ASSUME NEW j \in Jobs, NEW i \in Ids, NotFound(j, i) PROVE Hidden'
  <2>1. UNCHANGED <<datasets, kind, source, work, held>> /\ at[j] = "new"
        /\ at' = [at EXCEPT ![j] = "failed"]
    BY <1>2 DEF NotFound
  <2>2. \A k \in Jobs \ {j} : at'[k] = at[k]  BY <2>1
  <2>3. at'[j] = "failed"  BY <2>1 DEF TypeOK
  <2>4. \A k \in Jobs : Unpublished(k)' => Unpublished(k)  BY <2>1, <2>2
  <2> HIDE DEF plan, exporting, Unpublished
  <2> QED BY <2>1, <2>2, <2>3, <2>4 DEF Hidden
<1>3. ASSUME NEW j \in Jobs, 
             \/ Cancel(j) \/ ReadRow(j) \/ ReplaceColumns(j) \/ CopyBack(j)
             \/ EndCompare(j) \/ KeepAll(j) \/ ReplaceRecords(j)
      PROVE Hidden'
  <2>1. UNCHANGED <<datasets, kind, source, work, held>>  BY <1>3 DEF Cancel, ReadRow,
      ReplaceColumns, CopyBack, EndCompare, KeepAll, ReplaceRecords
  <2>2. at[j] \notin {"new", "failed", "analyze", "done"}  BY <1>3 DEF Cancel, ReadRow,
      ReplaceColumns, CopyBack, EndCompare, KeepAll, ReplaceRecords, Leave, ForgetRows,
      MakeRow, PastRows, Disturb, AtRow, Replace
  <2>3. \A k \in Jobs \ {j} : at'[k] = at[k]  BY <1>3 DEF Cancel, ReadRow, ReplaceColumns,
      CopyBack, EndCompare, KeepAll, ReplaceRecords, TypeOK
  <2> HIDE DEF Unpublished, plan, exporting
  <2> QED BY <2>1, <2>2, <2>3, Quiet
<1>4. ASSUME NEW j \in Jobs, TakeRows(j) PROVE Hidden'
  BY <1>4 DEF TakeRows, Hidden, Shape, TypeOK, Objects
<1>5. ASSUME NEW j \in Jobs, CloneRow(j) PROVE Hidden'
  <2>1. UNCHANGED <<datasets, kind, source, work, held>>  BY <1>5 DEF CloneRow
  <2>2. at[j] \notin {"new", "failed", "analyze", "done"}  BY <1>5 DEF CloneRow, AtRow,
      MakeRow, Advance, Leave
  <2>3. \A k \in Jobs \ {j} : at'[k] = at[k]
    <3>0. at' = at \/ \E p \in CleanFrom : at' = [at EXCEPT ![j] = p]  BY <1>5 DEF CloneRow
    <3>1. CASE at' = at  BY <3>1
    <3>2. CASE \E p \in CleanFrom : at' = [at EXCEPT ![j] = p]  BY <3>2
    <3> QED BY <3>0, <3>1, <3>2
  <2> HIDE DEF Unpublished, plan, exporting
  <2> QED BY <2>1, <2>2, <2>3, Quiet
<1>6. ASSUME NEW j \in Jobs, DropColumns(j) PROVE Hidden'
  BY <1>6 DEF DropColumns, AtRow, WriteRow, Advance, Disturb, Hidden, Shape, TypeOK, Objects
<1>7. ASSUME NEW j \in Jobs, RewriteRow(j) PROVE Hidden'
  BY <1>7 DEF RewriteRow, AtRow, WriteRow, Advance, Disturb, Hidden, Shape, TypeOK, Objects
<1>8. ASSUME NEW j \in Jobs, EndRewrite(j) PROVE Hidden'
  <2>1. UNCHANGED <<datasets, kind, source, work, held>>  BY <1>8 DEF EndRewrite
  <2>2. at[j] \notin {"new", "failed", "analyze", "done"}  BY <1>8 DEF EndRewrite, ForgetRows
  <2>3. \A k \in Jobs \ {j} : at'[k] = at[k]  
    <3>1. \E p \in Phases : at' = [at EXCEPT ![j] = p]  BY <1>8 DEF EndRewrite, Phases
    <3> QED BY <3>1 DEF TypeOK
  <2> HIDE DEF Unpublished, plan, exporting
  <2> QED BY <2>1, <2>2, <2>3, Quiet
<1>9. ASSUME NEW j \in Jobs, CompareRow(j) PROVE Hidden'
  BY <1>9 DEF CompareRow, AtRow, Advance, Hidden, Shape, TypeOK, Objects
<1>10. ASSUME NEW j \in Jobs, Put(j) PROVE Hidden'
  <2>1. /\ UNCHANGED <<kind, source, work, held>> /\ at[j] = "put" /\ at'[j] = "analyze"
        /\ \A k \in Jobs \ {j} : at'[k] = at[k]
        /\ \A i \in Ids : datasets'[i] = datasets[i] \/ datasets'[i] = work[j]
    BY <1>10 DEF Put, TypeOK
  <2>2. \A k \in Jobs : Unpublished(k)' => Unpublished(k)
    BY <2>1 DEF Shape
  <2>3. \A k \in Jobs \ {j} : Unpublished(k) => work[j] # k  BY DEF Hidden
  <2>4. Unpublished(j)' => work[j] # j
    BY <2>1 DEF Shape, Hidden
  <2> HIDE DEF Unpublished, plan, exporting
  <2> QED BY <2>1, <2>2, <2>3, <2>4 DEF Hidden
<1>11. ASSUME NEW j \in Jobs, AnalyzeRow(j) PROVE Hidden'
  BY <1>11 DEF AnalyzeRow, AtRow, Advance, Hidden, Shape, TypeOK, Objects
<1>12. ASSUME NEW j \in Jobs, Save(j) PROVE Hidden'
  <2>1. /\ UNCHANGED <<kind, source, work, held>> /\ at[j] = "analyze" /\ at'[j] = "done"
        /\ \A k \in Jobs \ {j} : at'[k] = at[k]
        /\ \A i \in Ids : datasets'[i] = datasets[i] \/ datasets'[i] = work[j]
    BY <1>12 DEF Save, PastRows, TypeOK
  <2>2. \A k \in Jobs : Unpublished(k)' => Unpublished(k)
    BY <2>1 DEF Shape
  <2>3. \A k \in Jobs \ {j} : Unpublished(k) => work[j] # k  BY DEF Hidden
  <2>4. Unpublished(j)' => work[j] # j
    BY <2>1 DEF Shape, Hidden
  <2> HIDE DEF Unpublished, plan, exporting
  <2> QED BY <2>1, <2>2, <2>3, <2>4 DEF Hidden
<1>13. ASSUME NEW j \in Jobs, Panic(j) PROVE Hidden'
  BY <1>13 DEF Panic, AtRow, PastRows, Hidden, Shape, TypeOK, Objects
<1>14. ASSUME NEW e \in Exports, NEW i \in Ids, Open(e, i) PROVE Hidden'
  <2>1. /\ UNCHANGED <<datasets, kind, source, work, at>>
        /\ datasets[i] # None /\ held' = [held EXCEPT ![e] = datasets[i]]
    BY <1>14 DEF Open
  <2>2. \A k \in Jobs : Unpublished(k)' <=> Unpublished(k)  BY <2>1
  <2>3. \A x \in Exports : held'[x] = held[x] \/ held'[x] = datasets[i]  BY <2>1 DEF TypeOK
  <2> HIDE DEF Unpublished, plan, exporting
  <2> QED BY <2>1, <2>2, <2>3 DEF Hidden
<1>15. ASSUME NEW e \in Exports, NEW j \in Jobs, RangeTorn(e, j) PROVE Hidden'
  <2>1. /\ UNCHANGED <<datasets, kind, source, work, at>>
        /\ \A x \in Exports : held'[x] \in {held[x], None}
    BY <1>15 DEF RangeTorn, TypeOK
  <2>2. \A k \in Jobs : Unpublished(k)' <=> Unpublished(k)  BY <2>1
  <2> HIDE DEF Unpublished, plan, exporting
  <2> QED BY <2>1, <2>2 DEF Hidden
<1>16. ASSUME NEW e \in Exports, RangeOver(e) PROVE Hidden'
  <2>1. /\ UNCHANGED <<datasets, kind, source, work, at>>
        /\ \A x \in Exports : held'[x] \in {held[x], None}
    BY <1>16 DEF RangeOver, TypeOK
  <2>2. \A k \in Jobs : Unpublished(k)' <=> Unpublished(k)  BY <2>1
  <2> HIDE DEF Unpublished, plan, exporting
  <2> QED BY <2>1, <2>2 DEF Hidden
<1>17. ASSUME NEW e \in Exports, ExportRow(e) PROVE Hidden'
  <2>1. /\ UNCHANGED <<datasets, kind, source, work, at>>
        /\ \A x \in Exports : held'[x] \in {held[x], None}
    BY <1>17 DEF ExportRow, TypeOK
  <2>2. \A k \in Jobs : Unpublished(k)' <=> Unpublished(k)  BY <2>1
  <2> HIDE DEF Unpublished, plan, exporting
  <2> QED BY <2>1, <2>2 DEF Hidden
<1>18. ASSUME NEW e \in Exports, Close(e) PROVE Hidden'
  <2>1. /\ UNCHANGED <<datasets, kind, source, work, at>>
        /\ \A x \in Exports : held'[x] \in {held[x], None}
    BY <1>18 DEF Close, TypeOK
  <2>2. \A k \in Jobs : Unpublished(k)' <=> Unpublished(k)  BY <2>1
  <2> HIDE DEF Unpublished, plan, exporting
  <2> QED BY <2>1, <2>2 DEF Hidden
<1>19. ASSUME Crash PROVE Hidden'
  BY <1>19 DEF Crash, Hidden, Shape, TypeOK, Objects
<1>20. CASE UNCHANGED vars
  BY <1>20 DEF vars, Hidden, Shape, TypeOK, Objects
<1> QED
  BY <1>1, <1>2, <1>3, <1>4, <1>5, <1>6, <1>7, <1>8, <1>9,
     <1>10, <1>11, <1>12, <1>13, <1>14, <1>15, <1>16, <1>17, <1>18,
     <1>19, <1>20
  DEF Next

\* Only the job whose array it is makes one, once.
LEMMA NoOtherArray ==
    ASSUME TypeOK, NEW j \in Jobs,
           \/ ReadRow(j) \/ CloneRow(j) \/ DropColumns(j) \/ RewriteRow(j) \/ CopyBack(j)
           \/ EndRewrite(j) \/ EndCompare(j),
           NEW o \in Objects, NEW w \in Jobs,
           w = j => at[j] # "compare" /\ (at[j] = "rewrite" => until[j] # 0)
    PROVE Len(arrays'[o][w]) = Len(arrays[o][w])
<1> USE StoreAssumption DEF Objects, Slices
<1>1. arrays \in [Objects -> [Slices -> Seq(1..Rows)]] /\ w # None  BY DEF TypeOK
<1>2. CASE ReadRow(j) \/ CloneRow(j)
  <2>1. arrays' = [arrays EXCEPT ![j][None] = Append(@, Made(j))]
    BY <1>2 DEF ReadRow, CloneRow, MakeRow
  <2> QED BY <1>1, <2>1
<1>3. CASE DropColumns(j) \/ RewriteRow(j)  BY <1>3 DEF DropColumns, RewriteRow, data
<1>4. CASE CopyBack(j)
  <2> DEFINE p == work[j]
             v == records[work[j]]
             u == surviving[j]
             c == ChunkStart(j)
             s == Over(arrays[p][v], u, c)
  <2>1. until[j] # 0 /\ p \in Objects /\ v \in Slices /\ u \in Seq(1..Rows)
    BY <1>4 DEF CopyBack, PastRows, TypeOK
  <2>2. c \in Int  BY <2>1, ChunksBegin
  <2>3. arrays' = [arrays EXCEPT ![p][v] = s]  BY <1>4, <2>1 DEF CopyBack, TypeOK
  <2>4. Len(s) = Len(arrays[p][v])
    <3> HIDE DEF p, v, u, c
    <3>1. arrays[p][v] \in Seq(1..Rows)  BY <1>1, <2>1
    <3> QED BY <3>1, <2>1, <2>2, CopiedOver
  <2> HIDE DEF s, p, v
  <2> QED BY <1>1, <2>1, <2>3, <2>4
<1>5. CASE EndRewrite(j) \/ EndCompare(j)
  <2>1. w # j  BY <1>5 DEF EndRewrite, EndCompare, PastRows
  <2>2. UNCHANGED arrays \/ \E s : arrays' = [arrays EXCEPT ![work[j]][j] = s]
    BY <1>5 DEF EndRewrite, EndCompare
  <2>3. CASE UNCHANGED arrays  BY <2>3
  <2>4. CASE \E s : arrays' = [arrays EXCEPT ![work[j]][j] = s]
    <3>1. PICK s : arrays' = [arrays EXCEPT ![work[j]][j] = s]  BY <2>4
    <3> QED BY <3>1, <2>1, <1>1
  <2> QED BY <2>2, <2>3, <2>4
<1> QED BY <1>2, <1>3, <1>4, <1>5

\* Nobody goes beyond its array, if arrays only grow and the others stay where they are.
LEMMA LengthsKept ==
    ASSUME TypeOK, TypeOK', Hidden, Lengths, NEW j \in Jobs, UNCHANGED <<kind, held>>,
           \A o \in Objects : \A w \in Slices : Grows(o, w) /\ Len(arrays'[o][w]) <= Rows,
           \A o \in Objects \ {work[j]} : arrays'[o] = arrays[o],
           \A o \in Objects : \A w \in Jobs \ {j} : Len(arrays'[o][w]) = Len(arrays[o][w]),
           \A k \in Jobs \ {j} : at'[k] = at[k] /\ source'[k] = source[k] /\ work'[k] = work[k],
           \A x \in (Jobs \cup Exports) \ {j} :
              taken'[x] = taken[x] /\ until'[x] = until[x] /\ pos'[x] = pos[x],
           JobLengths(j)'
    PROVE Lengths'
<1> USE StoreAssumption DEF Objects, Slices
<1>1. \A o \in Objects : \A w \in Slices :
        /\ arrays[o][w] \in Seq(1..Rows) /\ arrays'[o][w] \in Seq(1..Rows)
        /\ Len(arrays[o][w]) \in Nat /\ Len(arrays'[o][w]) \in Nat
  <2>1. ASSUME NEW o \in Objects, NEW w \in Slices
        PROVE arrays[o][w] \in Seq(1..Rows) /\ arrays'[o][w] \in Seq(1..Rows)
    <3>1. arrays \in [Objects -> [Slices -> Seq(1..Rows)]]  BY DEF TypeOK
    <3>2. arrays' \in [Objects -> [Slices -> Seq(1..Rows)]]  BY ONLY TypeOK' DEF TypeOK
    <3>3. o \in Objects /\ w \in Slices  OBVIOUS
    <3> HIDE DEF Objects, Slices
    <3> QED BY ONLY <3>1, <3>2, <3>3
  <2> QED BY <2>1, LenProperties
<1>2. ASSUME NEW k \in Jobs \ {j} PROVE JobLengths(k)'
  <2>1. JobLengths(k)  BY DEF Lengths
  <2>2. /\ at'[k] = at[k] /\ source'[k] = source[k] /\ work'[k] = work[k] /\ kind'[k] = kind[k]
        /\ taken'[k] = taken[k] /\ until'[k] = until[k] /\ pos'[k] = pos[k]
    OBVIOUS
  <2>3. at[k] \in Early => \A o \in Objects : arrays'[o][k] = <<>>
    <3>1. SUFFICES ASSUME at[k] \in Early, NEW o \in Objects PROVE arrays'[o][k] = <<>>  OBVIOUS
    <3>2. Len(arrays'[o][k]) = Len(arrays[o][k]) /\ arrays[o][k] = <<>>
      BY <2>1, <3>1 DEF JobLengths
    <3> QED BY <3>2, <1>1, EmptySeq
  <2>4. at[k] \in {"read", "clone"} \/ (at[k] = "new" /\ kind[k] \notin InPlace)
        => arrays'[k] = arrays[k]
    BY DEF Hidden, Unpublished
  <2>5. From(k) \in Objects /\ taken[k] \in Slices /\ From(k)' = From(k)
    BY <2>2 DEF From, TypeOK
  <2>6. at[k] \in Walking => until[k] <= Len(arrays'[From(k)][taken[k]])
    <3>1. until[k] \in Nat  BY DEF TypeOK
    <3>2. at[k] \in Walking => until[k] <= Len(arrays[From(k)][taken[k]])  BY <2>1 DEF JobLengths
    <3>3. /\ Len(arrays[From(k)][taken[k]]) <= Len(arrays'[From(k)][taken[k]])
          /\ Len(arrays[From(k)][taken[k]]) \in Nat /\ Len(arrays'[From(k)][taken[k]]) \in Nat
      BY <2>5, <1>1 DEF Grows
    <3> HIDE DEF From
    <3> QED BY ONLY <3>1, <3>2, <3>3
  <2> HIDE DEF From
  <2>7. at'[k] \in Walking => until'[k] <= Len(arrays'[From(k)'][taken'[k]])  BY <2>2, <2>5, <2>6
  <2>8. at[k] \in {"read", "clone"} \/ (at[k] = "new" /\ kind[k] \notin InPlace)
        => arrays'[k][None] = arrays[k][None]
    BY <2>4
  <2>9. at'[k] \in Early => \A o \in Objects : arrays'[o][k] = <<>>  BY <2>2, <2>3
  <2>10. /\ at'[k] = "new" /\ kind'[k] \notin InPlace => arrays'[k][None] = <<>>
         /\ at'[k] = "read" => Len(arrays'[k][None]) < Rows
         /\ at'[k] = "clone" => Len(arrays'[k][None]) = pos'[k] - 1
         /\ at'[k] \in {"new", "read", "put"} => until'[k] = 0
         /\ at'[k] # "rewrite" /\ until'[k] = 0 => pos'[k] = 1
    BY <2>1, <2>2, <2>8 DEF JobLengths
  <2> QED BY ONLY <2>7, <2>9, <2>10 DEF JobLengths, From
<1>3. ASSUME NEW e \in Exports PROVE ExportLengths(e)'
  <2>1. ExportLengths(e) /\ e # j  BY DEF Lengths
  <2>2. /\ held'[e] = held[e] /\ taken'[e] = taken[e] /\ until'[e] = until[e]
        /\ pos'[e] = pos[e]
    BY <2>1
  <2>3. /\ until[e] \in Nat /\ taken[e] \in Slices
        /\ held[e] # None => held[e] \in Objects
    <3>1. held \in [Exports -> Objects \cup {None}] /\ until \in [Jobs \cup Exports -> Nat]
          /\ taken \in [Jobs \cup Exports -> Slices]
      BY DEF TypeOK
    <3>2. held[e] \in Objects \cup {None}  BY <3>1
    <3> QED BY <3>1, <3>2
  <2>4. held[e] # None =>
          /\ Len(arrays[held[e]][taken[e]]) <= Len(arrays'[held[e]][taken[e]])
          /\ Len(arrays[held[e]][taken[e]]) \in Nat /\ Len(arrays'[held[e]][taken[e]]) \in Nat
    BY <2>3, <1>1 DEF Grows
  <2>5. held[e] # None => until[e] <= Len(arrays'[held[e]][taken[e]])
    <3>1. SUFFICES ASSUME held[e] # None PROVE until[e] <= Len(arrays'[held[e]][taken[e]])
      OBVIOUS
    <3>2. until[e] <= Len(arrays[held[e]][taken[e]])  BY ONLY <2>1, <3>1 DEF ExportLengths
    <3> QED BY ONLY <2>3, <2>4, <3>1, <3>2
  <2> QED BY <2>1, <2>2, <2>5 DEF ExportLengths
<1> QED BY <1>2, <1>3 DEF Lengths

\* As if no array is written.
LEMMA LengthsStill ==
    ASSUME TypeOK, TypeOK', Hidden, Lengths, NEW j \in Jobs, UNCHANGED <<arrays, kind, held>>,
           \A k \in Jobs \ {j} : at'[k] = at[k] /\ source'[k] = source[k] /\ work'[k] = work[k],
           \A x \in (Jobs \cup Exports) \ {j} :
              taken'[x] = taken[x] /\ until'[x] = until[x] /\ pos'[x] = pos[x],
           JobLengths(j)'
    PROVE Lengths'
<1>1. ASSUME NEW o \in Objects, NEW w \in Slices PROVE Len(arrays[o][w]) \in Nat
  <2>1. arrays[o][w] \in Seq(1..Rows)  BY DEF TypeOK
  <2> QED BY <2>1, LenProperties
<1>2. \A o \in Objects : \A w \in Slices : Grows(o, w) /\ Len(arrays'[o][w]) <= Rows
  BY <1>1 DEF Grows, Lengths
<1> HIDE DEF JobLengths
<1>3. Jobs \subseteq Slices  BY DEF Slices
<1> QED BY <1>2, <1>3, LengthsKept

\* An export has only its own pass.
LEMMA LengthsOfExport ==
    ASSUME Lengths, NEW e \in Exports, UNCHANGED <<arrays, at, kind, source, work>>,
           \A x \in (Jobs \cup Exports) \ {e} :
              taken'[x] = taken[x] /\ until'[x] = until[x] /\ pos'[x] = pos[x],
           \A x \in Exports \ {e} : held'[x] = held[x],
           ExportLengths(e)'
    PROVE Lengths'
<1>1. ASSUME NEW j \in Jobs PROVE JobLengths(j)'
  <2>1. JobLengths(j) /\ j # e  BY StoreAssumption DEF Lengths
  <2>2. taken'[j] = taken[j] /\ until'[j] = until[j] /\ pos'[j] = pos[j]  BY <2>1
  <2> QED BY <2>1, <2>2 DEF JobLengths, From
<1>2. ASSUME NEW x \in Exports PROVE ExportLengths(x)'
  <2>1. CASE x = e  BY <2>1
  <2>2. CASE x # e
    <3>1. ExportLengths(x)  BY DEF Lengths
    <3>2. /\ taken'[x] = taken[x] /\ until'[x] = until[x] /\ pos'[x] = pos[x]
          /\ held'[x] = held[x]
      BY <2>2
    <3> QED BY <3>1, <3>2 DEF ExportLengths
  <2> QED BY <2>1, <2>2
<1> QED BY <1>1, <1>2 DEF Lengths

\* The rows a job is to make of its dataset fit, and every pass is within its array.
LEMMA LengthsStep ==
    TypeOK /\ TypeOK' /\ Shape /\ Hidden /\ Lengths /\ [Next]_vars => Lengths'
<1> SUFFICES ASSUME TypeOK, TypeOK', Shape, Hidden, Lengths, [Next]_vars PROVE Lengths'  OBVIOUS
<1> USE StoreAssumption DEF plan, data, cleaning, pass, exporting, history
<1>1. ASSUME NEW j \in Jobs, NEW i \in Ids, Start(j, i) PROVE Lengths'
  <2>1. /\ UNCHANGED <<kind, held>>
        /\ \A k \in Jobs \ {j} : at'[k] = at[k] /\ source'[k] = source[k] /\ work'[k] = work[k]
        /\ \A x \in (Jobs \cup Exports) \ {j} :
              taken'[x] = taken[x] /\ until'[x] = until[x] /\ pos'[x] = pos[x]
    BY <1>1 DEF Start, TypeOK
  <2>2. UNCHANGED arrays  BY <1>1 DEF Start
  <2>3. JobLengths(j)'
    <3>1. /\ at[j] = "new" /\ taken' = taken /\ until' = until /\ pos' = pos
          /\ at'[j] \in {"read", "clone", "compare"} \cup CleanFrom
          /\ at'[j] \in {"read", "clone"} => kind[j] \notin InPlace
      <4>1. PICK p \in {"read", "clone", "compare"} \cup CleanFrom :
              /\ at' = [at EXCEPT ![j] = p]
              /\ p \in {"read", "clone"} => kind[j] \notin InPlace
        BY <1>1 DEF Start, Kinds, CleanFrom, InPlace, TypeOK
      <4>2. at'[j] = p  BY <4>1 DEF TypeOK
      <4> QED BY <1>1, <4>1, <4>2 DEF Start
    <3>2. \A o \in Objects : arrays'[o][j] = <<>>
      BY <2>2, <3>1 DEF Lengths, JobLengths, Early
    <3>3. until[j] = 0 /\ pos[j] = 1  BY <3>1 DEF Lengths, JobLengths
    <3>4. From(j)' \in Objects /\ taken'[j] \in Slices  BY DEF From, TypeOK
    <3>5. Len(arrays'[From(j)'][taken'[j]]) \in Nat
      <4>1. arrays'[From(j)'][taken'[j]] \in Seq(1..Rows)  BY <3>4 DEF TypeOK
      <4> QED BY <4>1, LenProperties
    <3>6. at'[j] \in {"read", "clone"} => arrays'[j][None] = <<>>
      BY <2>2, <3>1 DEF Lengths, JobLengths
    <3>7. Len(<<>>) = 0 /\ Rows > 0  OBVIOUS
    <3> HIDE DEF From
    <3> QED BY <3>1, <3>2, <3>3, <3>5, <3>6, <3>7 DEF JobLengths, CleanFrom
  <2> HIDE DEF JobLengths, plan, data, exporting
  <2> QED BY <2>1, <2>2, <2>3, LengthsStill
<1>2. ASSUME NEW j \in Jobs, NEW i \in Ids, NotFound(j, i) PROVE Lengths'
  <2>1. /\ UNCHANGED <<kind, held>>
        /\ \A k \in Jobs \ {j} : at'[k] = at[k] /\ source'[k] = source[k] /\ work'[k] = work[k]
        /\ \A x \in (Jobs \cup Exports) \ {j} :
              taken'[x] = taken[x] /\ until'[x] = until[x] /\ pos'[x] = pos[x]
    BY <1>2 DEF NotFound, TypeOK
  <2>2. UNCHANGED arrays  BY <1>2 DEF NotFound
  <2>3. JobLengths(j)'
    <3>1. at'[j] = "failed" /\ until'[j] = 0 /\ pos'[j] = 1  BY <1>2 DEF NotFound, Lengths,
        JobLengths, TypeOK
    <3> QED BY <3>1 DEF JobLengths, Early, Walking
  <2> HIDE DEF JobLengths, plan, data, exporting
  <2> QED BY <2>1, <2>2, <2>3, LengthsStill
<1>3. ASSUME NEW j \in Jobs, Cancel(j) PROVE Lengths'
  <2>1. /\ UNCHANGED <<kind, held>>
        /\ \A k \in Jobs \ {j} : at'[k] = at[k] /\ source'[k] = source[k] /\ work'[k] = work[k]
        /\ \A x \in (Jobs \cup Exports) \ {j} :
              taken'[x] = taken[x] /\ until'[x] = until[x] /\ pos'[x] = pos[x]
    BY <1>3 DEF Cancel, Leave, TypeOK
  <2>2. UNCHANGED arrays  BY <1>3 DEF Cancel, Leave
  <2>3. JobLengths(j)'
    <3>1. at'[j] = "failed" /\ until'[j] = 0 /\ pos'[j] = 1  BY <1>3 DEF Cancel, Leave, TypeOK
    <3> QED BY <3>1 DEF JobLengths, Early, Walking
  <2> HIDE DEF JobLengths, plan, data, exporting
  <2> QED BY <2>1, <2>2, <2>3, LengthsStill
<1>4. ASSUME NEW j \in Jobs, TakeRows(j) PROVE Lengths'
  <2>1. /\ UNCHANGED <<kind, held>>
        /\ \A k \in Jobs \ {j} : at'[k] = at[k] /\ source'[k] = source[k] /\ work'[k] = work[k]
        /\ \A x \in (Jobs \cup Exports) \ {j} :
              taken'[x] = taken[x] /\ until'[x] = until[x] /\ pos'[x] = pos[x]
    BY <1>4 DEF TakeRows, TypeOK
  <2>2. UNCHANGED arrays  BY <1>4 DEF TakeRows
  <2>3. JobLengths(j)'
    <3>1. /\ at' = at /\ source' = source /\ work' = work /\ kind' = kind /\ pos' = pos
          /\ at[j] \in Walking \cup {"analyze"} /\ pos[j] <= Length(From(j))
          /\ taken'[j] = records[From(j)]
          /\ until'[j] = IF at[j] = "rewrite" /\ pos[j] + Chunk <= Length(From(j))
                         THEN pos[j] + Chunk - 1 ELSE Length(From(j))
      BY <1>4 DEF TakeRows, Walking, TypeOK
    <3>2. From(j) \in Objects /\ records[From(j)] \in Slices /\ pos[j] \in Nat \ {0}
      BY DEF From, TypeOK
    <3>3. Length(From(j)) \in Nat /\ Length(From(j)) = Len(arrays'[From(j)][taken'[j]])
      BY <2>2, <3>1, <3>2, AtARow DEF Length
    <3>4. until'[j] \in Nat \ {0} /\ until'[j] <= Length(From(j))  BY <3>1, <3>2, <3>3
    <3>5. From(j)' = From(j)  BY <3>1 DEF From
    <3>6. JobLengths(j)  BY DEF Lengths
    <3> HIDE DEF From, Length
    <3>7. at[j] \notin {"new", "read", "put"}  BY <3>1 DEF Walking
    <3> QED BY <2>2, <3>1, <3>3, <3>4, <3>5, <3>6, <3>7 DEF JobLengths
  <2> HIDE DEF JobLengths, plan, data, exporting
  <2> QED BY <2>1, <2>2, <2>3, LengthsStill
<1>5. ASSUME NEW j \in Jobs, ReadRow(j) PROVE Lengths'
  <2>1. /\ UNCHANGED <<kind, held>>
        /\ \A k \in Jobs \ {j} : at'[k] = at[k] /\ source'[k] = source[k] /\ work'[k] = work[k]
        /\ \A x \in (Jobs \cup Exports) \ {j} :
              taken'[x] = taken[x] /\ until'[x] = until[x] /\ pos'[x] = pos[x]
    BY <1>5 DEF ReadRow, TypeOK
  <2>9. /\ \A o \in Objects : \A w \in Slices : Grows(o, w) /\ Len(arrays'[o][w]) <= Rows
        /\ \A o \in Objects \ {work[j]} : arrays'[o] = arrays[o]
    BY <1>5, Written
  <2>10. \A o \in Objects : \A w \in Jobs \ {j} : Len(arrays'[o][w]) = Len(arrays[o][w])
    BY <1>5, NoOtherArray
  <2>3. JobLengths(j)'
    <3>1. /\ at[j] = "read" /\ (at'[j] = "analyze" \/ (at'[j] = "read" /\ Made(j) < Rows))
          /\ until' = until /\ pos' = pos
      BY <1>5 DEF ReadRow, TypeOK
    <3>2. \A o \in Objects : arrays'[o][j] = <<>>
      <4>1. ASSUME NEW o \in Objects PROVE arrays'[o][j] = <<>>
        <5>1. Len(arrays'[o][j]) = Len(arrays[o][j])  BY <1>5, <3>1, NoOtherArray
        <5>2. arrays[o][j] = <<>>  BY <3>1 DEF Lengths, JobLengths, Early, Walking
        <5>3. arrays'[o][j] \in Seq(1..Rows)  BY DEF TypeOK, Slices
        <5> QED BY <5>1, <5>2, <5>3, EmptySeq
      <4> QED BY <4>1
    <3>3. /\ arrays'[j][None] = Append(arrays[j][None], Made(j))
          /\ arrays[j][None] \in Seq(1..Rows) /\ Made(j) = Len(arrays[j][None]) + 1
          /\ Len(arrays[j][None]) \in Nat
      <4>1. arrays \in [Objects -> [Slices -> Seq(1..Rows)]]  BY DEF TypeOK
      <4>2. arrays[j][None] \in Seq(1..Rows)  BY <4>1 DEF Objects, Slices
      <4>3. arrays'[j][None] = Append(arrays[j][None], Made(j))
        BY <1>5, <4>1 DEF ReadRow, MakeRow, Objects, Slices
      <4> QED BY <4>2, <4>3, LenProperties DEF Made
    <3>4. Len(arrays'[j][None]) = Made(j)
      <4>1. ASSUME NEW S, NEW s \in Seq(S), NEW x PROVE Len(Append(s, x)) = Len(s) + 1  OBVIOUS
      <4> QED BY <3>3, <4>1
    <3>5. until[j] = 0 /\ pos[j] = 1  BY <3>1 DEF Lengths, JobLengths
    <3> QED BY <3>1, <3>2, <3>4, <3>5 DEF JobLengths, Walking
  <2> HIDE DEF JobLengths, plan, data, exporting
  <2> QED BY <2>1, <2>9, <2>10, <2>3, LengthsKept
<1>6. ASSUME NEW j \in Jobs, CloneRow(j) PROVE Lengths'
  <2>0. /\ UNCHANGED <<kind, held, source, work>> /\ at[j] = "clone" /\ pos[j] <= until[j]
        /\ \/ UNCHANGED at /\ Advance(j)
           \/ Leave(j, 1) /\ \E p \in CleanFrom : at' = [at EXCEPT ![j] = p]
    BY <1>6 DEF CloneRow, AtRow
  <2>1. /\ UNCHANGED <<kind, held>>
        /\ \A k \in Jobs \ {j} : at'[k] = at[k] /\ source'[k] = source[k] /\ work'[k] = work[k]
        /\ \A x \in (Jobs \cup Exports) \ {j} :
              taken'[x] = taken[x] /\ until'[x] = until[x] /\ pos'[x] = pos[x]
    <3>1. CASE UNCHANGED at /\ Advance(j)  BY <2>0, <3>1 DEF Advance, TypeOK
    <3>2. CASE Leave(j, 1) /\ \E p \in CleanFrom : at' = [at EXCEPT ![j] = p]
      BY <2>0, <3>2 DEF Leave, TypeOK
    <3> QED BY <2>0, <3>1, <3>2
  <2>9. /\ \A o \in Objects : \A w \in Slices : Grows(o, w) /\ Len(arrays'[o][w]) <= Rows
        /\ \A o \in Objects \ {work[j]} : arrays'[o] = arrays[o]
    BY <1>6, Written
  <2>10. \A o \in Objects : \A w \in Jobs \ {j} : Len(arrays'[o][w]) = Len(arrays[o][w])
    BY <1>6, NoOtherArray
  <2>3. JobLengths(j)'
    <3>1. /\ at[j] = "clone" /\ at'[j] \in {"clone"} \cup CleanFrom
          /\ source' = source /\ work' = work
      <4>1. CASE UNCHANGED at  BY <2>0, <4>1
      <4>2. CASE \E p \in CleanFrom : at' = [at EXCEPT ![j] = p]  BY <2>0, <4>2 DEF TypeOK
      <4> QED BY <2>0, <4>1, <4>2
    <3>2. \A o \in Objects : arrays'[o][j] = <<>>
      <4>1. ASSUME NEW o \in Objects PROVE arrays'[o][j] = <<>>
        <5>1. Len(arrays'[o][j]) = Len(arrays[o][j])  BY <1>6, <3>1, NoOtherArray
        <5>2. arrays[o][j] = <<>>  BY <3>1 DEF Lengths, JobLengths, Early, Walking
        <5>3. arrays'[o][j] \in Seq(1..Rows)  BY DEF TypeOK, Slices
        <5> QED BY <5>1, <5>2, <5>3, EmptySeq
      <4> QED BY <4>1
    <3>3. /\ arrays'[j][None] = Append(arrays[j][None], Made(j))
          /\ arrays[j][None] \in Seq(1..Rows) /\ Made(j) = Len(arrays[j][None]) + 1
          /\ Len(arrays[j][None]) \in Nat
      <4>1. arrays \in [Objects -> [Slices -> Seq(1..Rows)]]  BY DEF TypeOK
      <4>2. arrays[j][None] \in Seq(1..Rows)  BY <4>1 DEF Objects, Slices
      <4>3. arrays'[j][None] = Append(arrays[j][None], Made(j))
        BY <1>6, <4>1 DEF CloneRow, MakeRow, Objects, Slices
      <4> QED BY <4>2, <4>3, LenProperties DEF Made
    <3>4. Len(arrays'[j][None]) = Made(j)
      <4>1. ASSUME NEW S, NEW s \in Seq(S), NEW x PROVE Len(Append(s, x)) = Len(s) + 1  OBVIOUS
      <4> QED BY <3>3, <4>1
    <3>5. CASE at'[j] = "clone"
      <4>1. pos'[j] = pos[j] + 1 /\ until' = until /\ taken' = taken /\ until[j] # 0
        BY <2>0, <3>5 DEF Advance, CleanFrom, TypeOK
      <4>2. Len(arrays[j][None]) = pos[j] - 1 /\ pos[j] \in Nat
        BY <3>1 DEF Lengths, JobLengths, TypeOK
      <4>3. From(j) = source[j] /\ From(j)' = source[j]  BY <3>1, <3>5 DEF From
      <4>4. until[j] <= Len(arrays'[source[j]][taken[j]])
        <5>1. source[j] \in Objects /\ taken[j] \in Slices /\ until[j] \in Nat  BY DEF TypeOK
        <5>2. until[j] <= Len(arrays[source[j]][taken[j]])
          BY <3>1, <4>3 DEF Lengths, JobLengths, Walking
        <5>3. /\ Len(arrays[source[j]][taken[j]]) \in Nat
              /\ Len(arrays'[source[j]][taken[j]]) \in Nat
          <6>1. arrays \in [Objects -> [Slices -> Seq(1..Rows)]]  BY DEF TypeOK
          <6>2. arrays' \in [Objects -> [Slices -> Seq(1..Rows)]]  BY DEF TypeOK
          <6>3. /\ arrays[source[j]][taken[j]] \in Seq(1..Rows)
                /\ arrays'[source[j]][taken[j]] \in Seq(1..Rows)
            BY <5>1, <6>1, <6>2
          <6> QED BY <6>3, LenProperties
        <5>4. Len(arrays[source[j]][taken[j]]) <= Len(arrays'[source[j]][taken[j]])
          BY <2>9, <5>1 DEF Grows
        <5> QED BY ONLY <5>1, <5>2, <5>3, <5>4
      <4>5. until'[j] # 0 /\ Len(arrays'[j][None]) = pos'[j] - 1
        BY <3>3, <3>4, <4>1, <4>2
      <4> HIDE DEF From
      <4> QED BY <3>1, <3>2, <3>5, <4>1, <4>3, <4>4, <4>5 DEF JobLengths
    <3>6. CASE at'[j] \in CleanFrom
      <4>1. until'[j] = 0 /\ pos'[j] = 1
        BY <2>0, <3>1, <3>6 DEF Leave, CleanFrom, TypeOK
      <4>2. From(j)' \in Objects /\ taken'[j] \in Slices  BY DEF From, TypeOK
      <4>3. Len(arrays'[From(j)'][taken'[j]]) \in Nat
        <5>1. arrays'[From(j)'][taken'[j]] \in Seq(1..Rows)  BY <4>2 DEF TypeOK
        <5> QED BY <5>1, LenProperties
      <4> HIDE DEF From
      <4> QED BY <3>2, <3>6, <4>1, <4>3 DEF JobLengths, CleanFrom
    <3> QED BY <3>1, <3>5, <3>6
  <2> HIDE DEF JobLengths, plan, data, exporting
  <2> QED BY <2>1, <2>9, <2>10, <2>3, LengthsKept
<1>7. ASSUME NEW j \in Jobs, DropColumns(j) PROVE Lengths'
  <2>1. /\ UNCHANGED <<kind, held>>
        /\ \A k \in Jobs \ {j} : at'[k] = at[k] /\ source'[k] = source[k] /\ work'[k] = work[k]
        /\ \A x \in (Jobs \cup Exports) \ {j} :
              taken'[x] = taken[x] /\ until'[x] = until[x] /\ pos'[x] = pos[x]
    BY <1>7 DEF DropColumns, Advance, TypeOK
  <2>2. UNCHANGED arrays  BY <1>7 DEF DropColumns, Advance
  <2>3. JobLengths(j)'
    <3>1. /\ at' = at /\ source' = source /\ work' = work /\ kind' = kind /\ at[j] = "columns"
          /\ taken' = taken /\ until' = until /\ until[j] # 0
      BY <1>7 DEF DropColumns, AtRow, Advance, TypeOK
    <3>2. JobLengths(j)  BY DEF Lengths
    <3>3. From(j)' = From(j)  BY <3>1 DEF From
    <3> HIDE DEF From
    <3> QED BY <2>2, <3>1, <3>2, <3>3 DEF JobLengths, Early, Walking
  <2> HIDE DEF JobLengths, plan, data, exporting
  <2> QED BY <2>1, <2>2, <2>3, LengthsStill
<1>8. ASSUME NEW j \in Jobs, ReplaceColumns(j) PROVE Lengths'
  <2>1. /\ UNCHANGED <<kind, held>>
        /\ \A k \in Jobs \ {j} : at'[k] = at[k] /\ source'[k] = source[k] /\ work'[k] = work[k]
        /\ \A x \in (Jobs \cup Exports) \ {j} :
              taken'[x] = taken[x] /\ until'[x] = until[x] /\ pos'[x] = pos[x]
    BY <1>8 DEF ReplaceColumns, Leave, TypeOK
  <2>2. UNCHANGED arrays  BY <1>8 DEF ReplaceColumns, Leave
  <2>3. JobLengths(j)'
    <3>1. at[j] = "columns" /\ at'[j] = "rewrite" /\ until'[j] = 0
      BY <1>8 DEF ReplaceColumns, PastRows, Leave, TypeOK
    <3>2. \A o \in Objects : arrays'[o][j] = <<>>
      BY <2>2, <3>1 DEF Lengths, JobLengths, Early, Walking
    <3>3. From(j)' \in Objects /\ taken'[j] \in Slices  BY DEF From, TypeOK
    <3>4. Len(arrays'[From(j)'][taken'[j]]) \in Nat
      <4>1. arrays'[From(j)'][taken'[j]] \in Seq(1..Rows)  BY <3>3 DEF TypeOK
      <4> QED BY <4>1, LenProperties
    <3> HIDE DEF From
    <3> QED BY <3>1, <3>2, <3>4 DEF JobLengths
  <2> HIDE DEF JobLengths, plan, data, exporting
  <2> QED BY <2>1, <2>2, <2>3, LengthsStill
<1>9. ASSUME NEW j \in Jobs, RewriteRow(j) PROVE Lengths'
  <2>1. /\ UNCHANGED <<kind, held>>
        /\ \A k \in Jobs \ {j} : at'[k] = at[k] /\ source'[k] = source[k] /\ work'[k] = work[k]
        /\ \A x \in (Jobs \cup Exports) \ {j} :
              taken'[x] = taken[x] /\ until'[x] = until[x] /\ pos'[x] = pos[x]
    BY <1>9 DEF RewriteRow, Advance, TypeOK
  <2>2. UNCHANGED arrays  BY <1>9 DEF RewriteRow, Advance
  <2>3. JobLengths(j)'
    <3>1. /\ at' = at /\ source' = source /\ work' = work /\ kind' = kind /\ at[j] = "rewrite"
          /\ taken' = taken /\ until' = until /\ until[j] # 0
      BY <1>9 DEF RewriteRow, AtRow, Advance, TypeOK
    <3>2. JobLengths(j)  BY DEF Lengths
    <3>3. From(j)' = From(j)  BY <3>1 DEF From
    <3> HIDE DEF From
    <3> QED BY <2>2, <3>1, <3>2, <3>3 DEF JobLengths, Early, Walking
  <2> HIDE DEF JobLengths, plan, data, exporting
  <2> QED BY <2>1, <2>2, <2>3, LengthsStill
<1>10. ASSUME NEW j \in Jobs, CopyBack(j) PROVE Lengths'
  <2>1. /\ UNCHANGED <<kind, held>>
        /\ \A k \in Jobs \ {j} : at'[k] = at[k] /\ source'[k] = source[k] /\ work'[k] = work[k]
        /\ \A x \in (Jobs \cup Exports) \ {j} :
              taken'[x] = taken[x] /\ until'[x] = until[x] /\ pos'[x] = pos[x]
    BY <1>10 DEF CopyBack, Leave, TypeOK
  <2>9. /\ \A o \in Objects : \A w \in Slices : Grows(o, w) /\ Len(arrays'[o][w]) <= Rows
        /\ \A o \in Objects \ {work[j]} : arrays'[o] = arrays[o]
    BY <1>10, Written
  <2>10. \A o \in Objects : \A w \in Jobs \ {j} : Len(arrays'[o][w]) = Len(arrays[o][w])
    BY <1>10, NoOtherArray
  <2>3. JobLengths(j)'
    <3>1. at[j] = "rewrite" /\ at'[j] = "rewrite" /\ until'[j] = 0 /\ until[j] # 0
      BY <1>10 DEF CopyBack, PastRows, Leave, TypeOK
    <3>2. \A o \in Objects : arrays'[o][j] = <<>>
      <4>1. ASSUME NEW o \in Objects PROVE arrays'[o][j] = <<>>
        <5>1. Len(arrays'[o][j]) = Len(arrays[o][j])  BY <1>10, <3>1, NoOtherArray
        <5>2. arrays[o][j] = <<>>  BY <3>1 DEF Lengths, JobLengths, Early, Walking
        <5>3. arrays'[o][j] \in Seq(1..Rows)  BY DEF TypeOK, Slices
        <5> QED BY <5>1, <5>2, <5>3, EmptySeq
      <4> QED BY <4>1
    <3>3. From(j)' \in Objects /\ taken'[j] \in Slices  BY DEF From, TypeOK
    <3>4. Len(arrays'[From(j)'][taken'[j]]) \in Nat
      <4>1. arrays'[From(j)'][taken'[j]] \in Seq(1..Rows)  BY <3>3 DEF TypeOK
      <4> QED BY <4>1, LenProperties
    <3> HIDE DEF From
    <3> QED BY <3>1, <3>2, <3>4 DEF JobLengths
  <2> HIDE DEF JobLengths, plan, data, exporting
  <2> QED BY <2>1, <2>9, <2>10, <2>3, LengthsKept
<1>11. ASSUME NEW j \in Jobs, EndRewrite(j) PROVE Lengths'
  <2>0. /\ UNCHANGED <<kind, held, source, work, until>> /\ pos' = [pos EXCEPT ![j] = 1]
        /\ (\E p \in {"put", "replace"} : at' = [at EXCEPT ![j] = p])
        /\ taken' = [taken EXCEPT ![j] = j] \/ taken' = taken
    BY <1>11 DEF EndRewrite
  <2>1. /\ UNCHANGED <<kind, held>>
        /\ \A k \in Jobs \ {j} : at'[k] = at[k] /\ source'[k] = source[k] /\ work'[k] = work[k]
        /\ \A x \in (Jobs \cup Exports) \ {j} :
              taken'[x] = taken[x] /\ until'[x] = until[x] /\ pos'[x] = pos[x]
    BY <2>0 DEF TypeOK
  <2>9. /\ \A o \in Objects : \A w \in Slices : Grows(o, w) /\ Len(arrays'[o][w]) <= Rows
        /\ \A o \in Objects \ {work[j]} : arrays'[o] = arrays[o]
    BY <1>11, Written
  <2>10. \A o \in Objects : \A w \in Jobs \ {j} : Len(arrays'[o][w]) = Len(arrays[o][w])
    BY <1>11, NoOtherArray
  <2>3. JobLengths(j)'
    <3>1. at'[j] \in {"replace", "put"} /\ until'[j] = 0 /\ pos'[j] = 1
      BY <1>11 DEF EndRewrite, TypeOK
    <3> QED BY <3>1 DEF JobLengths, Early, Walking
  <2> HIDE DEF JobLengths, plan, data, exporting
  <2> QED BY <2>1, <2>9, <2>10, <2>3, LengthsKept
<1>12. ASSUME NEW j \in Jobs, CompareRow(j) \/ AnalyzeRow(j)
      PROVE Lengths'
  <2>1. /\ UNCHANGED <<kind, held>>
        /\ \A k \in Jobs \ {j} : at'[k] = at[k] /\ source'[k] = source[k] /\ work'[k] = work[k]
        /\ \A x \in (Jobs \cup Exports) \ {j} :
              taken'[x] = taken[x] /\ until'[x] = until[x] /\ pos'[x] = pos[x]
    BY <1>12 DEF CompareRow, AnalyzeRow, Advance, TypeOK
  <2>2. UNCHANGED arrays  BY <1>12 DEF CompareRow, AnalyzeRow, Advance
  <2>3. JobLengths(j)'
    <3>1. /\ at' = at /\ source' = source /\ work' = work /\ kind' = kind /\ at[j] \in {"compare", "analyze"}
          /\ taken' = taken /\ until' = until /\ until[j] # 0
      BY <1>12 DEF CompareRow, AnalyzeRow, AtRow, Advance, TypeOK
    <3>2. JobLengths(j)  BY DEF Lengths
    <3>3. From(j)' = From(j)  BY <3>1 DEF From
    <3> HIDE DEF From
    <3> QED BY <2>2, <3>1, <3>2, <3>3 DEF JobLengths, Early, Walking
  <2> HIDE DEF JobLengths, plan, data, exporting
  <2> QED BY <2>1, <2>2, <2>3, LengthsStill
<1>13. ASSUME NEW j \in Jobs, EndCompare(j) PROVE Lengths'
  <2>1. /\ UNCHANGED <<kind, held>>
        /\ \A k \in Jobs \ {j} : at'[k] = at[k] /\ source'[k] = source[k] /\ work'[k] = work[k]
        /\ \A x \in (Jobs \cup Exports) \ {j} :
              taken'[x] = taken[x] /\ until'[x] = until[x] /\ pos'[x] = pos[x]
    BY <1>13 DEF EndCompare, TypeOK
  <2>9. /\ \A o \in Objects : \A w \in Slices : Grows(o, w) /\ Len(arrays'[o][w]) <= Rows
        /\ \A o \in Objects \ {work[j]} : arrays'[o] = arrays[o]
    BY <1>13, Written
  <2>10. \A o \in Objects : \A w \in Jobs \ {j} : Len(arrays'[o][w]) = Len(arrays[o][w])
    BY <1>13, NoOtherArray
  <2>3. JobLengths(j)'
    <3>1. at'[j] = "replace" /\ until'[j] # 0  BY <1>13 DEF EndCompare, PastRows, TypeOK
    <3> QED BY <3>1 DEF JobLengths, Early, Walking
  <2> HIDE DEF JobLengths, plan, data, exporting
  <2> QED BY <2>1, <2>9, <2>10, <2>3, LengthsKept
<1>14. ASSUME NEW j \in Jobs, KeepAll(j) PROVE Lengths'
  <2>1. /\ UNCHANGED <<kind, held>>
        /\ \A k \in Jobs \ {j} : at'[k] = at[k] /\ source'[k] = source[k] /\ work'[k] = work[k]
        /\ \A x \in (Jobs \cup Exports) \ {j} :
              taken'[x] = taken[x] /\ until'[x] = until[x] /\ pos'[x] = pos[x]
    BY <1>14 DEF KeepAll, TypeOK
  <2>2. UNCHANGED arrays  BY <1>14 DEF KeepAll
  <2>3. JobLengths(j)'
    <3>1. at'[j] = "replace" /\ until'[j] # 0  BY <1>14 DEF KeepAll, AtRow, TypeOK
    <3> QED BY <3>1 DEF JobLengths, Early, Walking
  <2> HIDE DEF JobLengths, plan, data, exporting
  <2> QED BY <2>1, <2>2, <2>3, LengthsStill
<1>15. ASSUME NEW j \in Jobs, ReplaceRecords(j) PROVE Lengths'
  <2>1. /\ UNCHANGED <<kind, held>>
        /\ \A k \in Jobs \ {j} : at'[k] = at[k] /\ source'[k] = source[k] /\ work'[k] = work[k]
        /\ \A x \in (Jobs \cup Exports) \ {j} :
              taken'[x] = taken[x] /\ until'[x] = until[x] /\ pos'[x] = pos[x]
    BY <1>15 DEF ReplaceRecords, Replace, Leave, TypeOK
  <2>2. UNCHANGED arrays  BY <1>15 DEF ReplaceRecords, Replace, Leave
  <2>3. JobLengths(j)'
    <3>1. at'[j] = "put" /\ until'[j] = 0 /\ pos'[j] = 1  BY <1>15 DEF ReplaceRecords, Leave,
        TypeOK
    <3> QED BY <3>1 DEF JobLengths, Early, Walking
  <2> HIDE DEF JobLengths, plan, data, exporting
  <2> QED BY <2>1, <2>2, <2>3, LengthsStill
<1>16. ASSUME NEW j \in Jobs, Put(j) PROVE Lengths'
  <2>1. /\ UNCHANGED <<kind, held>>
        /\ \A k \in Jobs \ {j} : at'[k] = at[k] /\ source'[k] = source[k] /\ work'[k] = work[k]
        /\ \A x \in (Jobs \cup Exports) \ {j} :
              taken'[x] = taken[x] /\ until'[x] = until[x] /\ pos'[x] = pos[x]
    BY <1>16 DEF Put, Leave, TypeOK
  <2>2. UNCHANGED arrays  BY <1>16 DEF Put, Leave
  <2>3. JobLengths(j)'
    <3>1. at'[j] = "analyze" /\ until'[j] = 0 /\ pos'[j] = 1  BY <1>16 DEF Put, Leave, TypeOK
    <3> QED BY <3>1 DEF JobLengths, Early, Walking
  <2> HIDE DEF JobLengths, plan, data, exporting
  <2> QED BY <2>1, <2>2, <2>3, LengthsStill
<1>17. ASSUME NEW j \in Jobs, Save(j) PROVE Lengths'
  <2>1. /\ UNCHANGED <<kind, held>>
        /\ \A k \in Jobs \ {j} : at'[k] = at[k] /\ source'[k] = source[k] /\ work'[k] = work[k]
        /\ \A x \in (Jobs \cup Exports) \ {j} :
              taken'[x] = taken[x] /\ until'[x] = until[x] /\ pos'[x] = pos[x]
    BY <1>17 DEF Save, Leave, TypeOK
  <2>2. UNCHANGED arrays  BY <1>17 DEF Save, Leave
  <2>3. JobLengths(j)'
    <3>1. at'[j] = "done" /\ until'[j] = 0 /\ pos'[j] = 1  BY <1>17 DEF Save, Leave, TypeOK
    <3> QED BY <3>1 DEF JobLengths, Early, Walking
  <2> HIDE DEF JobLengths, plan, data, exporting
  <2> QED BY <2>1, <2>2, <2>3, LengthsStill
<1>18. ASSUME NEW j \in Jobs, Panic(j) PROVE Lengths'
  <2>1. UNCHANGED <<arrays, at, kind, source, work, taken, until, pos, held>>  BY <1>18 DEF Panic
  <2> QED BY <2>1 DEF Lengths, JobLengths, ExportLengths, From
<1>19. ASSUME NEW e \in Exports, NEW i \in Ids, Open(e, i) PROVE Lengths'
  <2>1. /\ UNCHANGED <<arrays, at, kind, source, work>>
        /\ \A x \in (Jobs \cup Exports) \ {e} :
              taken'[x] = taken[x] /\ until'[x] = until[x] /\ pos'[x] = pos[x]
        /\ \A x \in Exports \ {e} : held'[x] = held[x]
    BY <1>19 DEF Open, TypeOK
  <2>2. ExportLengths(e)'
    <3>1. held[e] = None /\ held'[e] = datasets[i] /\ datasets[i] \in Objects
      BY <1>19 DEF Open, TypeOK
    <3>2. until'[e] = 0 /\ pos'[e] = 1  BY <1>19, <3>1 DEF Open, Lengths, ExportLengths
    <3>3. taken'[e] \in Slices  BY DEF TypeOK
    <3>4. Len(arrays'[held'[e]][taken'[e]]) \in Nat
      <4>1. arrays'[held'[e]][taken'[e]] \in Seq(1..Rows)  BY <3>1, <3>3 DEF TypeOK
      <4> QED BY <4>1, LenProperties
    <3> QED BY <3>2, <3>4 DEF ExportLengths
  <2> HIDE DEF ExportLengths, plan, data, exporting
  <2> QED BY <2>1, <2>2, LengthsOfExport
<1>20. ASSUME NEW e \in Exports, NEW j \in Jobs, RangeTorn(e, j) PROVE Lengths'
  <2>1. /\ UNCHANGED <<arrays, at, kind, source, work>>
        /\ \A x \in (Jobs \cup Exports) \ {e} :
              taken'[x] = taken[x] /\ until'[x] = until[x] /\ pos'[x] = pos[x]
        /\ \A x \in Exports \ {e} : held'[x] = held[x]
    BY <1>20 DEF RangeTorn, TypeOK
  <2>2. ExportLengths(e)'
    <3> DEFINE n == Len(arrays[work[j]][taken[j]])
    <3>1. /\ held[e] # None /\ until[e] = 0 /\ until'[e] = n /\ n < Length(work[j])
          /\ work[j] = held[e] /\ taken'[e] = records[held[e]] /\ held' = held /\ pos' = pos
      BY <1>20 DEF RangeTorn, TypeOK
    <3>2. work[j] \in Objects /\ records[work[j]] \in Slices /\ taken[j] \in Slices
      BY DEF TypeOK
    <3>3. Length(work[j]) \in Nat /\ n \in Nat  BY <3>2, AtARow DEF Length
    <3>4. pos[e] = 1  BY <3>1 DEF Lengths, ExportLengths
    <3> HIDE DEF n
    <3> QED BY <2>1, <3>1, <3>3, <3>4 DEF ExportLengths, Length
  <2> HIDE DEF ExportLengths, plan, data, exporting
  <2> QED BY <2>1, <2>2, LengthsOfExport
<1>21. ASSUME NEW e \in Exports, RangeOver(e) PROVE Lengths'
  <2>1. /\ UNCHANGED <<arrays, at, kind, source, work>>
        /\ \A x \in (Jobs \cup Exports) \ {e} :
              taken'[x] = taken[x] /\ until'[x] = until[x] /\ pos'[x] = pos[x]
        /\ \A x \in Exports \ {e} : held'[x] = held[x]
    BY <1>21 DEF RangeOver, TypeOK
  <2>2. ExportLengths(e)'
    <3>1. /\ held[e] # None /\ until[e] = 0 /\ until'[e] = Length(held[e])
          /\ taken'[e] = records[held[e]] /\ held' = held /\ pos' = pos
      BY <1>21 DEF RangeOver, TypeOK
    <3>2. held[e] \in Objects /\ records[held[e]] \in Slices  BY <3>1 DEF TypeOK
    <3>3. Length(held[e]) \in Nat  BY <3>2, AtARow DEF Length
    <3>4. pos[e] = 1  BY <3>1 DEF Lengths, ExportLengths
    <3> QED BY <2>1, <3>1, <3>3, <3>4 DEF ExportLengths, Length
  <2> HIDE DEF ExportLengths, plan, data, exporting
  <2> QED BY <2>1, <2>2, LengthsOfExport
<1>22. ASSUME NEW e \in Exports, ExportRow(e) PROVE Lengths'
  <2>1. /\ UNCHANGED <<arrays, at, kind, source, work>>
        /\ \A x \in (Jobs \cup Exports) \ {e} :
              taken'[x] = taken[x] /\ until'[x] = until[x] /\ pos'[x] = pos[x]
        /\ \A x \in Exports \ {e} : held'[x] = held[x]
    BY <1>22 DEF ExportRow, Advance, TypeOK
  <2>2. ExportLengths(e)'
    <3>1. /\ pos[e] <= until[e] /\ until' = until /\ held' = held /\ taken' = taken
          /\ pos'[e] = pos[e] + 1 /\ pos[e] \in Nat \ {0} /\ until[e] \in Nat
      BY <1>22 DEF ExportRow, Advance, TypeOK
    <3> QED BY <2>1, <3>1 DEF ExportLengths, Lengths
  <2> HIDE DEF ExportLengths, plan, data, exporting
  <2> QED BY <2>1, <2>2, LengthsOfExport
<1>23. ASSUME NEW e \in Exports, Close(e) PROVE Lengths'
  <2>1. /\ UNCHANGED <<arrays, at, kind, source, work>>
        /\ \A x \in (Jobs \cup Exports) \ {e} :
              taken'[x] = taken[x] /\ until'[x] = until[x] /\ pos'[x] = pos[x]
        /\ \A x \in Exports \ {e} : held'[x] = held[x]
    BY <1>23 DEF Close, Leave, TypeOK
  <2>2. ExportLengths(e)'
    <3>1. held'[e] = None /\ until'[e] = 0 /\ pos'[e] = 1  BY <1>23 DEF Close, Leave, TypeOK
    <3> QED BY <3>1 DEF ExportLengths
  <2> HIDE DEF ExportLengths, plan, data, exporting
  <2> QED BY <2>1, <2>2, LengthsOfExport
<1>24. CASE Crash \/ UNCHANGED vars
  <2>1. UNCHANGED <<arrays, at, kind, source, work, taken, until, pos, held>>  BY <1>24 DEF Crash, vars
  <2> QED BY <2>1 DEF Lengths, JobLengths, ExportLengths, From
<1> QED
  BY <1>1, <1>2, <1>3, <1>4, <1>5, <1>6, <1>7, <1>8, <1>9,
     <1>10, <1>11, <1>12, <1>13, <1>14, <1>15, <1>16, <1>17, <1>18,
     <1>19, <1>20, <1>21, <1>22, <1>23, <1>24
  DEF Next

-----------------------------------------------------------------------------
(* Jobs on one id                                                          *)

\* A job writes to the dataset it works on, and to no other.
LEMMA ItsOwnOnly ==
    ASSUME TypeOK, Shape, Lengths, NEW j \in Jobs,
           \/ Cancel(j) \/ TakeRows(j) \/ ReadRow(j) \/ CloneRow(j) \/ DropColumns(j)
           \/ ReplaceColumns(j) \/ RewriteRow(j) \/ CopyBack(j) \/ EndRewrite(j) \/ CompareRow(j)
           \/ EndCompare(j) \/ KeepAll(j) \/ ReplaceRecords(j) \/ Put(j) \/ AnalyzeRow(j)
           \/ Save(j) \/ Panic(j)
    PROVE /\ \A o \in Objects \ {work[j]} :
                arrays'[o] = arrays[o] /\ rows'[o] = rows[o] /\ records'[o] = records[o]
          /\ UNCHANGED <<to, source, work, kind>>
<1> USE DEF data, plan
<1>1. CASE Cancel(j)  BY <1>1 DEF Cancel
<1>2. CASE TakeRows(j)  BY <1>2 DEF TakeRows
<1>3. CASE ReadRow(j)  BY <1>3, Written DEF ReadRow, MakeRow
<1>4. CASE CloneRow(j)  BY <1>4, Written DEF CloneRow, MakeRow
<1>5. CASE DropColumns(j)  BY <1>5, Written DEF DropColumns, MakeRow
<1>6. CASE ReplaceColumns(j)  BY <1>6 DEF ReplaceColumns
<1>7. CASE RewriteRow(j)  BY <1>7, Written DEF RewriteRow, MakeRow
<1>8. CASE CopyBack(j)  BY <1>8, Written DEF CopyBack, MakeRow
<1>9. CASE EndRewrite(j)  BY <1>9, Written DEF EndRewrite, MakeRow
<1>10. CASE CompareRow(j)  BY <1>10 DEF CompareRow
<1>11. CASE EndCompare(j)  BY <1>11, Written DEF EndCompare, MakeRow
<1>12. CASE KeepAll(j)  BY <1>12 DEF KeepAll
<1>13. CASE ReplaceRecords(j)  BY <1>13 DEF ReplaceRecords, Replace, TypeOK
<1>14. CASE Put(j)  BY <1>14 DEF Put
<1>15. CASE AnalyzeRow(j)  BY <1>15 DEF AnalyzeRow
<1>16. CASE Save(j)  BY <1>16 DEF Save
<1>17. CASE Panic(j)  BY <1>17 DEF Panic
<1> QED
  BY <1>1, <1>2, <1>3, <1>4, <1>5, <1>6, <1>7, <1>8, <1>9,
     <1>10, <1>11, <1>12, <1>13, <1>14, <1>15, <1>16, <1>17

\* Jobs that go on from running, or end, meet nobody new.
LEMMA ContentionKept ==
    ASSUME Contention, UNCHANGED to, contested \subseteq contested',
           \A k \in Jobs : Running(k)' => Running(k),
           \A k \in Jobs : at'[k] = "done" => Running(k) \/ at[k] = "done"
    PROVE Contention'
BY DEF Contention

LEMMA ContentionStep == TypeOK /\ Contention /\ [Next]_vars => Contention'
<1> SUFFICES ASSUME TypeOK, Contention, [Next]_vars PROVE Contention'  OBVIOUS
<1> USE StoreAssumption DEF plan, data, cleaning, pass, exporting, history
<1>1. ASSUME NEW j \in Jobs, NEW i \in Ids, Start(j, i) PROVE Contention'
  <2>1. /\ UNCHANGED to /\ ~Running(j) /\ at[j] # "done"
        /\ contested' = contested \cup Onto(to[j])
              \cup (IF \E k \in Onto(to[j]) : Running(k) THEN {j} ELSE {})
        /\ \A k \in Jobs \ {j} : at'[k] = at[k]
    BY <1>1 DEF Start, Running, TypeOK
  <2>2. SUFFICES ASSUME NEW x \in Jobs, NEW y \in Jobs, x # y, to[x] = to[y], Running(y)',
                        Running(x)' \/ at'[x] = "done"
                 PROVE x \in contested'
    BY <2>1 DEF Contention
  <2>3. CASE x = j
    <3>1. y \in Onto(to[j]) /\ Running(y)  BY <2>1, <2>2, <2>3 DEF Onto, Running
    <3> QED BY <2>1, <2>3, <3>1
  <2>4. CASE y = j
    <3>1. x \in Onto(to[j])  BY <2>1, <2>2, <2>4 DEF Onto, Running
    <3> QED BY <2>1, <3>1
  <2>5. CASE x # j /\ y # j
    <3>1. Running(y) /\ (Running(x) \/ at[x] = "done")  BY <2>1, <2>2, <2>5 DEF Running
    <3>2. x \in contested  BY <2>2, <3>1 DEF Contention
    <3> QED BY <2>1, <3>2
  <2> QED BY <2>3, <2>4, <2>5
<1>2. ASSUME NEW j \in Jobs, NEW i \in Ids, NotFound(j, i) PROVE Contention'
  <2>1. UNCHANGED to /\ contested' = contested  BY <1>2 DEF NotFound
  <2>2. \A k \in Jobs : Running(k)' => Running(k)
    BY <1>2 DEF NotFound, Running, TypeOK
  <2>3. \A k \in Jobs : at'[k] = "done" => Running(k) \/ at[k] = "done"
    BY <1>2 DEF NotFound, Running, TypeOK
  <2> HIDE DEF plan, history
  <2> QED BY <2>1, <2>2, <2>3, ContentionKept
<1>3. ASSUME NEW j \in Jobs, Cancel(j) \/ TakeRows(j) \/ ReadRow(j) \/ DropColumns(j)
      PROVE Contention'
  <2>1. UNCHANGED to /\ contested' = contested  BY <1>3 DEF Cancel, TakeRows, ReadRow,
      DropColumns
  <2>2. \A k \in Jobs : Running(k)' => Running(k)
    BY <1>3 DEF Cancel, TakeRows, ReadRow, DropColumns, Leave, ForgetRows, MakeRow, AtRow,
        WriteRow, Advance, Disturb, Running, TypeOK
  <2>3. \A k \in Jobs : at'[k] = "done" => Running(k) \/ at[k] = "done"
    BY <1>3 DEF Cancel, TakeRows, ReadRow, DropColumns, Leave, ForgetRows, MakeRow, AtRow,
        WriteRow, Advance, Disturb, Running, TypeOK
  <2> HIDE DEF plan, history
  <2> QED BY <2>1, <2>2, <2>3, ContentionKept
<1>4. ASSUME NEW j \in Jobs, CloneRow(j) PROVE Contention'
  <2>0. at' = at \/ \E p \in CleanFrom : at' = [at EXCEPT ![j] = p]  BY <1>4 DEF CloneRow
  <2>1. UNCHANGED to /\ contested' = contested  BY <1>4 DEF CloneRow
  <2>2. \A k \in Jobs : Running(k)' => Running(k)
    BY <1>4, <2>0 DEF CloneRow, AtRow, MakeRow, Advance, Leave, Running, TypeOK, CleanFrom
  <2>3. \A k \in Jobs : at'[k] = "done" => Running(k) \/ at[k] = "done"
    BY <1>4, <2>0 DEF CloneRow, AtRow, MakeRow, Advance, Leave, Running, TypeOK, CleanFrom
  <2> HIDE DEF plan, history
  <2> QED BY <2>1, <2>2, <2>3, ContentionKept
<1>5. ASSUME NEW j \in Jobs, ReplaceColumns(j) \/ RewriteRow(j) \/ CopyBack(j) \/ CompareRow(j)
      PROVE Contention'
  <2>1. UNCHANGED to /\ contested' = contested  BY <1>5 DEF ReplaceColumns, RewriteRow,
      CopyBack, CompareRow
  <2>2. \A k \in Jobs : Running(k)' => Running(k)
    BY <1>5 DEF ReplaceColumns, RewriteRow, CopyBack, CompareRow, PastRows, Leave, Disturb,
        AtRow, WriteRow, Advance, Running, TypeOK
  <2>3. \A k \in Jobs : at'[k] = "done" => Running(k) \/ at[k] = "done"
    BY <1>5 DEF ReplaceColumns, RewriteRow, CopyBack, CompareRow, PastRows, Leave, Disturb,
        AtRow, WriteRow, Advance, Running, TypeOK
  <2> HIDE DEF plan, history
  <2> QED BY <2>1, <2>2, <2>3, ContentionKept
<1>6. ASSUME NEW j \in Jobs, EndRewrite(j) PROVE Contention'
  <2>0. \E p \in {"put", "replace"} : at' = [at EXCEPT ![j] = p]  BY <1>6 DEF EndRewrite
  <2>1. UNCHANGED to /\ contested' = contested  BY <1>6 DEF EndRewrite
  <2>2. \A k \in Jobs : Running(k)' => Running(k)
    BY <1>6, <2>0 DEF EndRewrite, ForgetRows, Running, TypeOK, CleanFrom
  <2>3. \A k \in Jobs : at'[k] = "done" => Running(k) \/ at[k] = "done"
    BY <1>6, <2>0 DEF EndRewrite, ForgetRows, Running, TypeOK, CleanFrom
  <2> HIDE DEF plan, history
  <2> QED BY <2>1, <2>2, <2>3, ContentionKept
<1>7. ASSUME NEW j \in Jobs, EndCompare(j) \/ KeepAll(j) \/ ReplaceRecords(j) \/ Put(j)
      PROVE Contention'
  <2>1. UNCHANGED to /\ contested' = contested  BY <1>7 DEF EndCompare, KeepAll,
      ReplaceRecords, Put
  <2>2. \A k \in Jobs : Running(k)' => Running(k)
    BY <1>7 DEF EndCompare, KeepAll, ReplaceRecords, Put, PastRows, AtRow, Replace, Leave,
        Running, TypeOK
  <2>3. \A k \in Jobs : at'[k] = "done" => Running(k) \/ at[k] = "done"
    BY <1>7 DEF EndCompare, KeepAll, ReplaceRecords, Put, PastRows, AtRow, Replace, Leave,
        Running, TypeOK
  <2> HIDE DEF plan, history
  <2> QED BY <2>1, <2>2, <2>3, ContentionKept
<1>8. ASSUME NEW j \in Jobs, AnalyzeRow(j) \/ Save(j) \/ Panic(j)
      PROVE Contention'
  <2>1. UNCHANGED to /\ contested' = contested  BY <1>8 DEF AnalyzeRow, Save, Panic
  <2>2. \A k \in Jobs : Running(k)' => Running(k)
    BY <1>8 DEF AnalyzeRow, Save, Panic, AtRow, Advance, PastRows, Leave, Running, TypeOK
  <2>3. \A k \in Jobs : at'[k] = "done" => Running(k) \/ at[k] = "done"
    BY <1>8 DEF AnalyzeRow, Save, Panic, AtRow, Advance, PastRows, Leave, Running, TypeOK
  <2> HIDE DEF plan, history
  <2> QED BY <2>1, <2>2, <2>3, ContentionKept
<1>9. ASSUME NEW e \in Exports, NEW i \in Ids, Open(e, i) PROVE Contention'
  <2>1. UNCHANGED to /\ contested' = contested  BY <1>9 DEF Open
  <2>2. \A k \in Jobs : Running(k)' => Running(k)
    BY <1>9 DEF Open, Running, TypeOK
  <2>3. \A k \in Jobs : at'[k] = "done" => Running(k) \/ at[k] = "done"
    BY <1>9 DEF Open, Running, TypeOK
  <2> HIDE DEF plan, history
  <2> QED BY <2>1, <2>2, <2>3, ContentionKept
<1>10. ASSUME NEW e \in Exports, NEW j \in Jobs, RangeTorn(e, j) PROVE Contention'
  <2>1. UNCHANGED to /\ contested' = contested  BY <1>10 DEF RangeTorn
  <2>2. \A k \in Jobs : Running(k)' => Running(k)
    BY <1>10 DEF RangeTorn, Running, TypeOK
  <2>3. \A k \in Jobs : at'[k] = "done" => Running(k) \/ at[k] = "done"
    BY <1>10 DEF RangeTorn, Running, TypeOK
  <2> HIDE DEF plan, history
  <2> QED BY <2>1, <2>2, <2>3, ContentionKept
<1>11. ASSUME NEW e \in Exports, RangeOver(e) \/ ExportRow(e) \/ Close(e)
      PROVE Contention'
  <2>1. UNCHANGED to /\ contested' = contested  BY <1>11 DEF RangeOver, ExportRow, Close
  <2>2. \A k \in Jobs : Running(k)' => Running(k)
    BY <1>11 DEF RangeOver, ExportRow, Close, Advance, Leave, Running, TypeOK
  <2>3. \A k \in Jobs : at'[k] = "done" => Running(k) \/ at[k] = "done"
    BY <1>11 DEF RangeOver, ExportRow, Close, Advance, Leave, Running, TypeOK
  <2> HIDE DEF plan, history
  <2> QED BY <2>1, <2>2, <2>3, ContentionKept
<1>12. CASE Crash \/ UNCHANGED vars
  <2>1. UNCHANGED to /\ contested' = contested  BY <1>12 DEF Crash, vars
  <2>2. \A k \in Jobs : Running(k)' => Running(k)
    BY <1>12 DEF Crash, vars, Running, TypeOK
  <2>3. \A k \in Jobs : at'[k] = "done" => Running(k) \/ at[k] = "done"
    BY <1>12 DEF Crash, vars, Running, TypeOK
  <2> HIDE DEF plan, history
  <2> QED BY <2>1, <2>2, <2>3, ContentionKept
<1> QED
  BY <1>1, <1>2, <1>3, <1>4, <1>5, <1>6, <1>7, <1>8, <1>9,
     <1>10, <1>11, <1>12
  DEF Next

\* Two jobs on one dataset, one of them running, are on one id.
LEMMA OneDatasetOneId ==
    ASSUME Filed, Contention, NEW j \in Jobs, NEW k \in Jobs \ {j}, Running(k),
           Running(j) \/ at[j] = "done", j \notin contested
    PROVE work[k] # work[j] /\ to[k] # to[j]
BY DEF Filed, Contention

\* What is stored under an id, is stored by a job that runs.
LEMMA StandsKept ==
    ASSUME FinishedStands, UNCHANGED <<datasets, to>>, contested \subseteq contested',
           \A k \in Jobs : at'[k] = "done" => at[k] = "done" /\ work'[k] = work[k]
    PROVE FinishedStands'
BY DEF FinishedStands

LEMMA StandsStep ==
    TypeOK /\ Filed /\ Contention /\ FinishedStands /\ [Next]_vars => FinishedStands'
<1> SUFFICES ASSUME TypeOK, Filed, Contention, FinishedStands, [Next]_vars
             PROVE FinishedStands'
  OBVIOUS
<1> USE StoreAssumption DEF plan, data, cleaning, pass, exporting, history
<1>1. ASSUME NEW j \in Jobs, NEW i \in Ids, Start(j, i) PROVE FinishedStands'
  <2>0. /\ \E p \in {"read", "clone", "compare"} \cup CleanFrom : at' = [at EXCEPT ![j] = p]
        /\ \A k \in Jobs \ {j} : work'[k] = work[k]
    BY <1>1 DEF Start, Kinds, TypeOK
  <2>1. UNCHANGED <<datasets, to>> /\ contested \subseteq contested'  BY <1>1 DEF Start
  <2>2. \A k \in Jobs : at'[k] = "done" => at[k] = "done" /\ work'[k] = work[k]
    BY <1>1, <2>0 DEF Start, TypeOK, CleanFrom
  <2> HIDE DEF plan, history
  <2> QED BY <2>1, <2>2, StandsKept
<1>2. ASSUME NEW j \in Jobs, NEW i \in Ids, NotFound(j, i) PROVE FinishedStands'
  <2>1. UNCHANGED <<datasets, to>> /\ contested \subseteq contested'  BY <1>2 DEF NotFound
  <2>2. \A k \in Jobs : at'[k] = "done" => at[k] = "done" /\ work'[k] = work[k]
    BY <1>2 DEF NotFound, TypeOK
  <2> HIDE DEF plan, history
  <2> QED BY <2>1, <2>2, StandsKept
<1>3. ASSUME NEW j \in Jobs, 
             \/ Cancel(j) \/ TakeRows(j) \/ ReadRow(j) \/ DropColumns(j)
             \/ ReplaceColumns(j) \/ RewriteRow(j) \/ CopyBack(j) \/ CompareRow(j)
             \/ EndCompare(j) \/ KeepAll(j) \/ ReplaceRecords(j) \/ AnalyzeRow(j)
             \/ Panic(j)
      PROVE FinishedStands'
  <2>1. UNCHANGED <<datasets, to>> /\ contested \subseteq contested'  BY <1>3 DEF Cancel,
      TakeRows, ReadRow, DropColumns, ReplaceColumns, RewriteRow, CopyBack, CompareRow,
      EndCompare, KeepAll, ReplaceRecords, AnalyzeRow, Panic
  <2>2. \A k \in Jobs : at'[k] = "done" => at[k] = "done" /\ work'[k] = work[k]
    BY <1>3 DEF Cancel, TakeRows, ReadRow, DropColumns, ReplaceColumns, RewriteRow, CopyBack,
        CompareRow, EndCompare, KeepAll, ReplaceRecords, AnalyzeRow, Panic, TypeOK
  <2> HIDE DEF plan, history
  <2> QED BY <2>1, <2>2, StandsKept
<1>4. ASSUME NEW j \in Jobs, CloneRow(j) PROVE FinishedStands'
  <2>0. at' = at \/ \E p \in CleanFrom : at' = [at EXCEPT ![j] = p]  BY <1>4 DEF CloneRow
  <2>1. UNCHANGED <<datasets, to>> /\ contested \subseteq contested'  BY <1>4 DEF CloneRow
  <2>2. \A k \in Jobs : at'[k] = "done" => at[k] = "done" /\ work'[k] = work[k]
    BY <1>4, <2>0 DEF CloneRow, TypeOK, CleanFrom
  <2> HIDE DEF plan, history
  <2> QED BY <2>1, <2>2, StandsKept
<1>5. ASSUME NEW j \in Jobs, EndRewrite(j) PROVE FinishedStands'
  <2>0. \E p \in {"put", "replace"} : at' = [at EXCEPT ![j] = p]  BY <1>5 DEF EndRewrite
  <2>1. UNCHANGED <<datasets, to>> /\ contested \subseteq contested'  BY <1>5 DEF EndRewrite
  <2>2. \A k \in Jobs : at'[k] = "done" => at[k] = "done" /\ work'[k] = work[k]
    BY <1>5, <2>0 DEF EndRewrite, TypeOK, CleanFrom
  <2> HIDE DEF plan, history
  <2> QED BY <2>1, <2>2, StandsKept
<1>6. ASSUME NEW j \in Jobs, Put(j) PROVE FinishedStands'
  <2>1. /\ UNCHANGED <<to, work, contested>> /\ Running(j)
        /\ datasets' = [datasets EXCEPT ![to[j]] = work[j]]
        /\ \A k \in Jobs \ {j} : at'[k] = at[k]
    BY <1>6 DEF Put, PastRows, Running, Filed, TypeOK
  <2>2. SUFFICES ASSUME NEW k \in Jobs, at'[k] = "done", k \notin contested
                 PROVE datasets'[to[k]] = work[k]
    BY <2>1 DEF FinishedStands
  <2>3. CASE k = j  BY <2>1, <2>3 DEF TypeOK
  <2>4. CASE k # j
    <3>1. at[k] = "done"  BY <2>1, <2>2, <2>4
    <3>2. to[k] # to[j]  BY <2>1, <2>2, <2>4, <3>1, OneDatasetOneId
    <3>3. datasets[to[k]] = work[k]  BY <2>2, <3>1 DEF FinishedStands
    <3> QED BY <2>1, <3>2, <3>3 DEF TypeOK
  <2> QED BY <2>3, <2>4
<1>7. ASSUME NEW j \in Jobs, Save(j) PROVE FinishedStands'
  <2>1. /\ UNCHANGED <<to, work, contested>> /\ Running(j)
        /\ datasets' = [datasets EXCEPT ![to[j]] = work[j]]
        /\ \A k \in Jobs \ {j} : at'[k] = at[k]
    BY <1>7 DEF Save, PastRows, Running, Filed, TypeOK
  <2>2. SUFFICES ASSUME NEW k \in Jobs, at'[k] = "done", k \notin contested
                 PROVE datasets'[to[k]] = work[k]
    BY <2>1 DEF FinishedStands
  <2>3. CASE k = j  BY <2>1, <2>3 DEF TypeOK
  <2>4. CASE k # j
    <3>1. at[k] = "done"  BY <2>1, <2>2, <2>4
    <3>2. to[k] # to[j]  BY <2>1, <2>2, <2>4, <3>1, OneDatasetOneId
    <3>3. datasets[to[k]] = work[k]  BY <2>2, <3>1 DEF FinishedStands
    <3> QED BY <2>1, <3>2, <3>3 DEF TypeOK
  <2> QED BY <2>3, <2>4
<1>8. ASSUME NEW e \in Exports, NEW i \in Ids, Open(e, i) PROVE FinishedStands'
  <2>1. UNCHANGED <<datasets, to>> /\ contested \subseteq contested'  BY <1>8 DEF Open
  <2>2. \A k \in Jobs : at'[k] = "done" => at[k] = "done" /\ work'[k] = work[k]
    BY <1>8 DEF Open, TypeOK
  <2> HIDE DEF plan, history
  <2> QED BY <2>1, <2>2, StandsKept
<1>9. ASSUME NEW e \in Exports, NEW j \in Jobs, RangeTorn(e, j) PROVE FinishedStands'
  <2>1. UNCHANGED <<datasets, to>> /\ contested \subseteq contested'  BY <1>9 DEF RangeTorn
  <2>2. \A k \in Jobs : at'[k] = "done" => at[k] = "done" /\ work'[k] = work[k]
    BY <1>9 DEF RangeTorn, TypeOK
  <2> HIDE DEF plan, history
  <2> QED BY <2>1, <2>2, StandsKept
<1>10. ASSUME NEW e \in Exports, RangeOver(e) \/ ExportRow(e) \/ Close(e)
      PROVE FinishedStands'
  <2>1. UNCHANGED <<datasets, to>> /\ contested \subseteq contested'  BY <1>10 DEF RangeOver,
      ExportRow, Close
  <2>2. \A k \in Jobs : at'[k] = "done" => at[k] = "done" /\ work'[k] = work[k]
    BY <1>10 DEF RangeOver, ExportRow, Close, TypeOK
  <2> HIDE DEF plan, history
  <2> QED BY <2>1, <2>2, StandsKept
<1>11. CASE Crash \/ UNCHANGED vars
  <2>1. UNCHANGED <<datasets, to>> /\ contested \subseteq contested'  BY <1>11 DEF Crash, vars
  <2>2. \A k \in Jobs : at'[k] = "done" => at[k] = "done" /\ work'[k] = work[k]
    BY <1>11 DEF Crash, vars, TypeOK
  <2> HIDE DEF plan, history
  <2> QED BY <2>1, <2>2, StandsKept
<1> QED
  BY <1>1, <1>2, <1>3, <1>4, <1>5, <1>6, <1>7, <1>8, <1>9,
     <1>10, <1>11
  DEF Next

-----------------------------------------------------------------------------
(* What the analysis reads                                                 *)

\* What a job has read stands, while others work on other datasets.
LEMMA ScannedKept ==
    ASSUME TypeOK, Filed, Contention, Scanned, NEW j \in Jobs, contested \subseteq contested',
           Running(j) \/ UNCHANGED data,
           \A o \in Objects \ {work[j]} :
              arrays'[o] = arrays[o] /\ rows'[o] = rows[o] /\ records'[o] = records[o],
           \A k \in Jobs \ {j} :
              /\ at'[k] = at[k] /\ work'[k] = work[k] /\ scanned'[k] = scanned[k]
              /\ until'[k] = until[k] /\ pos'[k] = pos[k],
           ScannedBy(j)'
    PROVE Scanned'
<1> SUFFICES ASSUME NEW k \in Jobs \ {j} PROVE ScannedBy(k)'  BY DEF Scanned
<1>1. ScannedBy(k)  BY DEF Scanned
<1>2. CASE at[k] # "analyze"  BY <1>1, <1>2 DEF ScannedBy
<1>3. CASE at[k] = "analyze" /\ k \in contested  BY <1>3 DEF ScannedBy
<1>4. CASE at[k] = "analyze" /\ k \notin contested
  <2>1. Running(k)  BY <1>4 DEF Running
  <2>2. Contents(work[k])' = Contents(work[k]) /\ Length(work[k])' = Length(work[k])
    <3>1. work'[k] = work[k] /\ work[k] \in Objects  BY DEF TypeOK
    <3>2. CASE Running(j)
      <4>1. work[k] # work[j]  BY <1>4, <2>1, <3>2, OneDatasetOneId
      <4> QED BY <3>1, <4>1 DEF Contents, Through, Length
    <3>3. CASE UNCHANGED data  BY <3>1, <3>3 DEF data, Contents, Through, Length
    <3> QED BY <3>2, <3>3
  <2> HIDE DEF Contents, Length
  <2> QED BY <1>1, <1>4, <2>2 DEF ScannedBy
<1> QED BY <1>2, <1>3, <1>4

LEMMA ScannedStep ==
    /\ TypeOK /\ TypeOK' /\ Filed /\ Shape /\ Lengths /\ Contention /\ Scanned
    /\ [Next]_vars
    => Scanned'
<1> SUFFICES ASSUME TypeOK, TypeOK', Filed, Shape, Lengths, Contention, Scanned, [Next]_vars
             PROVE Scanned'
  OBVIOUS
<1> USE StoreAssumption DEF plan, data, cleaning, pass, exporting, history
<1>1. ASSUME NEW j \in Jobs, NEW i \in Ids, Start(j, i) PROVE Scanned'
  <2>1. /\ UNCHANGED <<scanned, until, pos, data>> /\ at[j] = "new"
        /\ contested \subseteq contested'
        /\ \A k \in Jobs \ {j} : at'[k] = at[k] /\ work'[k] = work[k]
    BY <1>1 DEF Start, TypeOK
  <2>2. at'[j] # "analyze"
    <3>1. PICK p \in {"read", "clone", "compare"} \cup CleanFrom : at' = [at EXCEPT ![j] = p]
      BY <1>1 DEF Start, Kinds, TypeOK
    <3> QED BY <3>1 DEF CleanFrom, TypeOK
  <2>3. ScannedBy(j)'  BY <2>1, <2>2 DEF Scanned, ScannedBy
  <2>4. \A o \in Objects : arrays'[o] = arrays[o] /\ rows'[o] = rows[o] /\ records'[o] = records[o]
    BY <2>1
  <2> HIDE DEF ScannedBy, data, plan, history
  <2> QED BY <2>1, <2>2, <2>3, <2>4, ScannedKept
<1>2. ASSUME NEW j \in Jobs, NEW i \in Ids, NotFound(j, i) PROVE Scanned'
  <2>1. /\ UNCHANGED <<work, scanned, until, pos, data, contested>> /\ at[j] = "new"
        /\ at' = [at EXCEPT ![j] = "failed"]
    BY <1>2 DEF NotFound
  <2>2. at'[j] = "failed" /\ \A k \in Jobs \ {j} : at'[k] = at[k]  BY <2>1 DEF TypeOK
  <2>3. ScannedBy(j)'  BY <2>1, <2>2 DEF Scanned, ScannedBy
  <2>4. \A o \in Objects : arrays'[o] = arrays[o] /\ rows'[o] = rows[o] /\ records'[o] = records[o]
    BY <2>1
  <2> HIDE DEF ScannedBy, data, plan, history
  <2> QED BY <2>1, <2>2, <2>3, <2>4, ScannedKept
<1>3. ASSUME NEW j \in Jobs, Cancel(j) \/ DropColumns(j) \/ ReplaceColumns(j)
      PROVE Scanned'
  <2>1. /\ contested' = contested /\ Running(j)
        /\ \A k \in Jobs \ {j} :
              /\ at'[k] = at[k] /\ work'[k] = work[k] /\ scanned'[k] = scanned[k]
              /\ until'[k] = until[k] /\ pos'[k] = pos[k]
    BY <1>3 DEF Cancel, DropColumns, ReplaceColumns, Leave, ForgetRows, AtRow, WriteRow,
        Advance, Disturb, PastRows, Running, TypeOK
  <2>2. \A o \in Objects \ {work[j]} :
          arrays'[o] = arrays[o] /\ rows'[o] = rows[o] /\ records'[o] = records[o]
    BY <1>3, ItsOwnOnly
  <2>3. ScannedBy(j)'
    <3>1. at[j] # "analyze" /\ at'[j] # "analyze" /\ scanned' = scanned  BY <1>3 DEF Cancel,
        DropColumns, ReplaceColumns, Leave, ForgetRows, AtRow, WriteRow, Advance, Disturb,
        PastRows, TypeOK
    <3>2. ScannedBy(j)  BY DEF Scanned
    <3> QED BY <3>1, <3>2 DEF ScannedBy
  <2> HIDE DEF ScannedBy, data, plan, history
  <2> QED BY <2>1, <2>2, <2>3, ScannedKept
<1>4. ASSUME NEW j \in Jobs, TakeRows(j) PROVE Scanned'
  <2>1. /\ contested' = contested /\ Running(j)
        /\ \A k \in Jobs \ {j} :
              /\ at'[k] = at[k] /\ work'[k] = work[k] /\ scanned'[k] = scanned[k]
              /\ until'[k] = until[k] /\ pos'[k] = pos[k]
    BY <1>4 DEF TakeRows, Running, TypeOK
  <2>2. \A o \in Objects \ {work[j]} :
          arrays'[o] = arrays[o] /\ rows'[o] = rows[o] /\ records'[o] = records[o]
    BY <1>4, ItsOwnOnly
  <2>3. ScannedBy(j)'
    <3>1. /\ at' = at /\ UNCHANGED <<scanned, pos, work, contested, data>>
          /\ until[j] = 0 /\ pos[j] <= Length(From(j))
          /\ at[j] = "analyze" => until'[j] = Length(From(j))
      BY <1>4 DEF TakeRows, TypeOK
    <3>2. ScannedBy(j)  BY DEF Scanned
    <3>3. CASE at[j] # "analyze"  BY <3>1, <3>2, <3>3 DEF ScannedBy
    <3>4. CASE at[j] = "analyze"
      <4>1. From(j) = work[j] /\ pos[j] = 1
        BY <3>1, <3>4 DEF From, Lengths, JobLengths
      <4>2. Length(work[j]) \in Nat  BY AtARow DEF Length, TypeOK
      <4>3. Length(work[j])' = Length(work[j])  BY <3>1 DEF Length, data
      <4>4. Contents(work[j])' = Contents(work[j])  BY <3>1 DEF Contents, Through, data
      <4> HIDE DEF Length, Contents
      <4> QED BY <3>1, <3>2, <3>4, <4>1, <4>2, <4>3, <4>4 DEF ScannedBy
    <3> QED BY <3>3, <3>4
  <2> HIDE DEF ScannedBy, data, plan, history
  <2> QED BY <2>1, <2>2, <2>3, ScannedKept
<1>5. ASSUME NEW j \in Jobs, ReadRow(j) PROVE Scanned'
  <2>1. /\ contested' = contested /\ Running(j)
        /\ \A k \in Jobs \ {j} :
              /\ at'[k] = at[k] /\ work'[k] = work[k] /\ scanned'[k] = scanned[k]
              /\ until'[k] = until[k] /\ pos'[k] = pos[k]
    BY <1>5 DEF ReadRow, MakeRow, Running, TypeOK
  <2>2. \A o \in Objects \ {work[j]} :
          arrays'[o] = arrays[o] /\ rows'[o] = rows[o] /\ records'[o] = records[o]
    BY <1>5, ItsOwnOnly
  <2>3. ScannedBy(j)'
    <3>1. at[j] = "read" /\ at'[j] \in {"read", "analyze"} /\ UNCHANGED <<scanned, until, pos>>
      BY <1>5 DEF ReadRow, TypeOK
    <3>2. scanned[j] = <<>> /\ until[j] = 0 /\ pos[j] = 1
      BY <3>1 DEF Scanned, ScannedBy, Lengths, JobLengths
    <3>3. Len(<<>>) = 0  OBVIOUS
    <3> QED BY <3>1, <3>2, <3>3 DEF ScannedBy
  <2> HIDE DEF ScannedBy, data, plan, history
  <2> QED BY <2>1, <2>2, <2>3, ScannedKept
<1>6. ASSUME NEW j \in Jobs, CloneRow(j) PROVE Scanned'
  <2>0. /\ at[j] = "clone" /\ UNCHANGED <<work, scanned>>
        /\ at' = at \/ \E p \in CleanFrom : at' = [at EXCEPT ![j] = p]
        /\ Advance(j) \/ Leave(j, 1)
    BY <1>6 DEF CloneRow, AtRow
  <2>1. /\ contested' = contested /\ Running(j)
        /\ \A k \in Jobs \ {j} :
              /\ at'[k] = at[k] /\ work'[k] = work[k] /\ scanned'[k] = scanned[k]
              /\ until'[k] = until[k] /\ pos'[k] = pos[k]
    <3>1. \A k \in Jobs \ {j} : at'[k] = at[k]
      <4>1. CASE at' = at  BY <4>1
      <4>2. CASE \E p \in CleanFrom : at' = [at EXCEPT ![j] = p]  BY <4>2
      <4> QED BY <2>0, <4>1, <4>2
    <3>2. \A k \in Jobs \ {j} : until'[k] = until[k] /\ pos'[k] = pos[k]
      BY <2>0 DEF Advance, Leave, TypeOK
    <3> QED BY <1>6, <2>0, <3>1, <3>2 DEF CloneRow, Running
  <2>2. \A o \in Objects \ {work[j]} :
          arrays'[o] = arrays[o] /\ rows'[o] = rows[o] /\ records'[o] = records[o]
    BY <1>6, ItsOwnOnly
  <2>3. ScannedBy(j)'
    <3>1. at[j] # "analyze" /\ at'[j] # "analyze" /\ scanned' = scanned
      BY <1>6, <2>0 DEF CloneRow, CleanFrom, TypeOK
    <3>2. ScannedBy(j)  BY DEF Scanned
    <3> QED BY <3>1, <3>2 DEF ScannedBy
  <2> HIDE DEF ScannedBy, data, plan, history
  <2> QED BY <2>1, <2>2, <2>3, ScannedKept
<1>7. ASSUME NEW j \in Jobs, RewriteRow(j) \/ CopyBack(j) \/ CompareRow(j)
      PROVE Scanned'
  <2>1. /\ contested' = contested /\ Running(j)
        /\ \A k \in Jobs \ {j} :
              /\ at'[k] = at[k] /\ work'[k] = work[k] /\ scanned'[k] = scanned[k]
              /\ until'[k] = until[k] /\ pos'[k] = pos[k]
    BY <1>7 DEF RewriteRow, CopyBack, CompareRow, AtRow, WriteRow, Advance, Disturb, PastRows,
        Leave, Running, TypeOK
  <2>2. \A o \in Objects \ {work[j]} :
          arrays'[o] = arrays[o] /\ rows'[o] = rows[o] /\ records'[o] = records[o]
    BY <1>7, ItsOwnOnly
  <2>3. ScannedBy(j)'
    <3>1. at[j] # "analyze" /\ at'[j] # "analyze" /\ scanned' = scanned  BY <1>7 DEF RewriteRow, CopyBack, CompareRow, AtRow, WriteRow, Advance, Disturb, PastRows, Leave, TypeOK
    <3>2. ScannedBy(j)  BY DEF Scanned
    <3> QED BY <3>1, <3>2 DEF ScannedBy
  <2> HIDE DEF ScannedBy, data, plan, history
  <2> QED BY <2>1, <2>2, <2>3, ScannedKept
<1>8. ASSUME NEW j \in Jobs, EndRewrite(j) PROVE Scanned'
  <2>0. \E p \in {"put", "replace"} : at' = [at EXCEPT ![j] = p]  BY <1>8 DEF EndRewrite
  <2>1. /\ contested' = contested /\ Running(j)
        /\ \A k \in Jobs \ {j} :
              /\ at'[k] = at[k] /\ work'[k] = work[k] /\ scanned'[k] = scanned[k]
              /\ until'[k] = until[k] /\ pos'[k] = pos[k]
    BY <1>8, <2>0 DEF EndRewrite, Running, TypeOK
  <2>2. \A o \in Objects \ {work[j]} :
          arrays'[o] = arrays[o] /\ rows'[o] = rows[o] /\ records'[o] = records[o]
    BY <1>8, ItsOwnOnly
  <2>3. ScannedBy(j)'
    <3>1. at[j] # "analyze" /\ at'[j] # "analyze" /\ scanned' = scanned
      BY <1>8, <2>0 DEF EndRewrite, TypeOK
    <3>2. ScannedBy(j)  BY DEF Scanned
    <3> QED BY <3>1, <3>2 DEF ScannedBy
  <2> HIDE DEF ScannedBy, data, plan, history
  <2> QED BY <2>1, <2>2, <2>3, ScannedKept
<1>9. ASSUME NEW j \in Jobs, EndCompare(j) \/ KeepAll(j) \/ ReplaceRecords(j)
      PROVE Scanned'
  <2>1. /\ contested' = contested /\ Running(j)
        /\ \A k \in Jobs \ {j} :
              /\ at'[k] = at[k] /\ work'[k] = work[k] /\ scanned'[k] = scanned[k]
              /\ until'[k] = until[k] /\ pos'[k] = pos[k]
    BY <1>9 DEF EndCompare, KeepAll, ReplaceRecords, PastRows, AtRow, Replace, Leave, Running,
        TypeOK
  <2>2. \A o \in Objects \ {work[j]} :
          arrays'[o] = arrays[o] /\ rows'[o] = rows[o] /\ records'[o] = records[o]
    BY <1>9, ItsOwnOnly
  <2>3. ScannedBy(j)'
    <3>1. at[j] # "analyze" /\ at'[j] # "analyze" /\ scanned' = scanned  BY <1>9 DEF EndCompare, KeepAll, ReplaceRecords, PastRows, AtRow, Replace, Leave, TypeOK
    <3>2. ScannedBy(j)  BY DEF Scanned
    <3> QED BY <3>1, <3>2 DEF ScannedBy
  <2> HIDE DEF ScannedBy, data, plan, history
  <2> QED BY <2>1, <2>2, <2>3, ScannedKept
<1>10. ASSUME NEW j \in Jobs, Put(j) PROVE Scanned'
  <2>1. /\ contested' = contested /\ Running(j)
        /\ \A k \in Jobs \ {j} :
              /\ at'[k] = at[k] /\ work'[k] = work[k] /\ scanned'[k] = scanned[k]
              /\ until'[k] = until[k] /\ pos'[k] = pos[k]
    BY <1>10 DEF Put, Leave, Running, TypeOK
  <2>2. \A o \in Objects \ {work[j]} :
          arrays'[o] = arrays[o] /\ rows'[o] = rows[o] /\ records'[o] = records[o]
    BY <1>10, ItsOwnOnly
  <2>3. ScannedBy(j)'
    <3>1. at[j] = "put" /\ UNCHANGED scanned /\ until'[j] = 0 /\ pos'[j] = 1
      BY <1>10 DEF Put, Leave, TypeOK
    <3>2. scanned[j] = <<>> /\ TRUE
      BY <3>1 DEF Scanned, ScannedBy, Lengths, JobLengths
    <3>3. Len(<<>>) = 0  OBVIOUS
    <3> QED BY <3>1, <3>2, <3>3 DEF ScannedBy
  <2> HIDE DEF ScannedBy, data, plan, history
  <2> QED BY <2>1, <2>2, <2>3, ScannedKept
<1>11. ASSUME NEW j \in Jobs, AnalyzeRow(j) PROVE Scanned'
  <2>1. /\ contested' = contested /\ Running(j)
        /\ \A k \in Jobs \ {j} :
              /\ at'[k] = at[k] /\ work'[k] = work[k] /\ scanned'[k] = scanned[k]
              /\ until'[k] = until[k] /\ pos'[k] = pos[k]
    BY <1>11 DEF AnalyzeRow, AtRow, Advance, Running, TypeOK
  <2>2. \A o \in Objects \ {work[j]} :
          arrays'[o] = arrays[o] /\ rows'[o] = rows[o] /\ records'[o] = records[o]
    BY <1>11, ItsOwnOnly
  <2>3. ScannedBy(j)'
    <3> DEFINE read == Contents(work[j])[pos[j]]
    <3>1. /\ at' = at /\ UNCHANGED <<until, work, contested, data>> /\ at[j] = "analyze"
          /\ pos[j] <= until[j] /\ pos'[j] = pos[j] + 1
          /\ scanned'[j] = Append(scanned[j], read)
      BY <1>11 DEF AnalyzeRow, AtRow, Advance, Analyzed, TypeOK
    <3>2. CASE j \in contested  BY <3>1, <3>2 DEF ScannedBy
    <3>3. CASE j \notin contested
      <4>1. ScannedBy(j)  BY DEF Scanned
      <4>2. /\ Len(scanned[j]) = pos[j] - 1
            /\ until[j] # 0 => until[j] = Length(work[j])
            /\ \A k \in 1..(pos[j] - 1) : scanned[j][k] = Contents(work[j])[k]
        BY <3>1, <3>3, <4>1 DEF ScannedBy
      <4>3. scanned[j] \in Seq(SUBSET Jobs) /\ pos[j] \in Nat \ {0} /\ until[j] \in Nat
        BY DEF TypeOK, RowsSoFar
      <4>4. Length(work[j])' = Length(work[j])  BY <3>1 DEF Length, data
      <4>5. Contents(work[j])' = Contents(work[j])  BY <3>1 DEF Contents, Through, data
      <4> HIDE DEF read, Contents, Length
      <4>6. /\ Len(scanned'[j]) = pos[j] /\ scanned'[j][pos[j]] = read
            /\ \A k \in 1..(pos[j] - 1) : scanned'[j][k] = scanned[j][k]
        <5>1. ASSUME NEW S, NEW s \in Seq(S), NEW x
              PROVE /\ Len(Append(s, x)) = Len(s) + 1 /\ Append(s, x)[Len(s) + 1] = x
                    /\ \A k \in 1..Len(s) : Append(s, x)[k] = s[k]
          OBVIOUS
        <5>2. /\ Len(Append(scanned[j], read)) = Len(scanned[j]) + 1
              /\ Append(scanned[j], read)[Len(scanned[j]) + 1] = read
              /\ \A k \in 1..Len(scanned[j]) : Append(scanned[j], read)[k] = scanned[j][k]
          BY <4>3, <5>1
        <5>3. Len(scanned[j]) + 1 = pos[j]  BY <4>2, <4>3
        <5> HIDE DEF data
        <5> QED BY <3>1, <4>2, <5>2, <5>3
      <4>7. \A k \in 1..(pos'[j] - 1) : scanned'[j][k] = Contents(work[j])[k]
        <5>0. pos'[j] - 1 = pos[j]  BY <3>1, <4>3
        <5>1. SUFFICES ASSUME NEW k \in 1..pos[j] PROVE scanned'[j][k] = Contents(work[j])[k]
          BY <5>0
        <5>2. CASE k = pos[j]  BY <4>6, <5>2 DEF read
        <5>3. CASE k # pos[j]
          <6>1. k \in 1..(pos[j] - 1)  BY <4>3, <5>3
          <6> QED BY <4>2, <4>6, <6>1
        <5> QED BY <5>2, <5>3
      <4>8. /\ Len(scanned'[j]) = pos'[j] - 1 /\ pos'[j] <= until'[j] + 1
            /\ until'[j] # 0 => until'[j] = Length(work[j])'
        BY <3>1, <4>2, <4>3, <4>4, <4>6
      <4>9. \A k \in 1..(pos'[j] - 1) : scanned'[j][k] = Contents(work[j])'[k]
        BY <4>5, <4>7
      <4> QED BY <3>1, <4>8, <4>9 DEF ScannedBy
    <3> QED BY <3>2, <3>3
  <2> HIDE DEF ScannedBy, data, plan, history
  <2> QED BY <2>1, <2>2, <2>3, ScannedKept
<1>12. ASSUME NEW j \in Jobs, Save(j) PROVE Scanned'
  <2>1. /\ contested' = contested /\ Running(j)
        /\ \A k \in Jobs \ {j} :
              /\ at'[k] = at[k] /\ work'[k] = work[k] /\ scanned'[k] = scanned[k]
              /\ until'[k] = until[k] /\ pos'[k] = pos[k]
    BY <1>12 DEF Save, PastRows, Leave, Running, TypeOK
  <2>2. \A o \in Objects \ {work[j]} :
          arrays'[o] = arrays[o] /\ rows'[o] = rows[o] /\ records'[o] = records[o]
    BY <1>12, ItsOwnOnly
  <2>3. ScannedBy(j)'
    <3>1. at'[j] = "done" /\ scanned'[j] = <<>>  BY <1>12 DEF Save, TypeOK
    <3> QED BY <3>1 DEF ScannedBy
  <2> HIDE DEF ScannedBy, data, plan, history
  <2> QED BY <2>1, <2>2, <2>3, ScannedKept
<1>13. ASSUME NEW j \in Jobs, Panic(j) PROVE Scanned'
  <2>1. /\ UNCHANGED <<at, work, scanned, data, contested>>
        /\ \A k \in Jobs : until'[k] = until[k] /\ pos'[k] = pos[k]
    BY <1>13 DEF Panic, AtRow, PastRows, TypeOK
  <2>2. \A k \in Jobs : Contents(work[k])' = Contents(work[k]) /\ Length(work[k])' = Length(work[k])
    BY <2>1 DEF Contents, Through, Length
  <2> HIDE DEF Contents, Length, data, history
  <2> QED BY <2>1, <2>2 DEF Scanned, ScannedBy
<1>14. ASSUME NEW e \in Exports, NEW i \in Ids, Open(e, i) PROVE Scanned'
  <2>1. /\ UNCHANGED <<at, work, scanned, data, contested>>
        /\ \A k \in Jobs : until'[k] = until[k] /\ pos'[k] = pos[k]
    BY <1>14 DEF Open, TypeOK
  <2>2. \A k \in Jobs : Contents(work[k])' = Contents(work[k]) /\ Length(work[k])' = Length(work[k])
    BY <2>1 DEF Contents, Through, Length
  <2> HIDE DEF Contents, Length, data, history
  <2> QED BY <2>1, <2>2 DEF Scanned, ScannedBy
<1>15. ASSUME NEW e \in Exports, NEW j \in Jobs, RangeTorn(e, j) PROVE Scanned'
  <2>1. /\ UNCHANGED <<at, work, scanned, data, contested>>
        /\ \A k \in Jobs : until'[k] = until[k] /\ pos'[k] = pos[k]
    BY <1>15 DEF RangeTorn, TypeOK
  <2>2. \A k \in Jobs : Contents(work[k])' = Contents(work[k]) /\ Length(work[k])' = Length(work[k])
    BY <2>1 DEF Contents, Through, Length
  <2> HIDE DEF Contents, Length, data, history
  <2> QED BY <2>1, <2>2 DEF Scanned, ScannedBy
<1>16. ASSUME NEW e \in Exports, RangeOver(e) PROVE Scanned'
  <2>1. /\ UNCHANGED <<at, work, scanned, data, contested>>
        /\ \A k \in Jobs : until'[k] = until[k] /\ pos'[k] = pos[k]
    BY <1>16 DEF RangeOver, TypeOK
  <2>2. \A k \in Jobs : Contents(work[k])' = Contents(work[k]) /\ Length(work[k])' = Length(work[k])
    BY <2>1 DEF Contents, Through, Length
  <2> HIDE DEF Contents, Length, data, history
  <2> QED BY <2>1, <2>2 DEF Scanned, ScannedBy
<1>17. ASSUME NEW e \in Exports, ExportRow(e) PROVE Scanned'
  <2>1. /\ UNCHANGED <<at, work, scanned, data, contested>>
        /\ \A k \in Jobs : until'[k] = until[k] /\ pos'[k] = pos[k]
    BY <1>17 DEF ExportRow, Advance, TypeOK
  <2>2. \A k \in Jobs : Contents(work[k])' = Contents(work[k]) /\ Length(work[k])' = Length(work[k])
    BY <2>1 DEF Contents, Through, Length
  <2> HIDE DEF Contents, Length, data, history
  <2> QED BY <2>1, <2>2 DEF Scanned, ScannedBy
<1>18. ASSUME NEW e \in Exports, Close(e) PROVE Scanned'
  <2>1. /\ UNCHANGED <<at, work, scanned, data, contested>>
        /\ \A k \in Jobs : until'[k] = until[k] /\ pos'[k] = pos[k]
    BY <1>18 DEF Close, Leave, TypeOK
  <2>2. \A k \in Jobs : Contents(work[k])' = Contents(work[k]) /\ Length(work[k])' = Length(work[k])
    BY <2>1 DEF Contents, Through, Length
  <2> HIDE DEF Contents, Length, data, history
  <2> QED BY <2>1, <2>2 DEF Scanned, ScannedBy
<1>19. CASE Crash \/ UNCHANGED vars
  <2>1. /\ UNCHANGED <<at, work, scanned, data, contested>>
        /\ \A k \in Jobs : until'[k] = until[k] /\ pos'[k] = pos[k]
    BY <1>19 DEF Crash, vars, TypeOK
  <2>2. \A k \in Jobs : Contents(work[k])' = Contents(work[k]) /\ Length(work[k])' = Length(work[k])
    BY <2>1 DEF Contents, Through, Length
  <2> HIDE DEF Contents, Length, data, history
  <2> QED BY <2>1, <2>2 DEF Scanned, ScannedBy
<1> QED
  BY <1>1, <1>2, <1>3, <1>4, <1>5, <1>6, <1>7, <1>8, <1>9,
     <1>10, <1>11, <1>12, <1>13, <1>14, <1>15, <1>16, <1>17, <1>18,
     <1>19
  DEF Next

-----------------------------------------------------------------------------
(* What exports write                                                      *)

\* An export's rows stay where it finds them, whatever a job writes, or it is disturbed.
RowsStay(e) ==
    \/ opened'[e] = None
    \/ /\ opened'[e] = opened[e]
       /\ until[e] # 0 => /\ arrays'[held[e]][taken[e]] = arrays[held[e]][taken[e]]
                          /\ rows'[held[e]] = rows[held[e]]

LEMMA NotDisturbed ==
    ASSUME TypeOK, Shape, Hidden, Lengths, NEW j \in Jobs,
           \/ Cancel(j) \/ TakeRows(j) \/ ReadRow(j) \/ CloneRow(j) \/ DropColumns(j)
           \/ ReplaceColumns(j) \/ RewriteRow(j) \/ CopyBack(j) \/ EndRewrite(j) \/ CompareRow(j)
           \/ EndCompare(j) \/ KeepAll(j) \/ ReplaceRecords(j) \/ Put(j) \/ AnalyzeRow(j)
           \/ Save(j) \/ Panic(j),
           NEW e \in Exports, held[e] # None
    PROVE RowsStay(e)
<1> USE StoreAssumption DEF plan, data, cleaning, pass, exporting, history
<1>0. held[e] # work[j] => arrays'[held[e]] = arrays[held[e]] /\ rows'[held[e]] = rows[held[e]]
  <2>1. held[e] \in Objects  BY DEF TypeOK
  <2> HIDE DEF data, plan
  <2> QED BY <2>1, ItsOwnOnly
<1>1. CASE Cancel(j)  BY <1>1 DEF Cancel, RowsStay
<1>2. CASE TakeRows(j)  BY <1>2 DEF TakeRows, RowsStay
<1>3. CASE ReadRow(j)
  <2>1. opened' = opened /\ at[j] \in {"read", "clone"}  BY <1>3 DEF ReadRow, AtRow
  <2>2. held[e] # j /\ work[j] = j  BY <2>1 DEF Hidden, Unpublished, Shape, InPlace
  <2> QED BY <1>0, <2>1, <2>2 DEF RowsStay
<1>4. CASE CloneRow(j)
  <2>1. opened' = opened /\ at[j] \in {"read", "clone"}  BY <1>4 DEF CloneRow, AtRow
  <2>2. held[e] # j /\ work[j] = j  BY <2>1 DEF Hidden, Unpublished, Shape, InPlace
  <2> QED BY <1>0, <2>1, <2>2 DEF RowsStay
<1>5. CASE DropColumns(j)
  <2>1. opened' = [x \in Exports |-> IF held[x] = work[j] THEN None ELSE opened[x]]
    BY <1>5 DEF DropColumns, WriteRow, Disturb
  <2> QED BY <1>0, <2>1 DEF RowsStay
<1>6. CASE ReplaceColumns(j)
  <2>1. opened' = [x \in Exports |-> IF held[x] = work[j] THEN None ELSE opened[x]]
    BY <1>6 DEF ReplaceColumns, WriteRow, Disturb
  <2> QED BY <1>0, <2>1 DEF RowsStay
<1>7. CASE RewriteRow(j)
  <2>1. CASE WriteRow(j)
    <3>1. opened' = [x \in Exports |-> IF held[x] = work[j] THEN None ELSE opened[x]]
      BY <2>1 DEF WriteRow, Disturb
    <3> QED BY <1>0, <3>1 DEF RowsStay
  <2>2. CASE UNCHANGED <<rows, opened>>
    <3>1. UNCHANGED arrays  BY <1>7 DEF RewriteRow
    <3> QED BY <2>2, <3>1 DEF RowsStay
  <2> QED BY <1>7, <2>1, <2>2 DEF RewriteRow
<1>8. CASE CopyBack(j)
  <2>1. opened' = [x \in Exports |-> IF held[x] = work[j] THEN None ELSE opened[x]]
    BY <1>8 DEF CopyBack, WriteRow, Disturb
  <2> QED BY <1>0, <2>1 DEF RowsStay
<1>9. CASE EndRewrite(j)
  <2>1. opened' = opened /\ rows' = rows /\ at[j] \in Early  BY <1>9 DEF EndRewrite, PastRows,
      Early, Walking
  <2>2. UNCHANGED arrays \/ \E s : arrays' = [arrays EXCEPT ![work[j]][j] = s]
    BY <1>9 DEF EndRewrite
  <2>3. held[e] \in Objects /\ taken[e] \in Slices /\ until[e] \in Nat  BY DEF TypeOK
  <2>4. until[e] # 0 => taken[e] # j
    <3>1. arrays[held[e]][j] = <<>>  BY <2>1, <2>3 DEF Lengths, JobLengths
    <3>2. until[e] <= Len(arrays[held[e]][taken[e]])  BY DEF Lengths, ExportLengths
    <3>3. taken[e] = j => until[e] <= 0  BY <3>1, <3>2
    <3> QED BY <2>3, <3>3
  <2>5. until[e] # 0 => arrays'[held[e]][taken[e]] = arrays[held[e]][taken[e]]
    <3>1. arrays \in [Objects -> [Slices -> Seq(1..Rows)]]  BY DEF TypeOK
    <3>2. CASE UNCHANGED arrays  BY <3>2
    <3>3. CASE \E s : arrays' = [arrays EXCEPT ![work[j]][j] = s]
      <4>1. PICK s : arrays' = [arrays EXCEPT ![work[j]][j] = s]  BY <3>3
      <4> QED BY <2>3, <2>4, <3>1, <4>1
    <3> QED BY <2>2, <3>2, <3>3
  <2> QED BY <2>1, <2>5 DEF RowsStay
<1>10. CASE CompareRow(j)  BY <1>10 DEF CompareRow, RowsStay
<1>11. CASE EndCompare(j)
  <2>1. opened' = opened /\ rows' = rows /\ at[j] \in Early  BY <1>11 DEF EndCompare,
      PastRows, Early, Walking
  <2>2. UNCHANGED arrays \/ \E s : arrays' = [arrays EXCEPT ![work[j]][j] = s]
    BY <1>11 DEF EndCompare
  <2>3. held[e] \in Objects /\ taken[e] \in Slices /\ until[e] \in Nat  BY DEF TypeOK
  <2>4. until[e] # 0 => taken[e] # j
    <3>1. arrays[held[e]][j] = <<>>  BY <2>1, <2>3 DEF Lengths, JobLengths
    <3>2. until[e] <= Len(arrays[held[e]][taken[e]])  BY DEF Lengths, ExportLengths
    <3>3. taken[e] = j => until[e] <= 0  BY <3>1, <3>2
    <3> QED BY <2>3, <3>3
  <2>5. until[e] # 0 => arrays'[held[e]][taken[e]] = arrays[held[e]][taken[e]]
    <3>1. arrays \in [Objects -> [Slices -> Seq(1..Rows)]]  BY DEF TypeOK
    <3>2. CASE UNCHANGED arrays  BY <3>2
    <3>3. CASE \E s : arrays' = [arrays EXCEPT ![work[j]][j] = s]
      <4>1. PICK s : arrays' = [arrays EXCEPT ![work[j]][j] = s]  BY <3>3
      <4> QED BY <2>3, <2>4, <3>1, <4>1
    <3> QED BY <2>2, <3>2, <3>3
  <2> QED BY <2>1, <2>5 DEF RowsStay
<1>12. CASE KeepAll(j)  BY <1>12 DEF KeepAll, RowsStay
<1>13. CASE ReplaceRecords(j)  BY <1>13 DEF ReplaceRecords, Replace, RowsStay
<1>14. CASE Put(j)  BY <1>14 DEF Put, RowsStay
<1>15. CASE AnalyzeRow(j)  BY <1>15 DEF AnalyzeRow, RowsStay
<1>16. CASE Save(j)  BY <1>16 DEF Save, RowsStay
<1>17. CASE Panic(j)  BY <1>17 DEF Panic, RowsStay
<1> QED
  BY <1>1, <1>2, <1>3, <1>4, <1>5, <1>6, <1>7, <1>8, <1>9,
     <1>10, <1>11, <1>12, <1>13, <1>14, <1>15, <1>16, <1>17

Whole(e) ==
    opened[e] # None /\ until[e] # 0 =>
        /\ until[e] = Len(opened[e]) /\ Len(exported[e]) = pos[e] - 1
        /\ \A k \in 1..(pos[e] - 1) : exported[e][k] = opened[e][k]

\* An export that does not go on writes what it did.
LEMMA ExportStays ==
    ASSUME NEW e \in Exports, GoesOn(e), Whole(e),
           RowsStay(e) \/ (held[e] = None /\ opened'[e] = opened[e]),
           UNCHANGED <<held[e], exported[e], taken[e], until[e], pos[e]>>
    PROVE GoesOn(e)' /\ Whole(e)'
<1>1. CASE opened'[e] = None  BY <1>1 DEF GoesOn, Whole
<1>2. CASE opened'[e] = opened[e] /\ held[e] = None  BY <1>2 DEF GoesOn, Whole
<1>3. CASE opened'[e] = opened[e] /\ held[e] # None
  <2>1. until[e] # 0 /\ opened[e] # None => Through(held[e], taken[e])' = Through(held[e], taken[e])
    BY <1>3 DEF RowsStay, Through
  <2> HIDE DEF Through
  <2> QED BY <1>3, <2>1 DEF GoesOn, Whole
<1> QED BY <1>1, <1>2, <1>3 DEF RowsStay

LEMMA ExportsStep ==
    /\ TypeOK /\ TypeOK' /\ Shape /\ Hidden /\ Lengths /\ Undisturbed
    /\ (\A e \in Exports : Whole(e)) /\ [Next]_vars
    => Undisturbed' /\ \A e \in Exports : Whole(e)'
<1> SUFFICES ASSUME TypeOK, TypeOK', Shape, Hidden, Lengths, Undisturbed,
                    \A e \in Exports : Whole(e), [Next]_vars
             PROVE \A e \in Exports : GoesOn(e)' /\ Whole(e)'
  BY DEF Undisturbed
<1> USE StoreAssumption DEF plan, data, cleaning, pass, exporting, history
<1>0. \A e \in Exports : GoesOn(e) /\ Whole(e)  BY DEF Undisturbed
<1>1. ASSUME NEW j \in Jobs, NEW i \in Ids, Start(j, i) PROVE \A x \in Exports : GoesOn(x)' /\ Whole(x)'
  <2>1. UNCHANGED <<data, held, exported, opened>>
        /\ \A x \in Exports : taken'[x] = taken[x] /\ until'[x] = until[x] /\ pos'[x] = pos[x]
    BY <1>1 DEF Start, TypeOK
  <2>2. \A x \in Exports : RowsStay(x)  BY <2>1 DEF RowsStay
  <2> HIDE DEF GoesOn, Whole, RowsStay, data, exporting
  <2> QED BY <1>0, <2>1, <2>2, ExportStays
<1>2. ASSUME NEW j \in Jobs, NEW i \in Ids, NotFound(j, i) PROVE \A x \in Exports : GoesOn(x)' /\ Whole(x)'
  <2>1. UNCHANGED <<data, held, exported, opened>>
        /\ \A x \in Exports : taken'[x] = taken[x] /\ until'[x] = until[x] /\ pos'[x] = pos[x]
    BY <1>2 DEF NotFound, TypeOK
  <2>2. \A x \in Exports : RowsStay(x)  BY <2>1 DEF RowsStay
  <2> HIDE DEF GoesOn, Whole, RowsStay, data, exporting
  <2> QED BY <1>0, <2>1, <2>2, ExportStays
<1>3. ASSUME NEW j \in Jobs, Cancel(j) PROVE \A x \in Exports : GoesOn(x)' /\ Whole(x)'
  <2>1. ASSUME NEW x \in Exports PROVE GoesOn(x)' /\ Whole(x)'
    <3>1. UNCHANGED <<held[x], exported[x], taken[x], until[x], pos[x]>>
      BY <1>3 DEF Cancel, Leave, ForgetRows, TypeOK
    <3>2. held[x] = None => opened'[x] = opened[x]
      BY <1>3 DEF Cancel, Leave, ForgetRows, Disturb, TypeOK, Objects
    <3>3. held[x] # None => RowsStay(x)  BY <1>3, NotDisturbed
    <3> HIDE DEF GoesOn, Whole, RowsStay, data, exporting
    <3> QED BY <1>0, <3>1, <3>2, <3>3, ExportStays
  <2> QED BY <2>1
<1>4. ASSUME NEW j \in Jobs, TakeRows(j) PROVE \A x \in Exports : GoesOn(x)' /\ Whole(x)'
  <2>1. ASSUME NEW x \in Exports PROVE GoesOn(x)' /\ Whole(x)'
    <3>1. UNCHANGED <<held[x], exported[x], taken[x], until[x], pos[x]>>
      BY <1>4 DEF TakeRows, TypeOK
    <3>2. held[x] = None => opened'[x] = opened[x]
      BY <1>4 DEF TakeRows, Disturb, TypeOK, Objects
    <3>3. held[x] # None => RowsStay(x)  BY <1>4, NotDisturbed
    <3> HIDE DEF GoesOn, Whole, RowsStay, data, exporting
    <3> QED BY <1>0, <3>1, <3>2, <3>3, ExportStays
  <2> QED BY <2>1
<1>5. ASSUME NEW j \in Jobs, ReadRow(j) PROVE \A x \in Exports : GoesOn(x)' /\ Whole(x)'
  <2>1. ASSUME NEW x \in Exports PROVE GoesOn(x)' /\ Whole(x)'
    <3>1. UNCHANGED <<held[x], exported[x], taken[x], until[x], pos[x]>>
      BY <1>5 DEF ReadRow, MakeRow, TypeOK
    <3>2. held[x] = None => opened'[x] = opened[x]
      BY <1>5 DEF ReadRow, MakeRow, Disturb, TypeOK, Objects
    <3>3. held[x] # None => RowsStay(x)  BY <1>5, NotDisturbed
    <3> HIDE DEF GoesOn, Whole, RowsStay, data, exporting
    <3> QED BY <1>0, <3>1, <3>2, <3>3, ExportStays
  <2> QED BY <2>1
<1>6. ASSUME NEW j \in Jobs, CloneRow(j) PROVE \A x \in Exports : GoesOn(x)' /\ Whole(x)'
  <2>1. ASSUME NEW x \in Exports PROVE GoesOn(x)' /\ Whole(x)'
    <3>0. UNCHANGED <<held, exported>> /\ (Advance(j) \/ Leave(j, 1))  BY <1>6 DEF CloneRow
    <3>1. UNCHANGED <<held[x], exported[x], taken[x], until[x], pos[x]>>
      <4>1. CASE Advance(j)  BY <3>0, <4>1 DEF Advance, TypeOK
      <4>2. CASE Leave(j, 1)  BY <3>0, <4>2 DEF Leave, TypeOK
      <4> QED BY <3>0, <4>1, <4>2
    <3>2. held[x] = None => opened'[x] = opened[x]
      BY <1>6 DEF CloneRow, AtRow, MakeRow, Advance, Leave, Disturb, TypeOK, Objects
    <3>3. held[x] # None => RowsStay(x)  BY <1>6, NotDisturbed
    <3> HIDE DEF GoesOn, Whole, RowsStay, data, exporting
    <3> QED BY <1>0, <3>1, <3>2, <3>3, ExportStays
  <2> QED BY <2>1
<1>7. ASSUME NEW j \in Jobs, DropColumns(j) PROVE \A x \in Exports : GoesOn(x)' /\ Whole(x)'
  <2>1. ASSUME NEW x \in Exports PROVE GoesOn(x)' /\ Whole(x)'
    <3>1. UNCHANGED <<held[x], exported[x], taken[x], until[x], pos[x]>>
      BY <1>7 DEF DropColumns, AtRow, WriteRow, Advance, Disturb, TypeOK
    <3>2. held[x] = None => opened'[x] = opened[x]
      BY <1>7 DEF DropColumns, AtRow, WriteRow, Advance, Disturb, Disturb, TypeOK, Objects
    <3>3. held[x] # None => RowsStay(x)  BY <1>7, NotDisturbed
    <3> HIDE DEF GoesOn, Whole, RowsStay, data, exporting
    <3> QED BY <1>0, <3>1, <3>2, <3>3, ExportStays
  <2> QED BY <2>1
<1>8. ASSUME NEW j \in Jobs, ReplaceColumns(j) PROVE \A x \in Exports : GoesOn(x)' /\ Whole(x)'
  <2>1. ASSUME NEW x \in Exports PROVE GoesOn(x)' /\ Whole(x)'
    <3>1. UNCHANGED <<held[x], exported[x], taken[x], until[x], pos[x]>>
      BY <1>8 DEF ReplaceColumns, PastRows, Leave, Disturb, TypeOK
    <3>2. held[x] = None => opened'[x] = opened[x]
      BY <1>8 DEF ReplaceColumns, PastRows, Leave, Disturb, Disturb, TypeOK, Objects
    <3>3. held[x] # None => RowsStay(x)  BY <1>8, NotDisturbed
    <3> HIDE DEF GoesOn, Whole, RowsStay, data, exporting
    <3> QED BY <1>0, <3>1, <3>2, <3>3, ExportStays
  <2> QED BY <2>1
<1>9. ASSUME NEW j \in Jobs, RewriteRow(j) PROVE \A x \in Exports : GoesOn(x)' /\ Whole(x)'
  <2>1. ASSUME NEW x \in Exports PROVE GoesOn(x)' /\ Whole(x)'
    <3>1. UNCHANGED <<held[x], exported[x], taken[x], until[x], pos[x]>>
      BY <1>9 DEF RewriteRow, AtRow, WriteRow, Advance, Disturb, TypeOK
    <3>2. held[x] = None => opened'[x] = opened[x]
      <4>1. CASE UNCHANGED opened  BY <4>1
      <4>2. CASE Disturb(work[j])  BY <4>2 DEF Disturb, TypeOK, Objects
      <4> QED BY <1>9, <4>1, <4>2 DEF RewriteRow, WriteRow
    <3>3. held[x] # None => RowsStay(x)  BY <1>9, NotDisturbed
    <3> HIDE DEF GoesOn, Whole, RowsStay, data, exporting
    <3> QED BY <1>0, <3>1, <3>2, <3>3, ExportStays
  <2> QED BY <2>1
<1>10. ASSUME NEW j \in Jobs, CopyBack(j) PROVE \A x \in Exports : GoesOn(x)' /\ Whole(x)'
  <2>1. ASSUME NEW x \in Exports PROVE GoesOn(x)' /\ Whole(x)'
    <3>1. UNCHANGED <<held[x], exported[x], taken[x], until[x], pos[x]>>
      BY <1>10 DEF CopyBack, PastRows, Leave, Disturb, TypeOK
    <3>2. held[x] = None => opened'[x] = opened[x]
      BY <1>10 DEF CopyBack, PastRows, Leave, Disturb, Disturb, TypeOK, Objects
    <3>3. held[x] # None => RowsStay(x)  BY <1>10, NotDisturbed
    <3> HIDE DEF GoesOn, Whole, RowsStay, data, exporting
    <3> QED BY <1>0, <3>1, <3>2, <3>3, ExportStays
  <2> QED BY <2>1
<1>11. ASSUME NEW j \in Jobs, EndRewrite(j) PROVE \A x \in Exports : GoesOn(x)' /\ Whole(x)'
  <2>1. ASSUME NEW x \in Exports PROVE GoesOn(x)' /\ Whole(x)'
    <3>0. /\ UNCHANGED <<held, exported, until>> /\ pos' = [pos EXCEPT ![j] = 1]
          /\ taken' = taken \/ taken' = [taken EXCEPT ![j] = j]
      BY <1>11 DEF EndRewrite
    <3>1. UNCHANGED <<held[x], exported[x], taken[x], until[x], pos[x]>>
      <4>1. taken'[x] = taken[x]
        <5>1. CASE taken' = taken  BY <5>1
        <5>2. CASE taken' = [taken EXCEPT ![j] = j]  BY <5>2
        <5> QED BY <3>0, <5>1, <5>2
      <4> QED BY <3>0, <4>1
    <3>2. held[x] = None => opened'[x] = opened[x]
      BY <1>11 DEF EndRewrite, ForgetRows, Disturb, TypeOK, Objects
    <3>3. held[x] # None => RowsStay(x)  BY <1>11, NotDisturbed
    <3> HIDE DEF GoesOn, Whole, RowsStay, data, exporting
    <3> QED BY <1>0, <3>1, <3>2, <3>3, ExportStays
  <2> QED BY <2>1
<1>12. ASSUME NEW j \in Jobs, CompareRow(j) PROVE \A x \in Exports : GoesOn(x)' /\ Whole(x)'
  <2>1. ASSUME NEW x \in Exports PROVE GoesOn(x)' /\ Whole(x)'
    <3>1. UNCHANGED <<held[x], exported[x], taken[x], until[x], pos[x]>>
      BY <1>12 DEF CompareRow, AtRow, Advance, TypeOK
    <3>2. held[x] = None => opened'[x] = opened[x]
      BY <1>12 DEF CompareRow, AtRow, Advance, Disturb, TypeOK, Objects
    <3>3. held[x] # None => RowsStay(x)  BY <1>12, NotDisturbed
    <3> HIDE DEF GoesOn, Whole, RowsStay, data, exporting
    <3> QED BY <1>0, <3>1, <3>2, <3>3, ExportStays
  <2> QED BY <2>1
<1>13. ASSUME NEW j \in Jobs, EndCompare(j) PROVE \A x \in Exports : GoesOn(x)' /\ Whole(x)'
  <2>1. ASSUME NEW x \in Exports PROVE GoesOn(x)' /\ Whole(x)'
    <3>1. UNCHANGED <<held[x], exported[x], taken[x], until[x], pos[x]>>
      BY <1>13 DEF EndCompare, PastRows, TypeOK
    <3>2. held[x] = None => opened'[x] = opened[x]
      BY <1>13 DEF EndCompare, PastRows, Disturb, TypeOK, Objects
    <3>3. held[x] # None => RowsStay(x)  BY <1>13, NotDisturbed
    <3> HIDE DEF GoesOn, Whole, RowsStay, data, exporting
    <3> QED BY <1>0, <3>1, <3>2, <3>3, ExportStays
  <2> QED BY <2>1
<1>14. ASSUME NEW j \in Jobs, KeepAll(j) PROVE \A x \in Exports : GoesOn(x)' /\ Whole(x)'
  <2>1. ASSUME NEW x \in Exports PROVE GoesOn(x)' /\ Whole(x)'
    <3>1. UNCHANGED <<held[x], exported[x], taken[x], until[x], pos[x]>>
      BY <1>14 DEF KeepAll, AtRow, TypeOK
    <3>2. held[x] = None => opened'[x] = opened[x]
      BY <1>14 DEF KeepAll, AtRow, Disturb, TypeOK, Objects
    <3>3. held[x] # None => RowsStay(x)  BY <1>14, NotDisturbed
    <3> HIDE DEF GoesOn, Whole, RowsStay, data, exporting
    <3> QED BY <1>0, <3>1, <3>2, <3>3, ExportStays
  <2> QED BY <2>1
<1>15. ASSUME NEW j \in Jobs, ReplaceRecords(j) PROVE \A x \in Exports : GoesOn(x)' /\ Whole(x)'
  <2>1. ASSUME NEW x \in Exports PROVE GoesOn(x)' /\ Whole(x)'
    <3>1. UNCHANGED <<held[x], exported[x], taken[x], until[x], pos[x]>>
      BY <1>15 DEF ReplaceRecords, Replace, Leave, TypeOK
    <3>2. held[x] = None => opened'[x] = opened[x]
      BY <1>15 DEF ReplaceRecords, Replace, Leave, Disturb, TypeOK, Objects
    <3>3. held[x] # None => RowsStay(x)  BY <1>15, NotDisturbed
    <3> HIDE DEF GoesOn, Whole, RowsStay, data, exporting
    <3> QED BY <1>0, <3>1, <3>2, <3>3, ExportStays
  <2> QED BY <2>1
<1>16. ASSUME NEW j \in Jobs, Put(j) PROVE \A x \in Exports : GoesOn(x)' /\ Whole(x)'
  <2>1. ASSUME NEW x \in Exports PROVE GoesOn(x)' /\ Whole(x)'
    <3>1. UNCHANGED <<held[x], exported[x], taken[x], until[x], pos[x]>>
      BY <1>16 DEF Put, Leave, TypeOK
    <3>2. held[x] = None => opened'[x] = opened[x]
      BY <1>16 DEF Put, Leave, Disturb, TypeOK, Objects
    <3>3. held[x] # None => RowsStay(x)  BY <1>16, NotDisturbed
    <3> HIDE DEF GoesOn, Whole, RowsStay, data, exporting
    <3> QED BY <1>0, <3>1, <3>2, <3>3, ExportStays
  <2> QED BY <2>1
<1>17. ASSUME NEW j \in Jobs, AnalyzeRow(j) PROVE \A x \in Exports : GoesOn(x)' /\ Whole(x)'
  <2>1. ASSUME NEW x \in Exports PROVE GoesOn(x)' /\ Whole(x)'
    <3>1. UNCHANGED <<held[x], exported[x], taken[x], until[x], pos[x]>>
      BY <1>17 DEF AnalyzeRow, AtRow, Advance, TypeOK
    <3>2. held[x] = None => opened'[x] = opened[x]
      BY <1>17 DEF AnalyzeRow, AtRow, Advance, Disturb, TypeOK, Objects
    <3>3. held[x] # None => RowsStay(x)  BY <1>17, NotDisturbed
    <3> HIDE DEF GoesOn, Whole, RowsStay, data, exporting
    <3> QED BY <1>0, <3>1, <3>2, <3>3, ExportStays
  <2> QED BY <2>1
<1>18. ASSUME NEW j \in Jobs, Save(j) PROVE \A x \in Exports : GoesOn(x)' /\ Whole(x)'
  <2>1. ASSUME NEW x \in Exports PROVE GoesOn(x)' /\ Whole(x)'
    <3>1. UNCHANGED <<held[x], exported[x], taken[x], until[x], pos[x]>>
      BY <1>18 DEF Save, PastRows, Leave, TypeOK
    <3>2. held[x] = None => opened'[x] = opened[x]
      BY <1>18 DEF Save, PastRows, Leave, Disturb, TypeOK, Objects
    <3>3. held[x] # None => RowsStay(x)  BY <1>18, NotDisturbed
    <3> HIDE DEF GoesOn, Whole, RowsStay, data, exporting
    <3> QED BY <1>0, <3>1, <3>2, <3>3, ExportStays
  <2> QED BY <2>1
<1>19. ASSUME NEW j \in Jobs, Panic(j) PROVE \A x \in Exports : GoesOn(x)' /\ Whole(x)'
  <2>1. ASSUME NEW x \in Exports PROVE GoesOn(x)' /\ Whole(x)'
    <3>1. UNCHANGED <<held[x], exported[x], taken[x], until[x], pos[x]>>
      BY <1>19 DEF Panic, AtRow, PastRows, TypeOK
    <3>2. held[x] = None => opened'[x] = opened[x]
      BY <1>19 DEF Panic, AtRow, PastRows, Disturb, TypeOK, Objects
    <3>3. held[x] # None => RowsStay(x)  BY <1>19, NotDisturbed
    <3> HIDE DEF GoesOn, Whole, RowsStay, data, exporting
    <3> QED BY <1>0, <3>1, <3>2, <3>3, ExportStays
  <2> QED BY <2>1
<1>20. ASSUME NEW e \in Exports, NEW i \in Ids, Open(e, i) PROVE \A x \in Exports : GoesOn(x)' /\ Whole(x)'
  <2>1. ASSUME NEW x \in Exports \ {e} PROVE GoesOn(x)' /\ Whole(x)'
    <3>1. UNCHANGED <<held[x], exported[x], taken[x], until[x], pos[x]>>
      BY <1>20 DEF Open, TypeOK
    <3>2. RowsStay(x)  BY <1>20 DEF Open, RowsStay, TypeOK
    <3> HIDE DEF GoesOn, Whole, RowsStay, data, exporting
    <3> QED BY <1>0, <3>1, <3>2, ExportStays
  <2>2. GoesOn(e) /\ Whole(e)  BY <1>0
  <2>3. GoesOn(e)' /\ Whole(e)'
    <3>1. held[e] = None /\ held'[e] \in Objects /\ UNCHANGED <<until, exported>>
      BY <1>20 DEF Open, TypeOK
    <3>2. until[e] = 0  BY <3>1 DEF Lengths, ExportLengths
    <3>3. exported[e] = <<>>  BY <2>2, <3>2 DEF GoesOn
    <3> QED BY <3>1, <3>2, <3>3 DEF GoesOn, Whole, Objects
  <2> HIDE DEF GoesOn, Whole, data, exporting
  <2> QED BY <2>1, <2>3
<1>21. ASSUME NEW e \in Exports, NEW j \in Jobs, RangeTorn(e, j) PROVE \A x \in Exports : GoesOn(x)' /\ Whole(x)'
  <2>1. ASSUME NEW x \in Exports \ {e} PROVE GoesOn(x)' /\ Whole(x)'
    <3>1. UNCHANGED <<held[x], exported[x], taken[x], until[x], pos[x]>>
      BY <1>21 DEF RangeTorn, TypeOK
    <3>2. RowsStay(x)  BY <1>21 DEF RangeTorn, RowsStay, TypeOK
    <3> HIDE DEF GoesOn, Whole, RowsStay, data, exporting
    <3> QED BY <1>0, <3>1, <3>2, ExportStays
  <2>2. GoesOn(e) /\ Whole(e)  BY <1>0
  <2>3. GoesOn(e)' /\ Whole(e)'
    <3>1. opened'[e] = None /\ exported' = exported /\ until[e] = 0  BY <1>21 DEF RangeTorn,
        TypeOK
    <3>2. exported[e] = <<>>  BY <2>2, <3>1 DEF GoesOn
    <3> QED BY <3>1, <3>2 DEF GoesOn, Whole
  <2> HIDE DEF GoesOn, Whole, data, exporting
  <2> QED BY <2>1, <2>3
<1>22. ASSUME NEW e \in Exports, RangeOver(e) PROVE \A x \in Exports : GoesOn(x)' /\ Whole(x)'
  <2>1. ASSUME NEW x \in Exports \ {e} PROVE GoesOn(x)' /\ Whole(x)'
    <3>1. UNCHANGED <<held[x], exported[x], taken[x], until[x], pos[x]>>
      BY <1>22 DEF RangeOver, TypeOK
    <3>2. RowsStay(x)  BY <1>22 DEF RangeOver, RowsStay, TypeOK
    <3> HIDE DEF GoesOn, Whole, RowsStay, data, exporting
    <3> QED BY <1>0, <3>1, <3>2, ExportStays
  <2>2. GoesOn(e) /\ Whole(e)  BY <1>0
  <2>3. GoesOn(e)' /\ Whole(e)'
    <3>1. /\ held[e] # None /\ until[e] = 0 /\ UNCHANGED <<exported, held, pos, data>>
          /\ until'[e] = Length(held[e]) /\ taken'[e] = records[held[e]]
          /\ opened'[e] = None \/ opened'[e] = Contents(held[e])
      BY <1>22 DEF RangeOver, TypeOK
    <3>2. exported[e] = <<>> /\ pos[e] = 1
      BY <2>2, <3>1 DEF GoesOn, Lengths, ExportLengths
    <3>3. held[e] \in Objects /\ records[held[e]] \in Slices  BY <3>1 DEF TypeOK
    <3>4. Len(Contents(held[e])) = Length(held[e])  BY <3>3, AtARow DEF Contents, Length
    <3>5. Through(held[e], taken[e])' = Contents(held[e])
      BY <3>1 DEF Through, Contents, data
    <3> HIDE DEF Through, Contents, Length, data
    <3>6. Len(<<>>) = 0  OBVIOUS
    <3> QED BY <3>1, <3>2, <3>4, <3>5, <3>6 DEF GoesOn, Whole
  <2> HIDE DEF GoesOn, Whole, data, exporting
  <2> QED BY <2>1, <2>3
<1>23. ASSUME NEW e \in Exports, ExportRow(e) PROVE \A x \in Exports : GoesOn(x)' /\ Whole(x)'
  <2>1. ASSUME NEW x \in Exports \ {e} PROVE GoesOn(x)' /\ Whole(x)'
    <3>1. UNCHANGED <<held[x], exported[x], taken[x], until[x], pos[x]>>
      BY <1>23 DEF ExportRow, Advance, TypeOK
    <3>2. RowsStay(x)  BY <1>23 DEF ExportRow, Advance, RowsStay, TypeOK
    <3> HIDE DEF GoesOn, Whole, RowsStay, data, exporting
    <3> QED BY <1>0, <3>1, <3>2, ExportStays
  <2>2. GoesOn(e) /\ Whole(e)  BY <1>0
  <2>3. GoesOn(e)' /\ Whole(e)'
    <3> DEFINE read == Through(held[e], taken[e])[pos[e]]
    <3>1. /\ held[e] # None /\ pos[e] <= until[e] /\ UNCHANGED <<held, opened, data>>
          /\ taken'[e] = taken[e] /\ until'[e] = until[e] /\ pos'[e] = pos[e] + 1
          /\ exported'[e] = Append(exported[e], read)
      BY <1>23 DEF ExportRow, Advance, TypeOK
    <3>2. Through(held[e], taken[e])' = Through(held[e], taken[e])
      BY <3>1 DEF Through, data
    <3>3. pos[e] \in Nat \ {0} /\ until[e] \in Nat /\ exported[e] \in Seq(SUBSET Jobs)
      BY DEF TypeOK, RowsSoFar
    <3> HIDE DEF Through, data
    <3>4. GoesOn(e)'  BY <2>2, <3>1, <3>2, <3>3 DEF GoesOn
    <3>5. CASE opened[e] = None  BY <3>1, <3>4, <3>5 DEF Whole
    <3>6. CASE opened[e] # None
      <4>1. /\ until[e] = Len(opened[e]) /\ Len(exported[e]) = pos[e] - 1
            /\ \A k \in 1..(pos[e] - 1) : exported[e][k] = opened[e][k]
            /\ opened[e] = Through(held[e], taken[e])
        BY <2>2, <3>1, <3>3, <3>6 DEF GoesOn, Whole
      <4>2. read = opened[e][pos[e]]  BY <4>1
      <4> HIDE DEF read
      <4>3. /\ Len(exported'[e]) = pos[e] /\ exported'[e][pos[e]] = read
            /\ \A k \in 1..(pos[e] - 1) : exported'[e][k] = exported[e][k]
        <5>1. ASSUME NEW S, NEW s \in Seq(S), NEW x
              PROVE /\ Len(Append(s, x)) = Len(s) + 1 /\ Append(s, x)[Len(s) + 1] = x
                    /\ \A k \in 1..Len(s) : Append(s, x)[k] = s[k]
          OBVIOUS
        <5>2. /\ Len(Append(exported[e], read)) = Len(exported[e]) + 1
              /\ Append(exported[e], read)[Len(exported[e]) + 1] = read
              /\ \A k \in 1..Len(exported[e]) : Append(exported[e], read)[k] = exported[e][k]
          BY <3>3, <5>1
        <5>3. Len(exported[e]) + 1 = pos[e]  BY <3>3, <4>1
        <5> QED BY <3>1, <4>1, <5>2, <5>3
      <4>4. pos'[e] - 1 = pos[e]  BY <3>1, <3>3
      <4>5. \A k \in 1..pos[e] : exported'[e][k] = opened[e][k]
        <5>1. SUFFICES ASSUME NEW k \in 1..pos[e] PROVE exported'[e][k] = opened[e][k]  OBVIOUS
        <5>2. CASE k = pos[e]  BY <4>2, <4>3, <5>2
        <5>3. CASE k # pos[e]
          <6>1. k \in 1..(pos[e] - 1)  BY <3>3, <5>3
          <6> QED BY <4>1, <4>3, <6>1
        <5> QED BY <5>2, <5>3
      <4> QED BY <3>1, <3>4, <4>1, <4>3, <4>4, <4>5 DEF Whole
    <3> QED BY <3>5, <3>6
  <2> HIDE DEF GoesOn, Whole, data, exporting
  <2> QED BY <2>1, <2>3
<1>24. ASSUME NEW e \in Exports, Close(e) PROVE \A x \in Exports : GoesOn(x)' /\ Whole(x)'
  <2>1. ASSUME NEW x \in Exports \ {e} PROVE GoesOn(x)' /\ Whole(x)'
    <3>1. UNCHANGED <<held[x], exported[x], taken[x], until[x], pos[x]>>
      BY <1>24 DEF Close, Leave, TypeOK
    <3>2. RowsStay(x)  BY <1>24 DEF Close, Leave, RowsStay, TypeOK
    <3> HIDE DEF GoesOn, Whole, RowsStay, data, exporting
    <3> QED BY <1>0, <3>1, <3>2, ExportStays
  <2>2. GoesOn(e) /\ Whole(e)  BY <1>0
  <2>3. GoesOn(e)' /\ Whole(e)'
    <3>1. opened'[e] = None /\ exported'[e] = <<>>  BY <1>24 DEF Close, TypeOK
    <3> QED BY <3>1 DEF GoesOn, Whole
  <2> HIDE DEF GoesOn, Whole, data, exporting
  <2> QED BY <2>1, <2>3
<1>25. CASE Crash \/ UNCHANGED vars
  <2>1. UNCHANGED <<data, held, exported, opened>>
        /\ \A x \in Exports : taken'[x] = taken[x] /\ until'[x] = until[x] /\ pos'[x] = pos[x]
    BY <1>25 DEF Crash, vars, TypeOK
  <2>2. \A x \in Exports : RowsStay(x)  BY <2>1 DEF RowsStay
  <2> HIDE DEF GoesOn, Whole, RowsStay, data, exporting
  <2> QED BY <1>0, <2>1, <2>2, ExportStays
<1> QED
  BY <1>1, <1>2, <1>3, <1>4, <1>5, <1>6, <1>7, <1>8, <1>9,
     <1>10, <1>11, <1>12, <1>13, <1>14, <1>15, <1>16, <1>17, <1>18,
     <1>19, <1>20, <1>21, <1>22, <1>23, <1>24, <1>25
  DEF Next

-----------------------------------------------------------------------------
(* What the store serves                                                   *)

\* An analysis fits as long as nobody is at work on the dataset.
LEMMA AnalysisKept ==
    ASSUME TypeOK, TypeOK', AnalysisFits, NEW j \in Jobs,
           Running(j) => work'[j] = work[j],
           \A o \in Objects \ {work'[j]} :
              /\ arrays'[o] = arrays[o] /\ rows'[o] = rows[o] /\ records'[o] = records[o]
              /\ analysis'[o] = analysis[o] /\ (o \in unfit => o \in unfit'),
           \A k \in Jobs \ {j} : at'[k] = at[k] /\ work'[k] = work[k],
           \A i \in Ids : datasets'[i] = datasets[i] \/ datasets'[i] = work'[j],
           \/ Running(j)' \/ work'[j] \in unfit'
           \/ analysis'[work'[j]] = Contents(work[j])' /\ work'[j] = work[j]
    PROVE AnalysisFits'
<1> USE StoreAssumption
<1> SUFFICES ASSUME NEW i \in Ids, datasets'[i] # None, datasets'[i] \notin unfit',
                    AtWork(datasets[i])' = {}
             PROVE analysis'[datasets'[i]] = Contents(datasets[i])'
  BY DEF AnalysisFits
<1>1. datasets'[i] \in Objects  BY DEF TypeOK
<1>2. CASE datasets'[i] = work'[j]
  <2>1. ~Running(j)'  BY <1>2 DEF AtWork, Running
  <2>2. analysis'[work'[j]] = Contents(work[j])' /\ work'[j] = work[j]  BY <1>2, <2>1
  <2> QED BY <1>2, <2>2 DEF Contents, Through
<1>3. CASE datasets'[i] # work'[j]
  <2> DEFINE o == datasets[i]
  <2>1. datasets'[i] = o /\ o \in Objects \ {work'[j]}  BY <1>1, <1>3
  <2>2. o \notin unfit  BY <2>1
  <2>3. AtWork(o) = {}
    <3>1. SUFFICES ASSUME NEW k \in Jobs, work[k] = o, Running(k) PROVE FALSE  BY DEF AtWork
    <3>2. k # j  BY <3>1, <2>1
    <3>3. work'[k] = o /\ Running(k)'  BY <3>1, <3>2 DEF Running
    <3> QED BY <3>3, <2>1 DEF AtWork
  <2>4. analysis[o] = Contents(o)  BY <2>1, <2>2, <2>3 DEF AnalysisFits
  <2>5. arrays'[o] = arrays[o] /\ rows'[o] = rows[o] /\ records'[o] = records[o]
        /\ analysis'[o] = analysis[o]
    BY <2>1
  <2>6. Contents(datasets[i])' = Contents(o)
    <3> HIDE DEF o
    <3> QED BY <2>1, <2>5 DEF Contents, Through
  <2> HIDE DEF Contents
  <2> QED BY <2>1, <2>4, <2>5, <2>6
<1> QED BY <1>2, <1>3

LEMMA AnalysisStep ==
    /\ TypeOK /\ TypeOK' /\ Filed /\ Shape /\ Lengths /\ Scanned /\ AnalysisFits
    /\ [Next]_vars
    => AnalysisFits'
<1> SUFFICES ASSUME TypeOK, TypeOK', Filed, Shape, Lengths, Scanned, AnalysisFits, [Next]_vars
             PROVE AnalysisFits'
  OBVIOUS
<1> USE StoreAssumption DEF plan, data, cleaning, pass, exporting, history
<1>1. ASSUME NEW j \in Jobs, NEW i \in Ids, Start(j, i) PROVE AnalysisFits'
  <2>1. /\ UNCHANGED <<datasets, data, analysis, unfit>> /\ ~Running(j)
        /\ \A k \in Jobs \ {j} : at'[k] = at[k] /\ work'[k] = work[k]
    BY <1>1 DEF Start, Running, TypeOK
  <2>2. Running(j)'
    <3>1. PICK p \in {"read", "clone", "compare"} \cup CleanFrom : at' = [at EXCEPT ![j] = p]
      BY <1>1 DEF Start, Kinds, TypeOK
    <3> QED BY <3>1 DEF CleanFrom, Running, TypeOK
  <2>3. \A o \in Objects :
          /\ arrays'[o] = arrays[o] /\ rows'[o] = rows[o] /\ records'[o] = records[o]
          /\ analysis'[o] = analysis[o] /\ (o \in unfit => o \in unfit')
    BY <2>1
  <2> HIDE DEF data, plan, history
  <2> QED BY <2>1, <2>2, <2>3, AnalysisKept
<1>2. ASSUME NEW j \in Jobs, NEW i \in Ids, NotFound(j, i) PROVE AnalysisFits'
  <2>1. /\ UNCHANGED <<datasets, data, analysis, work, unfit>> /\ at[j] = "new"
        /\ at' = [at EXCEPT ![j] = "failed"]
    BY <1>2 DEF NotFound
  <2>2. \A k \in Jobs : Running(k)' <=> Running(k)  BY <2>1 DEF Running, TypeOK
  <2> HIDE DEF Running
  <2>3. \A o \in Objects : AtWork(o)' = AtWork(o)  BY <2>1, <2>2 DEF AtWork
  <2>4. \A n \in Ids : datasets[n] # None => datasets[n] \in Objects  BY DEF TypeOK
  <2>5. \A n \in Ids : datasets[n] # None => AtWork(datasets[n])' = AtWork(datasets[n])
    BY <2>1, <2>3, <2>4 DEF AtWork
  <2>6. \A n \in Ids : Contents(datasets[n])' = Contents(datasets[n])
    BY <2>1 DEF Contents, Through
  <2> HIDE DEF AtWork, Contents
  <2> QED BY <2>1, <2>5, <2>6 DEF AnalysisFits
<1>3. ASSUME NEW j \in Jobs, Cancel(j) PROVE AnalysisFits'
  <2>1. /\ work' = work
        /\ \A o \in Objects \ {work[j]} :
              arrays'[o] = arrays[o] /\ rows'[o] = rows[o] /\ records'[o] = records[o]
    BY <1>3, ItsOwnOnly
  <2>2. /\ analysis' = analysis /\ unfit \subseteq unfit'
        /\ \A i \in Ids : datasets'[i] = datasets[i] \/ datasets'[i] = work[j]
    BY <1>3 DEF Cancel, Leave, ForgetRows, TypeOK
  <2>3. \A k \in Jobs \ {j} : at'[k] = at[k]  BY <1>3 DEF Cancel, Leave, ForgetRows, TypeOK
  <2>4. work[j] \in unfit'  BY <1>3 DEF Cancel
  <2> HIDE DEF data, plan, history
  <2> QED BY <2>1, <2>2, <2>3, <2>4, AnalysisKept
<1>4. ASSUME NEW j \in Jobs, TakeRows(j) PROVE AnalysisFits'
  <2>1. /\ work' = work
        /\ \A o \in Objects \ {work[j]} :
              arrays'[o] = arrays[o] /\ rows'[o] = rows[o] /\ records'[o] = records[o]
    BY <1>4, ItsOwnOnly
  <2>2. /\ analysis' = analysis /\ unfit \subseteq unfit'
        /\ \A i \in Ids : datasets'[i] = datasets[i] \/ datasets'[i] = work[j]
    BY <1>4 DEF TakeRows, TypeOK
  <2>3. \A k \in Jobs \ {j} : at'[k] = at[k]  BY <1>4 DEF TakeRows, TypeOK
  <2>4. Running(j)'  BY <1>4 DEF TakeRows, Running, CleanFrom, TypeOK
  <2> HIDE DEF data, plan, history
  <2> QED BY <2>1, <2>2, <2>3, <2>4, AnalysisKept
<1>5. ASSUME NEW j \in Jobs, ReadRow(j) PROVE AnalysisFits'
  <2>1. /\ work' = work
        /\ \A o \in Objects \ {work[j]} :
              arrays'[o] = arrays[o] /\ rows'[o] = rows[o] /\ records'[o] = records[o]
    BY <1>5, ItsOwnOnly
  <2>2. /\ analysis' = analysis /\ unfit \subseteq unfit'
        /\ \A i \in Ids : datasets'[i] = datasets[i] \/ datasets'[i] = work[j]
    BY <1>5 DEF ReadRow, MakeRow, TypeOK
  <2>3. \A k \in Jobs \ {j} : at'[k] = at[k]  BY <1>5 DEF ReadRow, MakeRow, TypeOK
  <2>4. Running(j)'  BY <1>5 DEF ReadRow, MakeRow, Running, CleanFrom, TypeOK
  <2> HIDE DEF data, plan, history
  <2> QED BY <2>1, <2>2, <2>3, <2>4, AnalysisKept
<1>6. ASSUME NEW j \in Jobs, CloneRow(j) PROVE AnalysisFits'
  <2>0. /\ at[j] = "clone" /\ work[j] = j /\ analysis' = [analysis EXCEPT ![j] = analysis[source[j]]]
        /\ at' = at \/ \E p \in CleanFrom : at' = [at EXCEPT ![j] = p]
    BY <1>6 DEF CloneRow, AtRow, Shape, InPlace
  <2>1. /\ work' = work
        /\ \A o \in Objects \ {work[j]} :
              arrays'[o] = arrays[o] /\ rows'[o] = rows[o] /\ records'[o] = records[o]
    BY <1>6, ItsOwnOnly
  <2>2. /\ \A o \in Objects \ {work[j]} : analysis'[o] = analysis[o]
        /\ unfit' = unfit /\ datasets' = datasets
    BY <2>0, <1>6 DEF CloneRow, TypeOK
  <2>3. \A k \in Jobs \ {j} : at'[k] = at[k]
    <3>1. CASE at' = at  BY <3>1
    <3>2. CASE \E p \in CleanFrom : at' = [at EXCEPT ![j] = p]  BY <3>2
    <3> QED BY <2>0, <3>1, <3>2
  <2>4. Running(j)'
    <3>1. CASE at' = at  BY <2>0, <3>1 DEF Running
    <3>2. CASE \E p \in CleanFrom : at' = [at EXCEPT ![j] = p]
      BY <2>0, <3>2 DEF Running, CleanFrom, TypeOK
    <3> QED BY <2>0, <3>1, <3>2
  <2> HIDE DEF data, plan, history
  <2> QED BY <2>1, <2>2, <2>3, <2>4, AnalysisKept
<1>7. ASSUME NEW j \in Jobs, DropColumns(j) \/ RewriteRow(j) \/ CompareRow(j) \/ AnalyzeRow(j)
      PROVE AnalysisFits'
  <2>1. /\ work' = work
        /\ \A o \in Objects \ {work[j]} :
              arrays'[o] = arrays[o] /\ rows'[o] = rows[o] /\ records'[o] = records[o]
    BY <1>7, ItsOwnOnly
  <2>2. /\ analysis' = analysis /\ unfit \subseteq unfit'
        /\ \A i \in Ids : datasets'[i] = datasets[i] \/ datasets'[i] = work[j]
    BY <1>7 DEF DropColumns, RewriteRow, CompareRow, AnalyzeRow, AtRow, WriteRow, Advance,
        Disturb, TypeOK
  <2>3. \A k \in Jobs \ {j} : at'[k] = at[k]  BY <1>7 DEF DropColumns, RewriteRow, CompareRow,
      AnalyzeRow, AtRow, WriteRow, Advance, Disturb, TypeOK
  <2>4. Running(j)'  BY <1>7 DEF DropColumns, RewriteRow, CompareRow, AnalyzeRow, AtRow,
      WriteRow, Advance, Disturb, Running, CleanFrom, TypeOK
  <2> HIDE DEF data, plan, history
  <2> QED BY <2>1, <2>2, <2>3, <2>4, AnalysisKept
<1>8. ASSUME NEW j \in Jobs, ReplaceColumns(j) PROVE AnalysisFits'
  <2>1. /\ work' = work
        /\ \A o \in Objects \ {work[j]} :
              arrays'[o] = arrays[o] /\ rows'[o] = rows[o] /\ records'[o] = records[o]
    BY <1>8, ItsOwnOnly
  <2>2. /\ analysis' = analysis /\ unfit \subseteq unfit'
        /\ \A i \in Ids : datasets'[i] = datasets[i] \/ datasets'[i] = work[j]
    BY <1>8 DEF ReplaceColumns, PastRows, Leave, Disturb, TypeOK
  <2>3. \A k \in Jobs \ {j} : at'[k] = at[k]  BY <1>8 DEF ReplaceColumns, PastRows, Leave,
      Disturb, TypeOK
  <2>4. Running(j)'  BY <1>8 DEF ReplaceColumns, PastRows, Leave, Disturb, Running, CleanFrom,
      TypeOK
  <2> HIDE DEF data, plan, history
  <2> QED BY <2>1, <2>2, <2>3, <2>4, AnalysisKept
<1>9. ASSUME NEW j \in Jobs, CopyBack(j) PROVE AnalysisFits'
  <2>1. /\ work' = work
        /\ \A o \in Objects \ {work[j]} :
              arrays'[o] = arrays[o] /\ rows'[o] = rows[o] /\ records'[o] = records[o]
    BY <1>9, ItsOwnOnly
  <2>2. /\ analysis' = analysis /\ unfit \subseteq unfit'
        /\ \A i \in Ids : datasets'[i] = datasets[i] \/ datasets'[i] = work[j]
    BY <1>9 DEF CopyBack, PastRows, Leave, Disturb, TypeOK
  <2>3. \A k \in Jobs \ {j} : at'[k] = at[k]  BY <1>9 DEF CopyBack, PastRows, Leave, Disturb,
      TypeOK
  <2>4. Running(j)'  BY <1>9 DEF CopyBack, PastRows, Leave, Disturb, Running, CleanFrom, TypeOK
  <2> HIDE DEF data, plan, history
  <2> QED BY <2>1, <2>2, <2>3, <2>4, AnalysisKept
<1>10. ASSUME NEW j \in Jobs, EndRewrite(j) PROVE AnalysisFits'
  <2>0. \E p \in {"put", "replace"} : at' = [at EXCEPT ![j] = p]  BY <1>10 DEF EndRewrite
  <2>1. /\ work' = work
        /\ \A o \in Objects \ {work[j]} :
              arrays'[o] = arrays[o] /\ rows'[o] = rows[o] /\ records'[o] = records[o]
    BY <1>10, ItsOwnOnly
  <2>2. /\ analysis' = analysis /\ unfit \subseteq unfit'
        /\ \A i \in Ids : datasets'[i] = datasets[i] \/ datasets'[i] = work[j]
    BY <1>10 DEF EndRewrite, ForgetRows, TypeOK
  <2>3. \A k \in Jobs \ {j} : at'[k] = at[k]  BY <1>10, <2>0 DEF EndRewrite, ForgetRows, TypeOK
  <2>4. Running(j)'  BY <1>10, <2>0 DEF EndRewrite, ForgetRows, Running, CleanFrom, TypeOK
  <2> HIDE DEF data, plan, history
  <2> QED BY <2>1, <2>2, <2>3, <2>4, AnalysisKept
<1>11. ASSUME NEW j \in Jobs, EndCompare(j) \/ KeepAll(j)
      PROVE AnalysisFits'
  <2>1. /\ work' = work
        /\ \A o \in Objects \ {work[j]} :
              arrays'[o] = arrays[o] /\ rows'[o] = rows[o] /\ records'[o] = records[o]
    BY <1>11, ItsOwnOnly
  <2>2. /\ analysis' = analysis /\ unfit \subseteq unfit'
        /\ \A i \in Ids : datasets'[i] = datasets[i] \/ datasets'[i] = work[j]
    BY <1>11 DEF EndCompare, KeepAll, PastRows, AtRow, TypeOK
  <2>3. \A k \in Jobs \ {j} : at'[k] = at[k]  BY <1>11 DEF EndCompare, KeepAll, PastRows,
      AtRow, TypeOK
  <2>4. Running(j)'  BY <1>11 DEF EndCompare, KeepAll, PastRows, AtRow, Running, CleanFrom,
      TypeOK
  <2> HIDE DEF data, plan, history
  <2> QED BY <2>1, <2>2, <2>3, <2>4, AnalysisKept
<1>12. ASSUME NEW j \in Jobs, ReplaceRecords(j) PROVE AnalysisFits'
  <2>1. /\ work' = work
        /\ \A o \in Objects \ {work[j]} :
              arrays'[o] = arrays[o] /\ rows'[o] = rows[o] /\ records'[o] = records[o]
    BY <1>12, ItsOwnOnly
  <2>2. /\ analysis' = analysis /\ unfit \subseteq unfit'
        /\ \A i \in Ids : datasets'[i] = datasets[i] \/ datasets'[i] = work[j]
    BY <1>12 DEF ReplaceRecords, Replace, Leave, TypeOK
  <2>3. \A k \in Jobs \ {j} : at'[k] = at[k]  BY <1>12 DEF ReplaceRecords, Replace, Leave,
      TypeOK
  <2>4. Running(j)'  BY <1>12 DEF ReplaceRecords, Replace, Leave, Running, CleanFrom, TypeOK
  <2> HIDE DEF data, plan, history
  <2> QED BY <2>1, <2>2, <2>3, <2>4, AnalysisKept
<1>13. ASSUME NEW j \in Jobs, Put(j) PROVE AnalysisFits'
  <2>1. /\ work' = work
        /\ \A o \in Objects \ {work[j]} :
              arrays'[o] = arrays[o] /\ rows'[o] = rows[o] /\ records'[o] = records[o]
    BY <1>13, ItsOwnOnly
  <2>2. /\ analysis' = analysis /\ unfit \subseteq unfit'
        /\ \A i \in Ids : datasets'[i] = datasets[i] \/ datasets'[i] = work[j]
    BY <1>13 DEF Put, Leave, TypeOK
  <2>3. \A k \in Jobs \ {j} : at'[k] = at[k]  BY <1>13 DEF Put, Leave, TypeOK
  <2>4. Running(j)'  BY <1>13 DEF Put, Leave, Running, CleanFrom, TypeOK
  <2> HIDE DEF data, plan, history
  <2> QED BY <2>1, <2>2, <2>3, <2>4, AnalysisKept
<1>14. ASSUME NEW j \in Jobs, Save(j) PROVE AnalysisFits'
  <2>1. /\ work' = work
        /\ \A o \in Objects \ {work[j]} :
              arrays'[o] = arrays[o] /\ rows'[o] = rows[o] /\ records'[o] = records[o]
    BY <1>14, ItsOwnOnly
  <2>2. /\ \A o \in Objects \ {work[j]} :
              analysis'[o] = analysis[o] /\ (o \in unfit => o \in unfit')
        /\ \A i \in Ids : datasets'[i] = datasets[i] \/ datasets'[i] = work[j]
    BY <1>14 DEF Save, TypeOK
  <2>3. \A k \in Jobs \ {j} : at'[k] = at[k]  BY <1>14 DEF Save, PastRows, Leave, TypeOK
  <2>4. work[j] \in unfit' \/ analysis'[work[j]] = Contents(work[j])'
    <3>1. /\ at[j] = "analyze" /\ until[j] # 0 /\ pos[j] > until[j] /\ UNCHANGED <<data, work>>
          /\ analysis'[work[j]] = scanned[j]
          /\ j \in contested => work[j] \in unfit'
      BY <1>14 DEF Save, PastRows, TypeOK
    <3>2. CASE j \in contested  BY <3>1, <3>2
    <3>3. CASE j \notin contested
      <4> DEFINE c == Contents(work[j])
      <4>1. /\ Len(scanned[j]) = pos[j] - 1 /\ pos[j] <= until[j] + 1 /\ until[j] = Length(work[j])
            /\ \A k \in 1..(pos[j] - 1) : scanned[j][k] = c[k]
        BY <3>1, <3>3 DEF Scanned, ScannedBy
      <4>2. work[j] \in Objects /\ records[work[j]] \in Slices  BY DEF TypeOK
      <4>3. c \in Seq(SUBSET Jobs) /\ Len(c) = Length(work[j])
        BY <4>2, AtARow DEF Contents, Length, RowsSoFar
      <4>4. scanned[j] \in Seq(SUBSET Jobs) /\ pos[j] \in Nat /\ until[j] \in Nat
        BY DEF TypeOK, RowsSoFar
      <4>5. Contents(work[j])' = c  BY <3>1 DEF Contents, Through, data
      <4> HIDE DEF c
      <4>6. pos[j] - 1 = until[j]  BY <3>1, <4>1, <4>4
      <4>7. Len(scanned[j]) = Len(c) /\ \A k \in 1..Len(c) : scanned[j][k] = c[k]
        BY <4>1, <4>3, <4>6
      <4>8. scanned[j] = c  BY <4>3, <4>4, <4>7, SeqEqual
      <4> QED BY <3>1, <4>5, <4>8
    <3> QED BY <3>2, <3>3
  <2> HIDE DEF data, plan, history
  <2> QED BY <2>1, <2>2, <2>3, <2>4, AnalysisKept
<1>15. ASSUME NEW j \in Jobs, Panic(j) PROVE AnalysisFits'
  <2>1. UNCHANGED <<datasets, data, analysis, at, work, unfit>>  BY <1>15 DEF Panic
  <2>2. \A i \in Ids : /\ AtWork(datasets[i])' = AtWork(datasets[i])
                      /\ Contents(datasets[i])' = Contents(datasets[i])
    BY <2>1 DEF AtWork, Running, Contents, Through
  <2> HIDE DEF AtWork, Contents
  <2> QED BY <2>1, <2>2 DEF AnalysisFits
<1>16. ASSUME NEW e \in Exports, NEW i \in Ids, Open(e, i) PROVE AnalysisFits'
  <2>1. UNCHANGED <<datasets, data, analysis, at, work, unfit>>  BY <1>16 DEF Open
  <2>2. \A n \in Ids : /\ AtWork(datasets[n])' = AtWork(datasets[n])
                      /\ Contents(datasets[n])' = Contents(datasets[n])
    BY <2>1 DEF AtWork, Running, Contents, Through
  <2> HIDE DEF AtWork, Contents
  <2> QED BY <2>1, <2>2 DEF AnalysisFits
<1>17. ASSUME NEW e \in Exports, NEW j \in Jobs, RangeTorn(e, j) PROVE AnalysisFits'
  <2>1. UNCHANGED <<datasets, data, analysis, at, work, unfit>>  BY <1>17 DEF RangeTorn
  <2>2. \A i \in Ids : /\ AtWork(datasets[i])' = AtWork(datasets[i])
                      /\ Contents(datasets[i])' = Contents(datasets[i])
    BY <2>1 DEF AtWork, Running, Contents, Through
  <2> HIDE DEF AtWork, Contents
  <2> QED BY <2>1, <2>2 DEF AnalysisFits
<1>18. ASSUME NEW e \in Exports, RangeOver(e) \/ ExportRow(e) \/ Close(e)
      PROVE AnalysisFits'
  <2>1. UNCHANGED <<datasets, data, analysis, at, work, unfit>>  BY <1>18 DEF RangeOver,
      ExportRow, Close
  <2>2. \A i \in Ids : /\ AtWork(datasets[i])' = AtWork(datasets[i])
                      /\ Contents(datasets[i])' = Contents(datasets[i])
    BY <2>1 DEF AtWork, Running, Contents, Through
  <2> HIDE DEF AtWork, Contents
  <2> QED BY <2>1, <2>2 DEF AnalysisFits
<1>19. CASE Crash \/ UNCHANGED vars
  <2>1. UNCHANGED <<datasets, data, analysis, at, work, unfit>>  BY <1>19 DEF Crash, vars
  <2>2. \A i \in Ids : /\ AtWork(datasets[i])' = AtWork(datasets[i])
                      /\ Contents(datasets[i])' = Contents(datasets[i])
    BY <2>1 DEF AtWork, Running, Contents, Through
  <2> HIDE DEF AtWork, Contents
  <2> QED BY <2>1, <2>2 DEF AnalysisFits
<1> QED
  BY <1>1, <1>2, <1>3, <1>4, <1>5, <1>6, <1>7, <1>8, <1>9,
     <1>10, <1>11, <1>12, <1>13, <1>14, <1>15, <1>16, <1>17, <1>18,
     <1>19
  DEF Next

-----------------------------------------------------------------------------
(* The theorems of the store                                               *)

LEMMA InitIInv == Init => IInv
<1> SUFFICES ASSUME Init PROVE IInv  OBVIOUS
<1> USE StoreAssumption
<1>1. TypeOK  BY TypeInit
<1>2. Filed /\ Shape /\ Contention
  BY DEF Init, Filed, IdOf, Shape, Contention, Running, Objects
<1>3. Hidden  BY DEF Init, Hidden, Objects, InPlace
<1>4. Scanned  BY DEF Init, Scanned, ScannedBy
<1>5. Undisturbed /\ ExportsAreWhole
  BY DEF Init, Undisturbed, GoesOn, ExportsAreWhole
<1>6. Lengths
  <2> DEFINE ids == [k \in 1..Rows |-> k]
  <2>1. ids \in Seq(1..Rows) /\ Len(ids) = Rows  BY OfLength
  <2>2. arrays = [o \in Objects |-> [w \in Slices |->
                    IF o \in Loaded /\ w = None THEN ids ELSE <<>>]]
    BY DEF Init
  <2>3. Rows \in Nat /\ Rows # 0 /\ Len(<<>>) = 0  OBVIOUS
  <2> HIDE DEF ids
  <2>4. \A o \in Objects : \A w \in Slices :
          (arrays[o][w] = ids /\ o \in Loaded /\ w = None) \/ arrays[o][w] = <<>>
    BY <2>2
  <2>5. \A o \in Objects : \A w \in Slices : Len(arrays[o][w]) \in Nat /\ Len(arrays[o][w]) <= Rows
    BY <2>1, <2>3, <2>4
  <2>6. ASSUME NEW j \in Jobs PROVE JobLengths(j)
    <3>1. at[j] = "new" /\ until[j] = 0 /\ pos[j] = 1  BY DEF Init
    <3>2. j \in Slices /\ None \in Slices /\ j # None /\ j \notin Loaded /\ j \in Objects
      BY DEF Slices, Objects
    <3>3. arrays[j][None] = <<>> /\ \A o \in Objects : arrays[o][j] = <<>>
      BY <2>4, <3>2
    <3> QED BY <3>1, <3>3 DEF JobLengths, Walking
  <2>7. ASSUME NEW e \in Exports PROVE ExportLengths(e)
    <3>1. held[e] = None /\ until[e] = 0 /\ pos[e] = 1  BY DEF Init
    <3> QED BY <3>1 DEF ExportLengths
  <2> QED BY <2>5, <2>6, <2>7 DEF Lengths
<1>7. FinishedStands  BY DEF Init, FinishedStands
<1>8. AnalysisFits
  <2>1. SUFFICES ASSUME NEW i \in Loaded PROVE analysis[i] = Contents(i)
    BY DEF Init, AnalysisFits
  <2>2. /\ i \in Objects /\ None \in Slices /\ records[i] = None
        /\ arrays[i][None] = [k \in 1..Rows |-> k]
        /\ rows[i] = [k \in 1..Rows |-> {}] /\ analysis[i] = rows[i]
    BY DEF Init, Objects, Slices
  <2>3. Contents(i) = [k \in 1..Rows |-> {}]  BY <2>2 DEF Contents, Through
  <2> QED BY <2>2, <2>3
<1> QED BY <1>1, <1>2, <1>3, <1>4, <1>5, <1>6, <1>7, <1>8 DEF IInv

LEMMA NextIInv == IInv /\ [Next]_vars => IInv'
<1> SUFFICES ASSUME IInv, [Next]_vars PROVE IInv'  OBVIOUS
<1>1. TypeOK'  BY TypeStep DEF IInv
<1>2. Filed' /\ Shape' /\ Hidden' /\ Contention' /\ FinishedStands'
  BY FiledStep, ShapeStep, HiddenStep, ContentionStep, StandsStep DEF IInv
<1>3. Lengths' /\ Scanned' /\ AnalysisFits'
  BY <1>1, LengthsStep, ScannedStep, AnalysisStep DEF IInv
<1>4. \A e \in Exports : Whole(e)  BY DEF IInv, ExportsAreWhole, Whole
<1>5. Undisturbed' /\ \A e \in Exports : Whole(e)'  BY <1>1, <1>4, ExportsStep DEF IInv
<1>6. \A e \in Exports : held'[e] \in Jobs => at'[held'[e]] \notin {"new", "read", "clone"}
  BY <1>2 DEF Hidden, Unpublished
<1>7. ExportsAreWhole'  BY <1>5, <1>6 DEF ExportsAreWhole, Whole
<1> QED BY <1>1, <1>2, <1>3, <1>5, <1>7 DEF IInv

LEMMA IInvHolds == Spec => []IInv
BY InitIInv, NextIInv, PTL DEF Spec

\* Each variable keeps its type.
THEOREM TypeCorrect == Spec => []TypeOK
<1>1. IInv => TypeOK  BY DEF IInv
<1> QED BY <1>1, IInvHolds, PTL

\* The rows and the header an import or a clone writes are in nobody else's hands, for
\* nobody else knows its dataset (dataset/store.go:33-52, executor/etl_import.go:210-216).
THEOREM UnseenUntilStored == Spec => []OnlyInPlaceRaces
<1>1. IInv => OnlyInPlaceRaces
  <2> SUFFICES ASSUME IInv, NEW x \in Jobs, NEW y \in Jobs \cup Exports,
                      Race(x, y), kind[x] \notin InPlace
               PROVE FALSE
    BY DEF OnlyInPlaceRaces
  <2>1. x # y /\ work[x] = x /\ x \notin Exports
    BY StoreAssumption DEF Race, IInv, Shape
  <2>2. at[x] \in {"replace", "read", "columns", "rewrite"}  BY DEF Race
  <2>3. /\ \A k \in Jobs \ {x} : source[k] # x /\ work[k] # x
        /\ \A e \in Exports : held[e] # x
    BY <2>2 DEF IInv, Hidden, Unpublished
  <2>4. y \in Jobs => From(y) # x  BY <2>1, <2>3 DEF From
  <2>5. ~AtHeader(y, x)  BY <2>3, <2>4 DEF AtHeader
  <2>6. \A n : ~InRow(y, x, n)  BY <2>1, <2>3, <2>4 DEF InRow
  <2> QED BY <2>1, <2>5, <2>6 DEF Race
<1> QED BY <1>1, IInvHolds, PTL

\* An export that no job disturbs in place writes the rows its dataset had when it took
\* them, though a job replaces Records meanwhile (handlers/worker.go:115-145,
\* etl_deduplicate.go:165, etl_clean.go:639-650).
THEOREM ReadersSeeWholeDatasets == Spec => []ExportsAreWhole
<1>1. IInv => ExportsAreWhole  BY DEF IInv
<1> QED BY <1>1, IInvHolds, PTL

\* The analysis fits the rows whenever the last job on the dataset ended well and had
\* its id for itself (executor/reanalyze.go:15-58).
THEOREM AnalysisIsUpToDate == Spec => []AnalysisFits
<1>1. IInv => AnalysisFits  BY DEF IInv
<1> QED BY <1>1, IInvHolds, PTL

\* A finished job's dataset stays until a later job on its id
\* (executor/etl_clean.go:671-693).
THEOREM NoOlderDatasetComesBack == Spec => []FinishedStands
<1>1. IInv => FinishedStands  BY DEF IInv
<1> QED BY <1>1, IInvHolds, PTL

-----------------------------------------------------------------------------
(* The column                                                              *)

\* The rules that were applied to a row.
Given(n) ==
    IF n < row THEN rules
    ELSE IF n = row THEN {r \in rules : \E j \in 1..(turn - 1) : Order[j] = r} ELSE {}

ColumnTypeOK ==
    /\ phase \in {"load", "clean", "done"}
    /\ original \in Seq(Cells) /\ column \in Seq(Cells) /\ Len(column) = Len(original)
    /\ row \in 1..(Len(column) + 1) /\ turn \in 1..(Len(Order) + 1)
    /\ rules \subseteq {Order[k] : k \in DOMAIN Order}
    /\ mode \in (Cells \ Missing) \cup {NoMode} /\ fillMode \in (Cells \ Nulls) \cup {NoMode}

\* What is known of the column is known of the column that was loaded.
Advice ==
    /\ phase = "load" => column = original /\ row = 1 /\ turn = 1
    /\ phase # "load" =>
          /\ type = TypeOf(original)
          /\ rules = {r \in {Order[k] : k \in DOMAIN Order} : Recommended(original, type, r)}
    /\ phase = "done" => row \notin DOMAIN column /\ again = TypeOf(column)

\* What has become of a cell v that is w after the given rules: the four properties, as
\* they hold at any time.
FilledCell(v, w, given) ==
    "remove_special_chars" \notin rules /\ ("fix_mismatched_types" \in rules => type \in OwnBranch)
    /\ v \in Missing /\ "fill_null" \in given => w \notin Missing

KeptCell(v, w) ==
    type \in {"integer", "float", "email"}
    /\ v \in Matches[type] /\ (type # "email" => Trim(v) \in Parses[type]) => Trim(w) = Trim(v)

FixedCell(v, w, given) ==
    type \in {"boolean", "integer", "float"}
    /\ rules \subseteq {"trim_whitespace", "fill_null", "fix_mismatched_types"}
    /\ {fillMode, FillValue} \subseteq Matches[type] =>
          /\ v \in Missing => w \in (IF "fill_null" \in given THEN Matches[type] ELSE Missing)
          /\ v \in Matches[type] => w \in Matches[type]
          /\ v \in Fixable(type) =>
                IF "fix_mismatched_types" \in given THEN w \in Matches[type] ELSE Trim(w) = Trim(v)

JoinedCell(v, w) ==
    type = "categorical"
    /\ rules \subseteq {"fill_null", "to_lowercase", "trim_whitespace", "fix_categorical_outliers"}
    /\ v \notin Nulls =>
          /\ w \notin Nulls
          /\ Folded(w) = Folded(v) \/ (Rare(Folded(v)) /\ ~Rare(Folded(w)))

Cell(v, w, given) ==
    FilledCell(v, w, given) /\ KeptCell(v, w) /\ FixedCell(v, w, given) /\ JoinedCell(v, w)

ColumnInv ==
    /\ ColumnTypeOK
    /\ Advice
    /\ phase # "load" => \A n \in DOMAIN column : Cell(original[n], column[n], Given(n))

Rules == {Order[k] : k \in DOMAIN Order}

LEMMA OrderFacts ==
  /\ Len(Order) = 11 /\ DOMAIN Order = 1..11
  /\ Rules = {"trim_whitespace", "collapse_whitespace", "remove_html", "remove_newlines",
              "remove_separators", "fill_null", "to_lowercase", "remove_special_chars",
              "standardize_date", "fix_mismatched_types", "fix_categorical_outliers"}
  /\ Order[6] = "fill_null"
  /\ \A k \in 1..11 : Order[k] = "fill_null" => k = 6
  /\ \A k \in 7..11 :
        Order[k] \in {"to_lowercase", "remove_special_chars", "standardize_date",
                      "fix_mismatched_types", "fix_categorical_outliers"}
  <1>1. Len(Order) = 11 /\ DOMAIN Order = 1..11
    BY DEF Order
  <1>2. /\ Order[1] = "trim_whitespace" /\ Order[2] = "collapse_whitespace"
        /\ Order[3] = "remove_html" /\ Order[4] = "remove_newlines"
        /\ Order[5] = "remove_separators" /\ Order[6] = "fill_null"
        /\ Order[7] = "to_lowercase" /\ Order[8] = "remove_special_chars"
        /\ Order[9] = "standardize_date" /\ Order[10] = "fix_mismatched_types"
        /\ Order[11] = "fix_categorical_outliers"
    BY DEF Order
  <1>3. \A k \in 1..11 : k = 1 \/ k = 2 \/ k = 3 \/ k = 4 \/ k = 5 \/ k = 6 \/ k = 7
                            \/ k = 8 \/ k = 9 \/ k = 10 \/ k = 11
    OBVIOUS
  <1>4. Rules = {"trim_whitespace", "collapse_whitespace", "remove_html", "remove_newlines",
              "remove_separators", "fill_null", "to_lowercase", "remove_special_chars",
              "standardize_date", "fix_mismatched_types", "fix_categorical_outliers"}
    <2>1. ASSUME NEW r \in Rules
          PROVE  r \in {"trim_whitespace", "collapse_whitespace", "remove_html",
                        "remove_newlines", "remove_separators", "fill_null", "to_lowercase",
                        "remove_special_chars", "standardize_date", "fix_mismatched_types",
                        "fix_categorical_outliers"}
      <3>1. PICK k \in 1..11 : r = Order[k]
        BY <1>1, <2>1 DEF Rules
      <3>2. QED
        BY <1>2, <1>3, <3>1
    <2>2. \A k \in 1..11 : Order[k] \in Rules
      BY <1>1 DEF Rules
    <2>3. /\ Order[1] \in Rules /\ Order[2] \in Rules /\ Order[3] \in Rules
          /\ Order[4] \in Rules /\ Order[5] \in Rules /\ Order[6] \in Rules
          /\ Order[7] \in Rules /\ Order[8] \in Rules /\ Order[9] \in Rules
          /\ Order[10] \in Rules /\ Order[11] \in Rules
      BY <2>2
    <2>4. QED
      BY <1>2, <2>1, <2>3
  <1>5. \A k \in 1..11 : Order[k] = "fill_null" => k = 6
    BY <1>2, <1>3
  <1>6. \A k \in 7..11 :
           Order[k] \in {"to_lowercase", "remove_special_chars", "standardize_date",
                         "fix_mismatched_types", "fix_categorical_outliers"}
    <2> TAKE k \in 7..11
    <2>1. k = 7 \/ k = 8 \/ k = 9 \/ k = 10 \/ k = 11
      OBVIOUS
    <2>2. QED
      BY <1>2, <2>1
  <1>7. QED
    BY <1>1, <1>2, <1>4, <1>5, <1>6

Late == {"to_lowercase", "remove_special_chars", "standardize_date", "fix_mismatched_types",
         "fix_categorical_outliers"}

-----------------------------------------------------------------------------
(* The functions of cells                                                  *)

LEMMA CellTypes ==
  /\ Missing \subseteq Nulls /\ Nulls \subseteq Cells
  /\ \A f \in Functions, v \in Cells : Does[f][v] \in Cells
  /\ \A v \in Cells : Trim(v) \in Cells /\ Folded(v) \in Cells
                      /\ Does["to_lowercase"][v] \in Cells
  /\ \A v \in Cells : Number[v] # NoNumber => Number[v] \in Cells \ Missing
  /\ Zero \in Cells \ Nulls /\ False \in Cells \ Nulls /\ Unknown \in Cells \ Nulls
  /\ \A w \in DOMAIN Truth : Truth[w] \in Cells \ Missing
  /\ \A t \in {"integer", "float"} : MeanOf[t] \in Cells \ Missing
  <1>1. "trim_whitespace" \in Functions /\ "to_lowercase" \in Functions
    BY DEF Functions
  <1>2. \A f \in Functions, v \in Cells : Does[f][v] \in Cells
    BY CellsAssumption
  <1>3. \A v \in Cells : Trim(v) \in Cells /\ Does["to_lowercase"][v] \in Cells
    BY <1>1, <1>2 DEF Trim
  <1>4. \A v \in Cells : Folded(v) \in Cells
    BY <1>3 DEF Folded
  <1>5. QED
    BY <1>2, <1>3, <1>4, CellsAssumption

\* What trimming and lower case leave alone.
LEMMA TextFacts ==
  ASSUME NEW v \in Cells
  PROVE  /\ Trim(Trim(v)) = Trim(v)
         /\ Folded(Trim(v)) = Folded(v) /\ Folded(Does["to_lowercase"][v]) = Folded(v)
         /\ Folded(Folded(v)) = Folded(v)
         /\ v \in Missing <=> Trim(v) \in Missing
         /\ v \in Missing <=> Does["to_lowercase"][v] \in Missing
         /\ v \in Missing <=> Folded(v) \in Missing
         /\ v \in Nulls <=> Trim(v) \in Nulls
         /\ v \in Nulls <=> Does["to_lowercase"][v] \in Nulls
         /\ v \in Nulls <=> Folded(v) \in Nulls
  <1>1. Trim(v) \in Cells /\ Folded(v) \in Cells /\ Does["to_lowercase"][v] \in Cells
    BY CellTypes
  <1>2. Trim(Trim(v)) = Trim(v)
    BY TextAssumption
  <1>3. Folded(Trim(v)) = Folded(v)
    BY <1>2, Zenon DEF Folded
  <1>4. Folded(Does["to_lowercase"][v]) = Folded(v)
    BY TextAssumption
  <1>5. Folded(Folded(v)) = Folded(v)
    <2>1. Folded(Does["to_lowercase"][Trim(v)]) = Folded(Trim(v))
      BY <1>1, TextAssumption
    <2>2. Folded(v) = Does["to_lowercase"][Trim(v)]
      BY DEF Folded
    <2>3. QED
      BY <1>3, <2>1, <2>2, Zenon
  <1>6. \A w \in Cells : (w \in Missing <=> Folded(w) \in Missing) /\ (w \in Nulls <=> Folded(w) \in Nulls)
    BY TextAssumption
  <1>7. QED
    BY <1>1, <1>2, <1>3, <1>4, <1>5, <1>6

-----------------------------------------------------------------------------
(* The type                                                                *)

LEMMA HavingFinite ==
  ASSUME NEW col \in Seq(Cells), NEW S
  PROVE  /\ IsFiniteSet(Having(col, S)) /\ Cardinality(Having(col, S)) \in Nat
         /\ IsFiniteSet(DOMAIN col)
  <1>1. IsFiniteSet(DOMAIN col)
    <2>1. DOMAIN col = 1..Len(col) /\ Len(col) \in Nat
      OBVIOUS
    <2>2. QED
      BY <2>1, FS_Interval
  <1>2. Having(col, S) \subseteq DOMAIN col
    BY DEF Having
  <1>3. IsFiniteSet(Having(col, S))
    BY <1>1, <1>2, FS_Subset
  <1>4. QED
    BY <1>1, <1>3, FS_CardinalityType

LEMMA PatternedFacts ==
  /\ DOMAIN Patterned = 1..6
  /\ \A k \in 1..6 : Patterned[k] \in {"boolean", "integer", "float", "email", "url", "phone"}
  /\ \A k, j \in 1..6 : Patterned[k] = Patterned[j] => k = j
  /\ Patterned[1] = "boolean" /\ Patterned[2] = "integer" /\ Patterned[3] = "float"
  /\ Patterned[4] = "email"
  <1>1. /\ DOMAIN Patterned = 1..6
        /\ Patterned[1] = "boolean" /\ Patterned[2] = "integer" /\ Patterned[3] = "float"
        /\ Patterned[4] = "email" /\ Patterned[5] = "url" /\ Patterned[6] = "phone"
    BY DEF Patterned
  <1>2. \A k \in 1..6 : k = 1 \/ k = 2 \/ k = 3 \/ k = 4 \/ k = 5 \/ k = 6
    OBVIOUS
  <1>3. \A k \in 1..6 : Patterned[k] \in {"boolean", "integer", "float", "email", "url", "phone"}
    BY <1>1, <1>2
  <1>4. \A k, j \in 1..6 : Patterned[k] = Patterned[j] => k = j
    BY <1>1, <1>2
  <1>5. QED
    BY <1>1, <1>3, <1>4

\* The least index of a nonempty set of them.
LEMMA LeastFit ==
  ASSUME NEW fits \in SUBSET (1..6), fits # {}
  PROVE  LET k == CHOOSE k \in fits : \A j \in fits : k <= j
         IN  k \in fits /\ \A j \in fits : k <= j
  <1>1. \E k \in fits : \A j \in fits : k <= j
    <2>1. \A k \in fits : k = 1 \/ k = 2 \/ k = 3 \/ k = 4 \/ k = 5 \/ k = 6
      OBVIOUS
    <2>2. CASE 1 \in fits
      BY <2>1, <2>2
    <2>3. CASE 1 \notin fits /\ 2 \in fits
      BY <2>1, <2>3
    <2>4. CASE 1 \notin fits /\ 2 \notin fits /\ 3 \in fits
      BY <2>1, <2>4
    <2>5. CASE 1 \notin fits /\ 2 \notin fits /\ 3 \notin fits /\ 4 \in fits
      BY <2>1, <2>5
    <2>6. CASE 1 \notin fits /\ 2 \notin fits /\ 3 \notin fits /\ 4 \notin fits /\ 5 \in fits
      BY <2>1, <2>6
    <2>7. CASE fits = {6}
      BY <2>7
    <2>8. QED
      BY <2>1, <2>2, <2>3, <2>4, <2>5, <2>6, <2>7
  <1>2. QED
    BY <1>1

Fits(col) == {k \in DOMAIN Patterned : Most(col, Matches[Patterned[k]])}

LEMMA TypeCases ==
  ASSUME NEW col
  PROVE  \/ TypeOf(col) \in {"free_text", "datetime", "date", "numeric_string", "categorical", "alphanumeric"}
         \/ /\ Filled(col) # {} /\ Fits(col) # {}
            /\ TypeOf(col) = Patterned[CHOOSE k \in Fits(col) : \A j \in Fits(col) : k <= j]
  BY Zenon DEF TypeOf, Fits

\* A type with a pattern was taken because most cells match.
LEMMA PatternFits ==
  ASSUME NEW col, TypeOf(col) \in {"boolean", "integer", "float", "email"}
  PROVE  Filled(col) # {} /\ Most(col, Matches[TypeOf(col)])
  <1>1. /\ Filled(col) # {} /\ Fits(col) # {}
        /\ TypeOf(col) = Patterned[CHOOSE k \in Fits(col) : \A j \in Fits(col) : k <= j]
    BY TypeCases
  <1>2. Fits(col) \in SUBSET (1..6)
    BY PatternedFacts DEF Fits
  <1>3. PICK k \in Fits(col) : TypeOf(col) = Patterned[k]
    BY <1>1, <1>2, LeastFit, Zenon
  <1>4. QED
    BY <1>1, <1>3, Zenon DEF Fits

\* A column all of whose cells match is of that type, or of one that is tried before.
LEMMA AllMatch ==
  ASSUME NEW col \in Seq(Cells), col # <<>>, NEW t \in {"boolean", "integer", "float"},
         \A n \in DOMAIN col : col[n] \in Matches[t]
  PROVE  \E k \in DOMAIN Patterned :
            Patterned[k] = TypeOf(col) /\ \A j \in 1..(k - 1) : Patterned[j] # t
  <1>1. PICK i \in 1..6 : Patterned[i] = t
    BY PatternedFacts
  <1>2. Matches[t] \cap Missing = {}
    BY PatternAssumption, CellsAssumption
  <1>3. DOMAIN col # {} /\ \A n \in DOMAIN col : col[n] \in Cells
    OBVIOUS
  <1>4. Filled(col) = DOMAIN col /\ Having(col, Matches[t] \ Missing) = DOMAIN col
    BY <1>2, <1>3 DEF Filled, Having
  <1>5. Most(col, Matches[t])
    <2>1. Cardinality(DOMAIN col) \in Nat
      BY HavingFinite, FS_CardinalityType
    <2>2. \A c \in Nat : 100 * c >= 85 * c
      OBVIOUS
    <2>3. QED
      BY <1>4, <2>1, <2>2 DEF Most
  <1>6. i \in Fits(col)
    BY <1>1, <1>5, PatternedFacts, Zenon DEF Fits
  <1>7. Fits(col) \in SUBSET (1..6)
    BY PatternedFacts DEF Fits
  <1>8. TypeOf(col) = Patterned[CHOOSE k \in Fits(col) : \A j \in Fits(col) : k <= j]
    BY <1>3, <1>4, <1>6, Zenon DEF TypeOf, Fits
  <1>9. PICK k \in Fits(col) : TypeOf(col) = Patterned[k] /\ \A j \in Fits(col) : k <= j
    BY <1>6, <1>7, <1>8, LeastFit, Zenon
  <1>10. k \in 1..6 /\ k <= i
    BY <1>6, <1>7, <1>9
  <1>11. \A j \in 1..(k - 1) : j \in 1..6 /\ j # i
    BY <1>1, <1>10
  <1>12. \A j \in 1..(k - 1) : Patterned[j] # t
    BY <1>1, <1>11, PatternedFacts
  <1>13. QED
    BY <1>9, <1>10, <1>12, PatternedFacts

-----------------------------------------------------------------------------
(* The recommendations                                                     *)

\* What the recommendations say of the column.
LEMMA Advised ==
  ASSUME Advice, phase # "load"
  PROVE  /\ rules \subseteq Rules
         /\ "fill_null" \in rules <=> Having(original, Missing) # {}
         /\ "fix_mismatched_types" \in rules
               <=> Mismatched(original, type) /\ Most(original, Fitting(type))
         /\ type \in {"boolean", "integer", "float", "email"} =>
               /\ Filled(original) # {} /\ Most(original, Matches[type])
               /\ rules \subseteq {"trim_whitespace", "collapse_whitespace", "remove_html",
                                   "remove_newlines", "fill_null", "fix_mismatched_types"}
  <1>1. /\ type = TypeOf(original)
        /\ rules = {r \in Rules : Recommended(original, type, r)}
    BY DEF Advice, Rules
  <1>2. "fill_null" \in Rules /\ "fix_mismatched_types" \in Rules
    BY OrderFacts
  <1>3. Recommended(original, type, "fill_null") <=> Having(original, Missing) # {}
    BY DEF Recommended
  <1>4. Recommended(original, type, "fix_mismatched_types")
           <=> Mismatched(original, type) /\ Most(original, Fitting(type))
    BY DEF Recommended
  <1>5. ASSUME type \in {"boolean", "integer", "float", "email"}
        PROVE  /\ Filled(original) # {} /\ Most(original, Matches[type])
               /\ rules \subseteq {"trim_whitespace", "collapse_whitespace", "remove_html",
                                   "remove_newlines", "fill_null", "fix_mismatched_types"}
    <2>1. Filled(original) # {} /\ Most(original, Matches[type])
      BY <1>1, <1>5, PatternFits
    <2>2. ~Recommended(original, type, "remove_separators")
      BY <1>5 DEF Recommended
    <2>3. ~Recommended(original, type, "to_lowercase")
      BY <1>5 DEF Recommended
    <2>4. ~Recommended(original, type, "remove_special_chars")
      BY <1>5 DEF Recommended
    <2>5. ~Recommended(original, type, "standardize_date")
      BY <1>5 DEF Recommended
    <2>6. ~Recommended(original, type, "fix_categorical_outliers")
      BY <1>5 DEF Recommended
    <2>7. QED
      BY <1>1, <2>1, <2>2, <2>3, <2>4, <2>5, <2>6, OrderFacts
  <1>6. QED
    BY <1>1, <1>2, <1>3, <1>4, <1>5

-----------------------------------------------------------------------------
(* One rule on one cell                                                    *)

\* What each rule makes of a cell.
LEMMA Outcomes ==
  ASSUME NEW w \in Cells, NEW u
  PROVE  /\ u \in After("trim_whitespace", w) => u = Trim(w)
         /\ \A f \in {"collapse_whitespace", "remove_html", "remove_newlines", "to_lowercase",
                      "remove_special_chars", "standardize_date"} :
               u \in After(f, w) => u = Does[f][w]
         /\ u \in After("remove_separators", w) => u = Does["remove_special_chars"][w]
         /\ u \in After("fill_null", w) => u = (IF w \in Nulls THEN FillValue ELSE w)
         /\ u \in After("fix_mismatched_types", w) => u = (IF w \in Nulls THEN w ELSE Fixed(w))
         /\ u \in After("fix_categorical_outliers", w) =>
               IF w \in Nulls THEN u = w ELSE u \in Merged(w)
  <1>1. u \in After("trim_whitespace", w) => u = Trim(w)
    BY DEF After, Trim
  <1>2. ASSUME NEW f \in {"collapse_whitespace", "remove_html", "remove_newlines", "to_lowercase",
                          "remove_special_chars", "standardize_date"},
               u \in After(f, w)
        PROVE  u = Does[f][w]
    BY <1>2 DEF After
  <1>3. u \in After("remove_separators", w) => u = Does["remove_special_chars"][w]
    BY DEF After
  <1>4. u \in After("fill_null", w) => u = (IF w \in Nulls THEN FillValue ELSE w)
    BY DEF After
  <1>5. u \in After("fix_mismatched_types", w) => u = (IF w \in Nulls THEN w ELSE Fixed(w))
    BY DEF After
  <1>6. u \in After("fix_categorical_outliers", w) =>
               IF w \in Nulls THEN u = w ELSE u \in Merged(w)
    BY DEF After
  <1>7. QED
    BY <1>1, <1>2, <1>3, <1>4, <1>5, <1>6

\* The mode in use is a cell of the column that is not null.
LEMMA ModeTypes ==
  ASSUME ColumnTypeOK
  PROVE  /\ \A d : Fallback(d) = d \/ (Fallback(d) = fillMode /\ fillMode \in Cells \ Nulls)
         /\ FillValue \in Cells \ Missing
  <1>1. \A d : Fallback(d) = d \/ (Fallback(d) = fillMode /\ fillMode \in Cells \ Nulls)
    BY DEF Fallback, ColumnTypeOK
  <1>2. FillValue \in Cells \ Missing
    <2>1. CASE type \in {"integer", "float"}
      BY <2>1, CellTypes DEF FillValue
    <2>2. CASE type = "numeric_string"
      BY <2>2, CellTypes DEF FillValue
    <2>3. CASE type = "boolean"
      BY <2>3, CellTypes DEF FillValue
    <2>4. CASE type \notin {"integer", "float", "numeric_string", "boolean"}
      <3>1. FillValue = Fallback(IF mode # NoMode THEN mode ELSE Unknown)
        BY <2>4 DEF FillValue
      <3>2. (IF mode # NoMode THEN mode ELSE Unknown) \in Cells \ Missing
        BY CellTypes DEF ColumnTypeOK
      <3>3. QED
        BY <1>1, <3>1, <3>2, CellTypes
    <2>5. QED
      BY <2>1, <2>2, <2>3, <2>4
  <1>3. QED
    BY <1>1, <1>2

\* What is fixed is a cell, and is not missing if the type has a branch of its own.
LEMMA FixedTypes ==
  ASSUME ColumnTypeOK, NEW w \in Cells \ Nulls
  PROVE  Fixed(w) \in Cells /\ (type \in OwnBranch => Fixed(w) \notin Missing)
  <1>1. Trim(w) \in Cells \ Missing
    BY TextFacts, CellTypes
  <1>2. CASE type \in {"integer", "float"}
    <2>1. Fixed(w) = IF Trim(w) \in Parsable(type) THEN Trim(w)
                     ELSE IF Number[Trim(w)] # NoNumber THEN Number[Trim(w)] ELSE Fallback(Zero)
      BY <1>2 DEF Fixed
    <2>2. QED
      BY <1>1, <2>1, CellTypes, ModeTypes
  <1>3. CASE type = "boolean"
    <2>1. Fixed(w) = IF Trim(w) \in DOMAIN Truth THEN Truth[Trim(w)] ELSE Fallback(False)
      BY <1>3 DEF Fixed
    <2>2. QED
      BY <2>1, CellTypes, ModeTypes
  <1>4. CASE type = "email"
    <2>1. Fixed(w) = IF Trim(w) \in At THEN Trim(w) ELSE Fallback(Trim(w))
      BY <1>4 DEF Fixed
    <2>2. QED
      BY <1>1, <2>1, CellTypes, ModeTypes
  <1>5. CASE type \notin {"integer", "float", "boolean", "email"}
    <2>1. Fixed(w) = Does["underscore"][Trim(w)]
      BY <1>5 DEF Fixed
    <2>2. QED
      BY <1>1, <1>5, <2>1, CellTypes DEF Functions, OwnBranch
  <1>6. QED
    BY <1>2, <1>3, <1>4, <1>5

\* A rare category is replaced by one that is not, if at all.
LEMMA MergedFacts ==
  ASSUME ColumnTypeOK, NEW w \in Cells, NEW u \in Merged(w)
  PROVE  \/ u = w
         \/ /\ Rare(Folded(w)) /\ ~Rare(u)
            /\ \E c \in Cells \ Nulls : u = Folded(c)
  <1> DEFINE near == Candidates(Folded(w))
             best == {c \in near : \A d \in near : Frequency(d) <= Frequency(c)}
  <1>1. CASE Rare(Folded(w)) /\ near # {}
    <2>1. u \in {IF c = Folded(w) THEN w ELSE c : c \in best}
      BY <1>1, Zenon DEF Merged
    <2>2. PICK c \in best : u = IF c = Folded(w) THEN w ELSE c
      BY <2>1
    <2>3. c \in Candidates(Folded(w))
      BY <2>2
    <2>4. c \in {Folded(v) : v \in Used(original) \ Nulls} /\ ~Rare(c)
      BY <2>3 DEF Candidates
    <2>5. PICK v \in Used(original) \ Nulls : c = Folded(v)
      BY <2>4
    <2>6. v \in Cells \ Nulls
      BY <2>5 DEF Used, ColumnTypeOK
    <2>7. QED
      BY <1>1, <2>2, <2>4, <2>5, <2>6
  <1>2. CASE ~(Rare(Folded(w)) /\ near # {})
    BY <1>2, Zenon DEF Merged
  <1>3. QED
    BY <1>1, <1>2

\* A rule makes a cell of a cell.
LEMMA CellToCell ==
  ASSUME ColumnTypeOK, NEW w \in Cells, NEW r \in Rules, NEW u \in After(r, w)
  PROVE  u \in Cells
  <1>1. CASE r = "trim_whitespace"
    BY <1>1, Outcomes, CellTypes
  <1>2. CASE r \in {"collapse_whitespace", "remove_html", "remove_newlines", "to_lowercase",
                    "remove_special_chars", "standardize_date"}
    BY <1>2, Outcomes, CellTypes DEF Functions
  <1>3. CASE r = "remove_separators"
    BY <1>3, Outcomes, CellTypes DEF Functions
  <1>4. CASE r = "fill_null"
    BY <1>4, Outcomes, ModeTypes
  <1>5. CASE r = "fix_mismatched_types"
    BY <1>5, Outcomes, FixedTypes
  <1>6. CASE r = "fix_categorical_outliers"
    <2>1. CASE w \in Nulls
      BY <1>6, <2>1, Outcomes
    <2>2. CASE w \notin Nulls
      BY <1>6, <2>2, Outcomes, MergedFacts, CellTypes
    <2>3. QED
      BY <2>1, <2>2
  <1>7. QED
    BY <1>1, <1>2, <1>3, <1>4, <1>5, <1>6, OrderFacts

\* What is filled stays filled: of the rules that come later one may empty a cell, which
\* FilledCell excludes.
LEMMA FilledStays ==
  ASSUME ColumnTypeOK, NEW v \in Cells, NEW w \in Cells, NEW given, NEW r \in rules,
         NEW u \in After(r, w), FilledCell(v, w, given), "fill_null" \in given => r \in Late
  PROVE  FilledCell(v, u, given \cup {r})
  <1> SUFFICES ASSUME "remove_special_chars" \notin rules,
                      "fix_mismatched_types" \in rules => type \in OwnBranch,
                      v \in Missing, "fill_null" \in given \/ r = "fill_null"
               PROVE  u \notin Missing
    BY DEF FilledCell
  <1>1. CASE r = "fill_null"
    BY <1>1, Outcomes, ModeTypes, CellTypes
  <1>2. CASE "fill_null" \in given
    <2>1. w \notin Missing /\ r \in Late /\ r # "remove_special_chars"
      BY <1>2 DEF FilledCell
    <2>2. CASE r = "to_lowercase"
      BY <2>1, <2>2, Outcomes, TextFacts
    <2>3. CASE r = "standardize_date"
      BY <2>1, <2>3, Outcomes, TextAssumption
    <2>4. CASE r = "fix_mismatched_types"
      <3>1. u = IF w \in Nulls THEN w ELSE Fixed(w)
        BY <2>4, Outcomes
      <3>2. QED
        BY <2>1, <2>4, <3>1, FixedTypes
    <2>5. CASE r = "fix_categorical_outliers"
      <3>1. CASE w \in Nulls
        BY <2>1, <2>5, <3>1, Outcomes
      <3>2. CASE w \notin Nulls
        <4>1. u = w \/ \E c \in Cells \ Nulls : u = Folded(c)
          BY <2>5, <3>2, Outcomes, MergedFacts
        <4>2. QED
          BY <2>1, <4>1, TextFacts, CellTypes
      <3>3. QED
        BY <3>1, <3>2
    <2>6. QED
      BY <2>1, <2>2, <2>3, <2>4, <2>5 DEF Late
  <1>3. QED
    BY <1>1, <1>2

\* What matches is only trimmed.
LEMMA KeptStays ==
  ASSUME ColumnTypeOK, Advice, phase # "load", NEW v \in Cells, NEW w \in Cells,
         NEW r \in rules, NEW u \in After(r, w), KeptCell(v, w)
  PROVE  KeptCell(v, u)
  <1> SUFFICES ASSUME type \in {"integer", "float", "email"}, v \in Matches[type],
                      type # "email" => Trim(v) \in Parses[type]
               PROVE  Trim(u) = Trim(v)
    BY DEF KeptCell
  <1>1. Trim(w) = Trim(v)
    BY DEF KeptCell
  <1>2. w \in Matches[type] /\ w \notin Nulls
    BY <1>1, PatternAssumption
  <1>3. Trim(Trim(w)) = Trim(w)
    BY TextFacts
  <1>4. r \in {"trim_whitespace", "collapse_whitespace", "remove_html", "remove_newlines",
               "fill_null", "fix_mismatched_types"}
    BY Advised
  <1>5. CASE r = "trim_whitespace"
    <2>1. u = Trim(w)
      BY <1>5, Outcomes
    <2>2. QED
      BY <1>1, <1>3, <2>1
  <1>6. CASE r \in {"collapse_whitespace", "remove_html", "remove_newlines"}
    <2>1. u = Does[r][w]
      BY <1>6, Outcomes
    <2>2. Trim(Does[r][w]) = Trim(w)
      BY <1>2, <1>6, PatternAssumption
    <2>3. QED
      BY <1>1, <2>1, <2>2
  <1>7. CASE r = "fill_null"
    BY <1>1, <1>2, <1>7, Outcomes
  <1>8. CASE r = "fix_mismatched_types"
    <2>1. u = Fixed(w)
      BY <1>2, <1>8, Outcomes
    <2>2. CASE type \in {"integer", "float"}
      <3>1. Trim(w) \in Parsable(type)
        BY <1>1, <2>2 DEF Parsable
      <3>2. Fixed(w) = Trim(w)
        BY <2>2, <3>1 DEF Fixed
      <3>3. QED
        BY <1>1, <1>3, <2>1, <3>2
    <2>3. CASE type = "email"
      <3>1. Trim(w) \in At
        BY <1>2, <2>3, PatternAssumption
      <3>2. Fixed(w) = Trim(w)
        BY <2>3, <3>1 DEF Fixed
      <3>3. QED
        BY <1>1, <1>3, <2>1, <3>2
    <2>4. QED
      BY <2>2, <2>3
  <1>9. QED
    BY <1>4, <1>5, <1>6, <1>7, <1>8

\* What is fixed matches, if it did before or there is a remedy.
LEMMA FixedMatches ==
  ASSUME ColumnTypeOK, type \in {"boolean", "integer", "float"}, fillMode \in Matches[type],
         NEW v \in Cells, v \in Matches[type] \cup Fixable(type),
         NEW w \in Cells, w \in Matches[type] \/ Trim(w) = Trim(v)
  PROVE  Fixed(w) \in Matches[type]
  <1>1. CASE type = "boolean"
    <2>1. Fixed(w) = IF Trim(w) \in DOMAIN Truth THEN Truth[Trim(w)] ELSE Fallback(False)
      BY <1>1 DEF Fixed
    <2>2. QED
      BY <1>1, <2>1, ModeTypes, PatternAssumption
  <1>2. CASE type \in {"integer", "float"}
    <2>1. Fixed(w) = IF Trim(w) \in Parses[type] THEN Trim(w)
                     ELSE IF Number[Trim(w)] # NoNumber THEN Number[Trim(w)] ELSE Fallback(Zero)
      BY <1>2 DEF Fixed, Parsable
    <2>2. Fallback(Zero) \in Matches[type]
      BY <1>2, ModeTypes, PatternAssumption
    <2>3. CASE w \in Matches[type]
      <3>1. Trim(w) \in Matches[type]
        BY <1>2, <2>3, PatternAssumption
      <3>2. Trim(w) \in Parses[type] \/ Number[Trim(w)] \in Matches[type] \cup {NoNumber}
        BY <1>2, <2>3, PatternAssumption
      <3>3. QED
        BY <2>1, <2>2, <3>1, <3>2
    <2>4. CASE w \notin Matches[type]
      <3>1. Trim(w) = Trim(v) /\ v \notin Matches[type]
        BY <1>2, <2>4, PatternAssumption
      <3>2. v \in Fixable(type)
        BY <3>1
      <3>3. Trim(v) \notin Parses[type] /\ Number[Trim(v)] \in Matches[type] \cup {NoNumber}
        BY <1>2, <3>2 DEF Fixable
      <3>4. QED
        BY <2>1, <2>2, <3>1, <3>3
    <2>5. QED
      BY <2>3, <2>4
  <1>3. QED
    BY <1>1, <1>2

\* Nulls are filled with what matches, and mismatches are fixed.
LEMMA FixedStays ==
  ASSUME ColumnTypeOK, NEW v \in Cells, NEW w \in Cells, NEW given, NEW r \in rules,
         NEW u \in After(r, w), FixedCell(v, w, given)
  PROVE  FixedCell(v, u, given \cup {r})
  <1> SUFFICES ASSUME type \in {"boolean", "integer", "float"},
                      rules \subseteq {"trim_whitespace", "fill_null", "fix_mismatched_types"},
                      fillMode \in Matches[type], FillValue \in Matches[type]
               PROVE  /\ v \in Missing => u \in (IF "fill_null" \in given \cup {r}
                                                 THEN Matches[type] ELSE Missing)
                      /\ v \in Matches[type] => u \in Matches[type]
                      /\ v \in Fixable(type) =>
                            IF "fix_mismatched_types" \in given \cup {r}
                            THEN u \in Matches[type] ELSE Trim(u) = Trim(v)
    BY DEF FixedCell
  <1>1. /\ v \in Missing => w \in (IF "fill_null" \in given THEN Matches[type] ELSE Missing)
        /\ v \in Matches[type] => w \in Matches[type]
        /\ v \in Fixable(type) =>
              IF "fix_mismatched_types" \in given THEN w \in Matches[type] ELSE Trim(w) = Trim(v)
    BY DEF FixedCell
  <1>2. /\ Matches[type] \cap Nulls = {}
        /\ \A c \in Cells : c \in Matches[type] <=> Trim(c) \in Matches[type]
    BY PatternAssumption
  <1>3. v \in Fixable(type) => v \in Cells \ Nulls
    BY DEF Fixable
  <1>4. v \in Fixable(type) => w \notin Nulls
    BY <1>1, <1>2, <1>3, TextFacts
  <1>5. Missing \subseteq Nulls
    BY CellTypes
  <1>6. CASE r = "trim_whitespace"
    <2>1. u = Trim(w) /\ Trim(u) = Trim(w) /\ (w \in Missing <=> u \in Missing)
      BY <1>6, Outcomes, TextFacts
    <2>2. w \in Matches[type] => u \in Matches[type]
      BY <1>2, <2>1
    <2>3. QED
      BY <1>1, <1>6, <2>1, <2>2
  <1>7. CASE r = "fill_null"
    <2>1. u = IF w \in Nulls THEN FillValue ELSE w
      BY <1>7, Outcomes
    <2>2. v \in Missing => u \in Matches[type]
      BY <1>1, <1>5, <2>1
    <2>3. w \in Matches[type] => u \in Matches[type]
      BY <2>1
    <2>4. v \in Fixable(type) => u = w
      BY <1>4, <2>1
    <2>5. QED
      BY <1>1, <1>7, <2>2, <2>3, <2>4
  <1>8. CASE r = "fix_mismatched_types"
    <2>1. u = IF w \in Nulls THEN w ELSE Fixed(w)
      BY <1>8, Outcomes
    <2>2. ASSUME w \in Matches[type]
          PROVE  u \in Matches[type]
      <3>1. Fixed(w) \in Matches[type]
        BY <2>2, FixedMatches
      <3>2. QED
        BY <2>1, <2>2, <3>1
    <2>3. ASSUME v \in Fixable(type)
          PROVE  u \in Matches[type]
      <3>1. Fixed(w) \in Matches[type]
        BY <1>1, <2>3, FixedMatches
      <3>2. QED
        BY <1>4, <2>1, <2>3, <3>1
    <2>4. v \in Missing /\ w \in Missing => u = w
      BY <1>5, <2>1
    <2>5. v \in Missing => u \in (IF "fill_null" \in given \cup {r} THEN Matches[type] ELSE Missing)
      BY <1>1, <1>8, <2>2, <2>4
    <2>6. QED
      BY <1>1, <1>8, <2>2, <2>3, <2>5
  <1>9. QED
    BY <1>6, <1>7, <1>8

\* A category stays, or a rare one becomes one that is not, and stays then.
LEMMA JoinedStays ==
  ASSUME ColumnTypeOK, NEW v \in Cells, NEW w \in Cells, NEW r \in rules,
         NEW u \in After(r, w), JoinedCell(v, w)
  PROVE  JoinedCell(v, u)
  <1> SUFFICES ASSUME type = "categorical",
                      rules \subseteq {"fill_null", "to_lowercase", "trim_whitespace",
                                       "fix_categorical_outliers"},
                      v \notin Nulls
               PROVE  /\ u \notin Nulls
                      /\ Folded(u) = Folded(v) \/ (Rare(Folded(v)) /\ ~Rare(Folded(u)))
    BY DEF JoinedCell
  <1>1. /\ w \notin Nulls
        /\ Folded(w) = Folded(v) \/ (Rare(Folded(v)) /\ ~Rare(Folded(w)))
    BY DEF JoinedCell
  <1>2. CASE r = "fill_null"
    BY <1>1, <1>2, Outcomes
  <1>3. CASE r = "to_lowercase"
    <2>1. u = Does["to_lowercase"][w]
      BY <1>3, Outcomes
    <2>2. u \notin Nulls /\ Folded(u) = Folded(w)
      BY <1>1, <2>1, TextFacts
    <2>3. QED
      BY <1>1, <2>2
  <1>4. CASE r = "trim_whitespace"
    <2>1. u = Trim(w)
      BY <1>4, Outcomes
    <2>2. u \notin Nulls /\ Folded(u) = Folded(w)
      BY <1>1, <2>1, TextFacts
    <2>3. QED
      BY <1>1, <2>2
  <1>5. CASE r = "fix_categorical_outliers"
    <2>1. u \in Merged(w)
      BY <1>1, <1>5, Outcomes
    <2>2. CASE u = w
      BY <1>1, <2>2
    <2>3. CASE /\ Rare(Folded(w)) /\ ~Rare(u)
               /\ \E c \in Cells \ Nulls : u = Folded(c)
      <3>1. u \notin Nulls /\ Folded(u) = u
        BY <2>3, TextFacts
      <3>2. Folded(w) = Folded(v)
        BY <1>1, <2>3
      <3>3. Rare(Folded(v)) /\ ~Rare(Folded(u))
        BY <2>3, <3>1, <3>2
      <3>4. QED
        BY <3>1, <3>3
    <2>4. QED
      BY <2>1, <2>2, <2>3, MergedFacts
  <1>6. QED
    BY <1>2, <1>3, <1>4, <1>5

-----------------------------------------------------------------------------
(* The steps                                                               *)

LEMMA ColumnTypes ==
  ASSUME ColumnTypeOK
  PROVE  /\ DOMAIN column = 1..Len(column) /\ DOMAIN original = DOMAIN column
         /\ Len(column) \in Nat /\ row \in Nat /\ turn \in Nat /\ row >= 1 /\ turn >= 1
         /\ \A n \in DOMAIN column : column[n] \in Cells /\ original[n] \in Cells
  <1>1. /\ original \in Seq(Cells) /\ column \in Seq(Cells) /\ Len(column) = Len(original)
        /\ row \in 1..(Len(column) + 1) /\ turn \in 1..(Len(Order) + 1) /\ Len(Order) = 11
    BY OrderFacts DEF ColumnTypeOK
  <1>2. /\ DOMAIN column = 1..Len(column) /\ DOMAIN original = 1..Len(original)
        /\ Len(column) \in Nat
    BY <1>1
  <1>3. \A n \in DOMAIN column : column[n] \in Cells /\ original[n] \in Cells
    BY <1>1, <1>2
  <1>4. QED
    BY <1>1, <1>2, <1>3

\* What holds of the column at any time holds when it is loaded.
LEMMA InitColumn ==
  ASSUME ColumnInit
  PROVE  ColumnInv
  <1>1. original \in Seq(Cells)
    BY CellsAssumption DEF ColumnInit
  <1>2. Len(original) \in Nat
    BY <1>1
  <1>3. ColumnTypeOK
    BY <1>1, <1>2, OrderFacts DEF ColumnInit, ColumnTypeOK
  <1>4. Advice
    BY DEF ColumnInit, Advice
  <1>5. QED
    BY <1>3, <1>4 DEF ColumnInit, ColumnInv

\* Before any rule a cell is what it was.
LEMMA FreshCell ==
  ASSUME NEW v
  PROVE  Cell(v, v, {})'
  <1>1. ~("fill_null" \in {}) /\ ~("fix_mismatched_types" \in {})
    OBVIOUS
  <1>2. FilledCell(v, v, {})'
    BY DEF FilledCell
  <1>3. KeptCell(v, v)'
    BY DEF KeptCell
  <1>4. FixedCell(v, v, {})'
    BY DEF FixedCell
  <1>5. JoinedCell(v, v)'
    BY DEF JoinedCell
  <1>6. QED
    BY <1>2, <1>3, <1>4, <1>5 DEF Cell

\* The analysis makes the advice, and no row was given a rule yet.
LEMMA AnalyzeStep ==
  ASSUME ColumnInv, Analyze
  PROVE  ColumnInv'
  <1>1. /\ phase = "load" /\ phase' = "clean"
        /\ column = original /\ row = 1 /\ turn = 1 /\ type' = TypeOf(column)
        /\ rules' = {r \in Rules : Recommended(column, type', r)}
        /\ mode' \in ModesOf(column, Cells \ Missing) /\ fillMode' \in ModesOf(column, Cells \ Nulls)
        /\ original' = original /\ column' = column /\ row' = row /\ turn' = turn /\ again' = again
    BY DEF Analyze, ColumnInv, Advice, Rules
  <1>2. \A S : ModesOf(column, S) \subseteq S \cup {NoMode}
    BY DEF ModesOf
  <1>3. ColumnTypeOK'
    BY <1>1, <1>2 DEF ColumnTypeOK, ColumnInv, Rules
  <1>4. Advice'
    BY <1>1 DEF Advice, Rules
  <1>5. \A n \in DOMAIN column : Given(n)' = {}
    <2> SUFFICES ASSUME NEW n \in DOMAIN column
                 PROVE  Given(n)' = {}
      OBVIOUS
    <2>1. n \in Nat /\ n >= 1
      BY ColumnTypes DEF ColumnInv
    <2>2. row' = 1 /\ turn' = 1
      BY <1>1
    <2>3. 1..(1 - 1) = {} /\ ~(n < 1)
      BY <2>1
    <2>4. {r \in rules' : \E j \in 1..(turn' - 1) : Order[j] = r} = {}
      BY <2>2, <2>3
    <2>5. QED
      BY <2>2, <2>3, <2>4, Zenon DEF Given
  <1>6. \A n \in DOMAIN column : Cell(original[n], column[n], Given(n))'
    <2> SUFFICES ASSUME NEW n \in DOMAIN column
                 PROVE  Cell(original[n], column[n], Given(n))'
      OBVIOUS
    <2>1. original'[n] = original[n] /\ column'[n] = original[n] /\ Given(n)' = {}
      BY <1>1, <1>5
    <2>2. Cell(original[n], original[n], {})'
      BY <1>1, FreshCell, Zenon
    <2>3. QED
      BY <2>1, <2>2, Zenon
  <1>7. QED
    BY <1>1, <1>3, <1>4, <1>6, Zenon DEF ColumnInv

\* A rule is applied to one cell, and those that were given it come before it.
LEMMA OneRule ==
  ASSUME ColumnInv, ApplyRule
  PROVE  \E r \in rules : \E w \in After(r, column[row]) :
            /\ column' = [column EXCEPT ![row] = w] /\ row \in DOMAIN column /\ r \in Rules
            /\ turn' \in 1..(Len(Order) + 1)
            /\ "fill_null" \in Given(row) => r \in Late
            /\ \A n \in DOMAIN column :
                  Given(n)' = IF n = row THEN Given(row) \cup {r} ELSE Given(n)
  <1>1. PICK k \in turn..Len(Order) : \E w \in After(Order[k], column[row]) :
           /\ Order[k] \in rules /\ \A j \in turn..(k - 1) : Order[j] \notin rules
           /\ column' = [column EXCEPT ![row] = w] /\ turn' = k + 1
    BY DEF ApplyRule
  <1>2. PICK w \in After(Order[k], column[row]) :
           column' = [column EXCEPT ![row] = w] /\ turn' = k + 1
    BY <1>1
  <1>3. row \in DOMAIN column /\ rules' = rules /\ row' = row
    BY DEF ApplyRule
  <1>4. turn \in 1..12 /\ Len(Order) = 11 /\ k \in 1..11 /\ k >= turn
    BY <1>1, OrderFacts DEF ColumnInv, ColumnTypeOK
  <1>5. Given(row) = {r \in rules : \E j \in 1..(turn - 1) : Order[j] = r}
    BY <1>3, ColumnTypes DEF Given, ColumnInv
  <1>6. ASSUME NEW n \in DOMAIN column, n = row
        PROVE  Given(n)' = {r \in rules : \E j \in 1..k : Order[j] = r}
    <2>1. n = row' /\ ~(n < row') /\ turn' - 1 = k /\ rules' = rules
      BY <1>2, <1>3, <1>4, <1>6, ColumnTypes DEF ColumnInv
    <2>2. Given(n)' = {r \in rules' : \E j \in 1..(turn' - 1) : Order[j] = r}
      BY <2>1, Zenon DEF Given
    <2>3. QED
      BY <2>1, <2>2, Zenon
  <1>7. {r \in rules : \E j \in 1..k : Order[j] = r} = Given(row) \cup {Order[k]}
    <2>1. \A j \in 1..k : j \in 1..(turn - 1) \/ j \in turn..(k - 1) \/ j = k
      BY <1>4
    <2>2. \A j \in 1..(turn - 1) : j \in 1..k
      BY <1>4
    <2>3. k \in 1..k
      BY <1>4
    <2>4. QED
      BY <1>1, <1>5, <2>1, <2>2, <2>3
  <1>8. ASSUME "fill_null" \in Given(row)
        PROVE  Order[k] \in Late
    <2>1. PICK j \in 1..(turn - 1) : Order[j] = "fill_null"
      BY <1>5, <1>8
    <2>2. j \in 1..11 /\ j < k
      BY <1>4, <2>1
    <2>3. j = 6
      BY <2>1, <2>2, OrderFacts
    <2>4. k \in 7..11
      BY <1>4, <2>2, <2>3
    <2>5. QED
      BY <2>4, OrderFacts DEF Late
  <1>9. ASSUME NEW n \in DOMAIN column, n # row
        PROVE  Given(n)' = Given(n)
    BY <1>3, <1>9, Zenon DEF Given
  <1>10. turn' \in 1..(Len(Order) + 1)
    BY <1>2, <1>4
  <1>11. Order[k] \in Rules
    BY <1>4, OrderFacts DEF Rules
  <1>12. QED
    BY <1>2, <1>1, <1>3, <1>6, <1>7, <1>8, <1>9, <1>10, <1>11

\* The statistics are those of the column that was loaded.
LEMMA CellUnchanged ==
  ASSUME UNCHANGED <<original, type, rules, mode, fillMode>>, NEW v, NEW w, NEW given
  PROVE  Cell(v, w, given)' <=> Cell(v, w, given)
  <1> USE DEF Fallback, FillValue, Frequency, Rare, Fixable
  <1>1. FilledCell(v, w, given)' <=> FilledCell(v, w, given)
    BY DEF FilledCell
  <1>2. KeptCell(v, w)' <=> KeptCell(v, w)
    BY DEF KeptCell
  <1>3. FixedCell(v, w, given)' <=> FixedCell(v, w, given)
    <2>1. FillValue' = FillValue
      BY Zenon
    <2>2. Fixable(type)' = Fixable(type)
      BY Zenon
    <2> HIDE DEF FillValue, Fixable
    <2>3. QED
      BY <2>1, <2>2, Zenon DEF FixedCell
  <1>4. JoinedCell(v, w)' <=> JoinedCell(v, w)
    <2>1. \A c : Rare(c)' <=> Rare(c)
      BY Zenon
    <2> HIDE DEF Rare
    <2>2. QED
      BY <2>1 DEF JoinedCell
  <1>5. QED
    BY <1>1, <1>2, <1>3, <1>4 DEF Cell

\* One cell changes by one rule, the others and the statistics do not.
LEMMA ApplyRuleStep ==
  ASSUME ColumnInv, ApplyRule
  PROVE  ColumnInv'
  <1>1. /\ phase = "clean" /\ UNCHANGED <<phase, original, type, rules, row, mode, fillMode, again>>
    BY DEF ApplyRule
  <1>2. ColumnTypeOK /\ Advice /\ \A n \in DOMAIN column : Cell(original[n], column[n], Given(n))
    BY <1>1 DEF ColumnInv
  <1>3. PICK r \in rules : \E w \in After(r, column[row]) :
            /\ column' = [column EXCEPT ![row] = w] /\ row \in DOMAIN column /\ r \in Rules
            /\ turn' \in 1..(Len(Order) + 1)
            /\ "fill_null" \in Given(row) => r \in Late
            /\ \A n \in DOMAIN column :
                  Given(n)' = IF n = row THEN Given(row) \cup {r} ELSE Given(n)
    BY OneRule
  <1>4. PICK w \in After(r, column[row]) :
            /\ column' = [column EXCEPT ![row] = w] /\ row \in DOMAIN column /\ r \in Rules
            /\ turn' \in 1..(Len(Order) + 1)
            /\ "fill_null" \in Given(row) => r \in Late
            /\ \A n \in DOMAIN column :
                  Given(n)' = IF n = row THEN Given(row) \cup {r} ELSE Given(n)
    BY <1>3
  <1>5. w \in Cells
    BY <1>2, <1>4, CellToCell, ColumnTypes
  <1>6. /\ column' \in Seq(Cells) /\ Len(column') = Len(column) /\ DOMAIN column' = DOMAIN column
        /\ column'[row] = w /\ \A n \in DOMAIN column : n # row => column'[n] = column[n]
    <2>1. column \in Seq(Cells)
      BY <1>2 DEF ColumnTypeOK
    <2>2. QED
      BY <1>4, <1>5, <2>1
  <1>7. ColumnTypeOK'
    BY <1>1, <1>2, <1>4, <1>6 DEF ColumnTypeOK
  <1>8. Advice'
    BY <1>1, <1>2 DEF Advice
  <1>9. Cell(original[row], w, Given(row) \cup {r})
    <2>1. Cell(original[row], column[row], Given(row))
      BY <1>2, <1>4
    <2>2. original[row] \in Cells /\ column[row] \in Cells
      BY <1>2, <1>4, ColumnTypes
    <2>3. FilledCell(original[row], w, Given(row) \cup {r})
      BY <1>2, <1>4, <2>1, <2>2, FilledStays DEF Cell
    <2>4. KeptCell(original[row], w)
      BY <1>1, <1>2, <2>1, <2>2, KeptStays DEF Cell
    <2>5. FixedCell(original[row], w, Given(row) \cup {r})
      BY <1>2, <2>1, <2>2, FixedStays DEF Cell
    <2>6. JoinedCell(original[row], w)
      BY <1>2, <2>1, <2>2, JoinedStays DEF Cell
    <2>7. QED
      BY <2>3, <2>4, <2>5, <2>6 DEF Cell
  <1>10. \A n \in DOMAIN column : Cell(original[n], column'[n], Given(n)')
    <2> TAKE n \in DOMAIN column
    <2>1. CASE n = row
      BY <1>4, <1>6, <1>9, <2>1, Zenon
    <2>2. CASE n # row
      BY <1>2, <1>4, <1>6, <2>2, Zenon
    <2>3. QED
      BY <2>1, <2>2
  <1>11. \A n \in DOMAIN column' : Cell(original[n], column[n], Given(n))'
    <2> SUFFICES ASSUME NEW n \in DOMAIN column'
                 PROVE  Cell(original[n], column[n], Given(n))'
      OBVIOUS
    <2>1. Cell(original[n], column'[n], Given(n)')
      BY <1>6, <1>10, Zenon
    <2>2. \A v, u, given : Cell(v, u, given)' <=> Cell(v, u, given)
      BY <1>1, CellUnchanged
    <2>3. QED
      BY <1>1, <2>1, <2>2, Zenon
  <1>12. QED
    BY <1>7, <1>8, <1>11 DEF ColumnInv

\* A row is left when it was given all the rules.
LEMMA NextRowStep ==
  ASSUME ColumnInv, NextRow
  PROVE  ColumnInv'
  <1>1. /\ phase = "clean" /\ row \in DOMAIN column /\ row' = row + 1 /\ turn' = 1
        /\ \A k \in turn..Len(Order) : Order[k] \notin rules
        /\ UNCHANGED <<phase, original, column, type, rules, mode, fillMode, again>>
    BY DEF NextRow
  <1>2. ColumnTypeOK /\ Advice /\ \A n \in DOMAIN column : Cell(original[n], column[n], Given(n))
    BY <1>1 DEF ColumnInv
  <1>3. ColumnTypeOK'
    <2>1. row' \in 1..(Len(column') + 1)
      BY <1>1, <1>2, ColumnTypes
    <2>2. turn' \in 1..(Len(Order) + 1)
      BY <1>1, OrderFacts
    <2>3. QED
      BY <1>1, <1>2, <2>1, <2>2 DEF ColumnTypeOK
  <1>4. Advice'
    BY <1>1, <1>2 DEF Advice
  <1>5. {r \in rules : \E j \in 1..(turn - 1) : Order[j] = r} = rules
    <2>1. turn \in 1..12 /\ Len(Order) = 11 /\ DOMAIN Order = 1..11
      BY <1>2, OrderFacts DEF ColumnTypeOK
    <2>2. ASSUME NEW r \in rules
          PROVE  \E j \in 1..(turn - 1) : Order[j] = r
      <3>1. PICK j \in 1..11 : Order[j] = r
        BY <1>2, <2>1 DEF ColumnTypeOK
      <3>2. ~(j \in turn..11)
        BY <1>1, <2>1, <3>1
      <3>3. QED
        BY <2>1, <3>1, <3>2
    <2>3. QED
      BY <2>2
  <1>6. \A n \in DOMAIN column : Given(n)' = Given(n)
    <2> SUFFICES ASSUME NEW n \in DOMAIN column
                 PROVE  Given(n)' = Given(n)
      OBVIOUS
    <2>1. n \in Nat /\ row \in Nat
      BY <1>2, ColumnTypes
    <2>2. CASE n < row
      <3>1. n < row + 1
        BY <2>1, <2>2
      <3>2. QED
        BY <1>1, <2>2, <3>1, Zenon DEF Given
    <2>3. CASE n = row
      <3>1. ~(n < row) /\ n < row + 1
        BY <2>1, <2>3
      <3>2. QED
        BY <1>1, <1>5, <2>3, <3>1, Zenon DEF Given
    <2>4. CASE n > row
      <3>1. ~(n < row) /\ n # row /\ ~(n < row + 1)
        BY <2>1, <2>4
      <3>2. {r \in rules : \E j \in 1..(1 - 1) : Order[j] = r} = {}
        OBVIOUS
      <3>3. QED
        BY <1>1, <3>1, <3>2, Zenon DEF Given
    <2>5. QED
      BY <2>1, <2>2, <2>3, <2>4
  <1>7. \A n \in DOMAIN column' : Cell(original[n], column[n], Given(n))'
    <2> SUFFICES ASSUME NEW n \in DOMAIN column'
                 PROVE  Cell(original[n], column[n], Given(n))'
      OBVIOUS
    <2>1. Cell(original[n], column[n], Given(n)) /\ Given(n)' = Given(n)
      BY <1>1, <1>2, <1>6, Zenon
    <2>2. \A v, u, given : Cell(v, u, given)' <=> Cell(v, u, given)
      BY <1>1, CellUnchanged
    <2>3. QED
      BY <1>1, <2>1, <2>2, Zenon
  <1>8. QED
    BY <1>3, <1>4, <1>7 DEF ColumnInv

LEMMA ReanalyzeStep ==
  ASSUME ColumnInv, Reanalyze
  PROVE  ColumnInv'
  <1>1. /\ phase = "clean" /\ phase' = "done" /\ row \notin DOMAIN column /\ again' = TypeOf(column)
        /\ UNCHANGED <<original, column, type, rules, row, turn, mode, fillMode>>
    BY DEF Reanalyze
  <1>2. ColumnTypeOK /\ Advice /\ \A n \in DOMAIN column : Cell(original[n], column[n], Given(n))
    BY <1>1 DEF ColumnInv
  <1>3. ColumnTypeOK'
    BY <1>1, <1>2 DEF ColumnTypeOK
  <1>4. Advice'
    BY <1>1, <1>2 DEF Advice
  <1>5. \A n \in DOMAIN column' : Cell(original[n], column[n], Given(n))'
    <2> SUFFICES ASSUME NEW n \in DOMAIN column'
                 PROVE  Cell(original[n], column[n], Given(n))'
      OBVIOUS
    <2>1. Cell(original[n], column[n], Given(n))
      BY <1>1, <1>2, Zenon
    <2>2. Given(n)' = Given(n)
      BY <1>1, Zenon DEF Given
    <2>3. \A v, u, given : Cell(v, u, given)' <=> Cell(v, u, given)
      BY <1>1, CellUnchanged
    <2>4. QED
      BY <1>1, <2>1, <2>2, <2>3, Zenon
  <1>6. QED
    BY <1>3, <1>4, <1>5 DEF ColumnInv

LEMMA NextColumn ==
  ASSUME ColumnInv, [ColumnNext]_columnVars
  PROVE  ColumnInv'
  <1>1. CASE Analyze
    BY <1>1, AnalyzeStep
  <1>2. CASE ApplyRule
    BY <1>2, ApplyRuleStep
  <1>3. CASE NextRow
    BY <1>3, NextRowStep
  <1>4. CASE Reanalyze
    BY <1>4, ReanalyzeStep
  <1>5. CASE UNCHANGED columnVars
    <2>1. UNCHANGED <<phase, original, column, type, rules, row, turn, mode, fillMode, again>>
      BY <1>5 DEF columnVars
    <2>2. ColumnTypeOK'
      BY <2>1 DEF ColumnTypeOK, ColumnInv
    <2>3. Advice'
      BY <2>1 DEF Advice, ColumnInv
    <2>4. ASSUME phase' # "load", NEW n \in DOMAIN column'
          PROVE  Cell(original[n], column[n], Given(n))'
      <3>1. Cell(original[n], column[n], Given(n))
        BY <2>1, <2>4, Zenon DEF ColumnInv
      <3>2. Given(n)' = Given(n)
        BY <2>1, Zenon DEF Given
      <3>3. \A v, u, given : Cell(v, u, given)' <=> Cell(v, u, given)
        BY <2>1, CellUnchanged
      <3>4. QED
        BY <2>1, <3>1, <3>2, <3>3, Zenon
    <2>5. QED
      BY <2>2, <2>3, <2>4 DEF ColumnInv
  <1>6. QED
    BY <1>1, <1>2, <1>3, <1>4, <1>5 DEF ColumnNext

\* The column is one of cells throughout, of as many as were loaded, and the modes are none of
\* the values that are missing (etl_clean.go:168-205).
THEOREM ColumnsAreCells == ColumnSpec => []ColumnTypeOK
  BY InitColumn, NextColumn, PTL DEF ColumnSpec, ColumnInv

LEMMA ColumnInvHolds == ColumnSpec => []ColumnInv
  BY InitColumn, NextColumn, PTL DEF ColumnSpec

\* In the end every row was given every rule.
LEMMA AllGiven ==
  ASSUME ColumnInv, phase = "done", NEW n \in DOMAIN column
  PROVE  Given(n) = rules
  <1>1. row \notin DOMAIN column
    BY DEF ColumnInv, Advice
  <1>2. n < row
    BY <1>1, ColumnTypes DEF ColumnInv
  <1>3. QED
    BY <1>2 DEF Given

\* What was missing is there after the recommended rules, whatever they are, unless one that
\* comes later may empty it (column.go:709-768, etl_clean.go:388-455).
THEOREM MissingIsFilled == ColumnSpec => []FilledAfterCleaning
  <1>1. ASSUME ColumnInv
        PROVE  FilledAfterCleaning
    <2> SUFFICES ASSUME phase = "done", "remove_special_chars" \notin rules,
                        "fix_mismatched_types" \in rules => type \in OwnBranch,
                        NEW n \in DOMAIN column, original[n] \in Missing
                 PROVE  column[n] \notin Missing
      BY DEF FilledAfterCleaning
    <2>1. n \in DOMAIN original
      BY <1>1, ColumnTypes DEF ColumnInv
    <2>2. "fill_null" \in rules
      BY <1>1, <2>1, Advised DEF ColumnInv, Having
    <2>3. FilledCell(original[n], column[n], rules)
      BY <1>1, AllGiven DEF ColumnInv, Cell
    <2>4. QED
      BY <2>2, <2>3 DEF FilledCell
  <1>2. QED
    BY <1>1, ColumnInvHolds, PTL

\* Cells that match and can be parsed are only trimmed, whatever else the column is cleaned
\* of (etl_clean.go:499-553).
THEOREM MatchesAreKept == ColumnSpec => []MatchesStay
  <1>1. ASSUME ColumnInv
        PROVE  MatchesStay
    <2> SUFFICES ASSUME phase = "done", type \in {"integer", "float", "email"},
                        NEW n \in DOMAIN column, original[n] \in Matches[type],
                        type # "email" => Trim(original[n]) \in Parses[type]
                 PROVE  Trim(column[n]) = Trim(original[n])
      BY DEF MatchesStay
    <2>1. KeptCell(original[n], column[n])
      BY <1>1 DEF ColumnInv, Cell
    <2>2. QED
      BY <2>1 DEF KeptCell
  <1>2. QED
    BY <1>1, ColumnInvHolds, PTL

\* After one cleaning all cells match, and the next analysis finds the type or one tried
\* before it (column.go:349-405, etl_clean.go:492-553).
THEOREM OneCleaningSuffices == ColumnSpec => []MismatchesGone
  <1>1. ASSUME ColumnInv
        PROVE  MismatchesGone
    <2> SUFFICES ASSUME phase = "done", type \in {"boolean", "integer", "float"},
                        rules \subseteq {"trim_whitespace", "fill_null", "fix_mismatched_types"},
                        {fillMode, FillValue} \subseteq Matches[type],
                        Used(original) \subseteq Missing \cup Matches[type] \cup Fixable(type)
                 PROVE  /\ \A n \in DOMAIN column : column[n] \in Matches[type]
                        /\ \E k \in DOMAIN Patterned :
                              Patterned[k] = again /\ \A j \in 1..(k - 1) : Patterned[j] # type
      BY DEF MismatchesGone
    <2>1. ColumnTypeOK /\ Advice
      BY <1>1 DEF ColumnInv
    <2>2. /\ "fill_null" \in rules <=> Having(original, Missing) # {}
          /\ "fix_mismatched_types" \in rules
                <=> Mismatched(original, type) /\ Most(original, Fitting(type))
          /\ Filled(original) # {} /\ Most(original, Matches[type])
      BY <2>1, Advised
    <2>3. ASSUME NEW n \in DOMAIN column
          PROVE  column[n] \in Matches[type]
      <3>1. FixedCell(original[n], column[n], rules)
        BY <1>1, AllGiven DEF ColumnInv, Cell
      <3>2. /\ original[n] \in Missing =>
                 column[n] \in (IF "fill_null" \in rules THEN Matches[type] ELSE Missing)
            /\ original[n] \in Matches[type] => column[n] \in Matches[type]
            /\ original[n] \in Fixable(type) =>
                  IF "fix_mismatched_types" \in rules
                  THEN column[n] \in Matches[type] ELSE Trim(column[n]) = Trim(original[n])
        BY <3>1 DEF FixedCell
      <3>3. n \in DOMAIN original /\ original[n] \in Cells
        BY <2>1, ColumnTypes
      <3>4. original[n] \in Missing \cup Matches[type] \cup Fixable(type)
        BY <3>3 DEF Used
      <3>5. CASE original[n] \in Missing
        BY <2>2, <3>2, <3>3, <3>5 DEF Having
      <3>6. CASE original[n] \in Matches[type]
        BY <3>2, <3>6
      <3>7. CASE original[n] \in Fixable(type) /\ original[n] \notin Matches[type] \cup Missing
        <4>1. Fitting(type) = Matches[type]
          BY DEF Fitting
        <4>2. n \in Having(original, Cells \ (Fitting(type) \cup Missing))
          BY <3>3, <3>7, <4>1 DEF Having
        <4>3. "fix_mismatched_types" \in rules
          BY <2>2, <4>1, <4>2 DEF Mismatched
        <4>4. QED
          BY <3>2, <3>7, <4>3
      <3>8. QED
        BY <3>4, <3>5, <3>6, <3>7
    <2>4. column \in Seq(Cells) /\ again = TypeOf(column)
      BY <2>1 DEF ColumnTypeOK, Advice
    <2>5. column # <<>>
      <3>1. DOMAIN original # {}
        BY <2>2 DEF Filled, Having
      <3>2. QED
        BY <2>1, <3>1, ColumnTypes
    <2>6. QED
      BY <2>3, <2>4, <2>5, AllMatch
  <1>2. QED
    BY <1>1, ColumnInvHolds, PTL

\* Cells keep their category, or leave a rare one for one that is not
\* (etl_clean.go:588-609, 777-801).
THEOREM RareOnesJoin == ColumnSpec => []OutliersJoinCategories
  <1>1. ASSUME ColumnInv
        PROVE  OutliersJoinCategories
    <2> SUFFICES ASSUME phase = "done", type = "categorical",
                        rules \subseteq {"fill_null", "to_lowercase", "trim_whitespace",
                                         "fix_categorical_outliers"},
                        NEW n \in Having(original, Cells \ Nulls)
                 PROVE  \/ Folded(column[n]) = Folded(original[n])
                        \/ Rare(Folded(original[n])) /\ ~Rare(Folded(column[n]))
      BY DEF OutliersJoinCategories
    <2>1. n \in DOMAIN column /\ original[n] \notin Nulls
      BY <1>1, ColumnTypes DEF ColumnInv, Having
    <2>2. JoinedCell(original[n], column[n])
      BY <1>1, <2>1 DEF ColumnInv, Cell
    <2>3. QED
      BY <2>1, <2>2 DEF JoinedCell
  <1>2. QED
    BY <1>1, ColumnInvHolds, PTL
=============================================================================
