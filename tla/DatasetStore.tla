---------------------------- MODULE DatasetStore ----------------------------
(***************************************************************************)
(* The dataset store, internal/dataset/store.go, and the goroutines that   *)
(* meet in it.  Its lock covers the map from ids to datasets and nothing   *)
(* else: Get hands out a pointer, through which the ETL executors and the  *)
(* export handlers then go row by row without a lock.                      *)
(*                                                                         *)
(* A job imports a dataset, cleans or deduplicates one in place, or makes a*)
(* copy and cleans that; a new dataset is named by the job that makes it,  *)
(* an old one by its id.  The Records of a dataset are a slice: a header   *)
(* that points to an array, which points to the rows, which are maps.  Each*)
(* of the three is written apart from the others: the header when Records  *)
(* is replaced, the array when survivors are copied back, the maps when    *)
(* cells are rewritten.  Whoever goes through the rows takes the header    *)
(* first, and then has the array it pointed to, whatever Records becomes.  *)
(*                                                                         *)
(* Of a row only the jobs that wrote it are kept, of Columns only the      *)
(* moment they are replaced.  A copy that is deduplicated instead is seen  *)
(* by nobody either until it is stored.                                    *)
(***************************************************************************)
EXTENDS Integers, Sequences, FiniteSets

CONSTANTS
    Ids,
    Loaded,    \* the ids with a dataset from the beginning
    Jobs,      \* bound: the jobs that ever run
    Exports,   \* bound: how many exports run at a time
    Rows,      \* how many rows a dataset has when it is imported
    Chunk,     \* how many rows are cleaned before the survivors are copied back
    None       \* no dataset, no analysis; the array a dataset was made with

ASSUME StoreAssumption ==
    /\ Loaded \subseteq Ids /\ Ids \cap Jobs = {} /\ Exports \cap Jobs = {}
    /\ Rows \in Nat \ {0} /\ Chunk \in Nat \ {0}
    /\ None \notin Ids \cup Jobs

Objects == Ids \cup Jobs
Kinds == {"import", "clean", "dedup", "copy"}
InPlace == {"clean", "dedup"}
Phases == {"new", "read", "clone", "columns", "rewrite", "compare", "replace", "put",
           "analyze", "done", "failed"}

VARIABLES
    datasets,   \* the map of the store
    records,    \* the array that the Records of each dataset point to: the one it was
                \* made with (None), or the one a job replaced it by
    arrays,     \* of each dataset and job, such an array: the numbers of its rows
    rows,       \* the maps of each dataset, numbered as they were made
    analysis,   \* the rows its Analysis was made from
    at,         \* the phase of each job
    kind,
    to,         \* the id of the dataset it stores
    source,     \* the dataset it got from the store
    work,       \* the dataset it works on
    surviving,  \* of the chunk it is at
    processed,  \* how many survived in all
    dropped,    \* whether any row did not
    scanned,    \* the rows its analysis has read
    taken,      \* the array a job or an export goes through, once it has taken it,
    until,      \* how far it goes, 0 before,
    pos,        \* and where it is
    held,       \* the dataset an export got from the store
    exported,   \* the rows it has written
    opened,     \* history: the rows it took, if nothing of the dataset was written since
    crashed,    \* the process has ended
    contested,  \* history: jobs with another on the same id beside or after them
    unfit       \* history: datasets that such a job, or a cancelled one, left

data == <<records, arrays, rows>>
plan == <<kind, to, source, work>>
cleaning == <<surviving, processed, dropped>>
pass == <<taken, until, pos>>
exporting == <<held, exported, opened>>
history == <<contested, unfit>>
vars == <<datasets, data, analysis, at, plan, cleaning, scanned, pass, exporting, crashed,
          history>>

RowsSoFar == Seq(SUBSET Jobs)
Slices == Jobs \cup {None}

TypeOK ==
    /\ datasets \in [Ids -> Objects \cup {None}]
    /\ records \in [Objects -> Slices]
    /\ arrays \in [Objects -> [Slices -> Seq(1..Rows)]]
    /\ rows \in [Objects -> [1..Rows -> SUBSET Jobs]]
    /\ analysis \in [Objects -> RowsSoFar \cup {None}]
    /\ at \in [Jobs -> Phases] /\ kind \in [Jobs -> Kinds] /\ to \in [Jobs -> Ids]
    /\ source \in [Jobs -> Objects] /\ work \in [Jobs -> Objects]
    /\ surviving \in [Jobs -> Seq(1..Rows)]
    /\ processed \in [Jobs -> Nat] /\ dropped \in [Jobs -> BOOLEAN]
    /\ scanned \in [Jobs -> RowsSoFar]
    /\ taken \in [Jobs \cup Exports -> Slices]
    /\ until \in [Jobs \cup Exports -> Nat] /\ pos \in [Jobs \cup Exports -> Nat \ {0}]
    /\ held \in [Exports -> Objects \cup {None}] /\ exported \in [Exports -> RowsSoFar]
    /\ opened \in [Exports -> RowsSoFar \cup {None}]
    /\ crashed \in BOOLEAN /\ contested \subseteq Jobs /\ unfit \subseteq Objects

\* What a reader of array w of a dataset finds.
Through(o, w) == [k \in DOMAIN arrays[o][w] |-> rows[o][arrays[o][w][k]]]
Contents(o) == Through(o, records[o])
Length(o) == Len(arrays[o][records[o]])

Init ==
    /\ datasets = [i \in Ids |-> IF i \in Loaded THEN i ELSE None]
    /\ records = [o \in Objects |-> None]
    /\ arrays = [o \in Objects |-> [w \in Slices |->
                    IF o \in Loaded /\ w = None THEN [k \in 1..Rows |-> k] ELSE <<>>]]
    /\ rows = [o \in Objects |-> [k \in 1..Rows |-> {}]]
    /\ analysis = [o \in Objects |-> IF o \in Loaded THEN rows[o] ELSE None]
    /\ at = [j \in Jobs |-> "new"]
    /\ kind \in [Jobs -> Kinds]
    /\ to \in [Jobs -> Ids]
    /\ source = [j \in Jobs |-> j] /\ work = [j \in Jobs |-> j]
    /\ surviving = [j \in Jobs |-> <<>>]
    /\ processed = [j \in Jobs |-> 0] /\ dropped = [j \in Jobs |-> FALSE]
    /\ scanned = [j \in Jobs |-> <<>>]
    /\ taken = [x \in Jobs \cup Exports |-> None]
    /\ until = [x \in Jobs \cup Exports |-> 0]
    /\ pos = [x \in Jobs \cup Exports |-> 1]
    /\ held = [e \in Exports |-> None] /\ exported = [e \in Exports |-> <<>>]
    /\ opened = [e \in Exports |-> None]
    /\ crashed = FALSE /\ contested = {} /\ unfit = {}

-----------------------------------------------------------------------------
(* A job gets its dataset                                                  *)

Running(j) == at[j] \notin {"new", "done", "failed"}
Onto(i) == {k \in Jobs : at[k] # "new" /\ to[k] = i}

\* Faulty: a clone keeps the id of its source.
IdOf_Source(o) == IF o \in Ids THEN o ELSE IF source[o] \in Ids THEN source[o] ELSE to[o]

\* The ID of a dataset.
IdOf(o) == IF o \in Ids THEN o ELSE to[o]

\* Faulty: no clone is made.
WorkOn_Source(j, from) == IF kind[j] = "import" THEN j ELSE datasets[from]

WorkOn(j, from) == IF kind[j] \in InPlace THEN datasets[from] ELSE j

\* A job or an export has done with the rows it took, and is to go on from a given one.
Leave(x, next) ==
    /\ taken' = [taken EXCEPT ![x] = None]
    /\ until' = [until EXCEPT ![x] = 0]
    /\ pos' = [pos EXCEPT ![x] = next]

ForgetRows(j) ==
    /\ surviving' = [surviving EXCEPT ![j] = <<>>]
    /\ processed' = [processed EXCEPT ![j] = 0]
    /\ dropped' = [dropped EXCEPT ![j] = FALSE]

\* A cleaning begins with its columns, if there are some to drop.
CleanFrom == {"columns", "rewrite"}

\* A job gets a dataset from the store, or begins an import.  In place, it stores
\* the dataset under the id it got it by.
Start(j, from) ==
    /\ ~crashed /\ at[j] = "new"
    /\ kind[j] # "import" => datasets[from] # None
    /\ kind[j] \in InPlace => to[j] = from
    /\ \E first \in CASE kind[j] = "import" -> {"read"}
                      [] kind[j] = "copy" -> {"clone"}
                      [] kind[j] = "dedup" -> {"compare"}
                      [] kind[j] = "clean" -> CleanFrom :
          at' = [at EXCEPT ![j] = first]
    /\ source' = [source EXCEPT ![j] = IF kind[j] = "import" THEN j ELSE datasets[from]]
    /\ work' = [work EXCEPT ![j] = WorkOn(j, from)]
    /\ contested' = contested \cup Onto(to[j])
                        \cup (IF \E k \in Onto(to[j]) : Running(k) THEN {j} ELSE {})
    /\ UNCHANGED <<datasets, data, analysis, kind, to, cleaning, scanned, pass, exporting,
                   crashed, unfit>>

\* A job whose dataset is not in the store fails.
NotFound(j, from) ==
    /\ ~crashed /\ at[j] = "new" /\ kind[j] # "import" /\ datasets[from] = None
    /\ at' = [at EXCEPT ![j] = "failed"]
    /\ UNCHANGED <<datasets, data, analysis, plan, cleaning, scanned, pass, exporting,
                   crashed, history>>

\* The context is done, which an import looks for at every row and a cleaning at every
\* chunk: an import stores nothing, what was done in place stays so.
Cancel(j) ==
    /\ ~crashed
    /\ \/ at[j] = "read"
       \/ at[j] = "rewrite" /\ until[j] = 0 /\ pos[j] <= Length(work[j])
    /\ at' = [at EXCEPT ![j] = "failed"]
    /\ unfit' = unfit \cup {work[j]}
    /\ Leave(j, 1) /\ ForgetRows(j)
    /\ UNCHANGED <<datasets, data, analysis, plan, scanned, exporting, crashed, contested>>

-----------------------------------------------------------------------------
(* Going through the rows                                                  *)

\* The dataset whose rows a job goes through.
From(j) == IF at[j] = "clone" THEN source[j] ELSE work[j]

\* It takes the header of Records, for a chunk or to the end.
TakeRows(j) ==
    /\ ~crashed /\ at[j] \in {"clone", "columns", "rewrite", "compare", "analyze"}
    /\ until[j] = 0 /\ pos[j] <= Length(From(j))
    /\ taken' = [taken EXCEPT ![j] = records[From(j)]]
    /\ until' = [until EXCEPT ![j] = IF at[j] = "rewrite" /\ pos[j] + Chunk <= Length(From(j))
                                     THEN pos[j] + Chunk - 1 ELSE Length(From(j))]
    /\ UNCHANGED <<datasets, data, analysis, at, plan, cleaning, scanned, pos, exporting,
                   crashed, history>>

\* It is at a row in some phase, or past the last one it took.
AtRow(j, phase) == ~crashed /\ at[j] = phase /\ pos[j] <= until[j]
PastRows(j, phase) == ~crashed /\ at[j] = phase /\ until[j] # 0 /\ pos[j] > until[j]

\* The number of the row it is at.
Row(j) == arrays[From(j)][taken[j]][pos[j]]

Advance(j) == pos' = [pos EXCEPT ![j] = @ + 1] /\ UNCHANGED <<taken, until>>

\* Something of dataset o is written that an export of it may still come to.
Disturb(o) == opened' = [e \in Exports |-> IF held[e] = o THEN None ELSE opened[e]]

\* A job writes the map of the row it is at.
WriteRow(j) ==
    /\ rows' = [rows EXCEPT ![work[j]][Row(j)] = @ \cup {j}]
    /\ Disturb(work[j])

\* The next row is made of the dataset a job makes.
Made(j) == Len(arrays[j][None]) + 1

MakeRow(j, row) ==
    /\ rows' = [rows EXCEPT ![j][Made(j)] = row]
    /\ arrays' = [arrays EXCEPT ![j][None] = Append(@, Made(j))]
    /\ UNCHANGED records

\* The rows of an import gather in a slice of its own, and are then analyzed.
ReadRow(j) ==
    /\ ~crashed /\ at[j] = "read"
    /\ MakeRow(j, {j})
    /\ at' = [at EXCEPT ![j] = IF Made(j) < Rows THEN @ ELSE "analyze"]
    /\ UNCHANGED <<datasets, analysis, plan, cleaning, scanned, pass, exporting, crashed,
                   history>>

\* Clone copies row after row into maps of its own, and shares the Analysis.
CloneRow(j) ==
    /\ AtRow(j, "clone")
    /\ MakeRow(j, rows[source[j]][Row(j)])
    /\ IF pos[j] < until[j]
       THEN Advance(j) /\ UNCHANGED at
       ELSE Leave(j, 1) /\ \E first \in CleanFrom : at' = [at EXCEPT ![j] = first]
    /\ analysis' = [analysis EXCEPT ![j] = analysis[source[j]]]
    /\ UNCHANGED <<datasets, plan, cleaning, scanned, exporting, crashed, history>>

-----------------------------------------------------------------------------
(* Cleaning                                                                *)

\* Columns are deleted from every row,
DropColumns(j) ==
    /\ AtRow(j, "columns") /\ WriteRow(j) /\ Advance(j)
    /\ UNCHANGED <<datasets, records, arrays, analysis, at, plan, cleaning, scanned, held,
                   exported, crashed, history>>

\* and Columns is replaced, by which exports go in every row.
ReplaceColumns(j) ==
    /\ PastRows(j, "columns") /\ Leave(j, 1) /\ Disturb(work[j])
    /\ at' = [at EXCEPT ![j] = "rewrite"]
    /\ UNCHANGED <<datasets, data, analysis, plan, cleaning, scanned, held, exported,
                   crashed, history>>

\* The rules rewrite a row or not, and drop it or not.
RewriteRow(j) ==
    /\ AtRow(j, "rewrite") /\ Advance(j)
    /\ WriteRow(j) \/ UNCHANGED <<rows, opened>>
    /\ \/ /\ surviving' = [surviving EXCEPT ![j] = Append(@, Row(j))]
          /\ processed' = [processed EXCEPT ![j] = @ + 1] /\ UNCHANGED dropped
       \/ /\ dropped' = [dropped EXCEPT ![j] = TRUE] /\ UNCHANGED <<surviving, processed>>
    /\ UNCHANGED <<datasets, records, arrays, analysis, at, plan, scanned, held, exported,
                   crashed, history>>

\* An array with others copied over it from some place on.
Over(array, others, start) ==
    [k \in DOMAIN array |-> IF k - start + 1 \in DOMAIN others THEN others[k - start + 1]
                            ELSE array[k]]

\* The first row of the chunk a job is past.
ChunkStart(j) == ((until[j] - 1) \div Chunk) * Chunk + 1

\* The survivors of a chunk are copied to where it began, in the array Records point to
\* by now.
CopyBack(j) ==
    /\ PastRows(j, "rewrite") /\ ChunkStart(j) <= Length(work[j]) + 1
    /\ arrays' = [arrays EXCEPT ![work[j]][records[work[j]]] =
                    Over(@, surviving[j], ChunkStart(j))]
    /\ surviving' = [surviving EXCEPT ![j] = <<>>]
    /\ Disturb(work[j]) /\ Leave(j, ChunkStart(j) + Chunk)
    /\ UNCHANGED <<datasets, records, rows, analysis, at, plan, processed, dropped, scanned,
                   held, exported, crashed, history>>

\* If any row was dropped, the first rows of the array, as many as survived and one at
\* least, make the new Records.
EndRewrite(j) ==
    LET all == arrays[work[j]][records[work[j]]]
        kept == {k \in DOMAIN all : k = 1 \/ k <= processed[j]}
    IN
    /\ ~crashed /\ at[j] = "rewrite" /\ until[j] = 0 /\ pos[j] > Length(work[j])
    /\ IF dropped[j]
       THEN /\ arrays' = [arrays EXCEPT ![work[j]][j] = [k \in kept |-> all[k]]]
            /\ taken' = [taken EXCEPT ![j] = j]
            /\ at' = [at EXCEPT ![j] = "replace"]
       ELSE at' = [at EXCEPT ![j] = "put"] /\ UNCHANGED <<arrays, taken>>
    /\ pos' = [pos EXCEPT ![j] = 1] /\ ForgetRows(j)
    /\ UNCHANGED <<datasets, records, rows, analysis, plan, scanned, until, exporting,
                   crashed, history>>

-----------------------------------------------------------------------------
(* Deduplication                                                           *)

CompareRow(j) ==
    /\ AtRow(j, "compare") /\ Advance(j)
    /\ UNCHANGED <<datasets, data, analysis, at, plan, cleaning, scanned, exporting, crashed,
                   history>>

\* Of n rows one of each group, any one, in the order of the groups' first rows.
Winners(n) ==
    {s \in UNION {[1..m -> 1..n] : m \in 1..n} :
        \E first \in [DOMAIN s -> 1..n] :
            /\ first[1] = 1
            /\ \A g, h \in DOMAIN s :
                /\ g < h => first[g] < first[h]
                /\ first[g] <= s[g]
                /\ g # h => s[g] # s[h] /\ first[g] # s[h]}

EndCompare(j) ==
    LET all == arrays[work[j]][taken[j]] IN
    /\ PastRows(j, "compare")
    /\ \E s \in Winners(until[j]) :
          arrays' = [arrays EXCEPT ![work[j]][j] = [k \in DOMAIN s |-> all[s[k]]]]
    /\ taken' = [taken EXCEPT ![j] = j]
    /\ at' = [at EXCEPT ![j] = "replace"]
    /\ UNCHANGED <<datasets, records, rows, analysis, plan, cleaning, scanned, until, pos,
                   exporting, crashed, history>>

\* The context is done: the rows it took are what it keeps.
KeepAll(j) ==
    /\ AtRow(j, "compare")
    /\ at' = [at EXCEPT ![j] = "replace"]
    /\ UNCHANGED <<datasets, data, analysis, plan, cleaning, scanned, pass, exporting,
                   crashed, history>>

-----------------------------------------------------------------------------
(* The result                                                              *)

\* Faulty: the rows that are kept are gathered in the array there was.
Replace_InPlace(j) ==
    /\ arrays' = [arrays EXCEPT ![work[j]][records[work[j]]] =
                    Over(@, arrays[work[j]][taken[j]], 1)]
    /\ records' = [records EXCEPT ![work[j]] = taken[j]]

\* Records become the array of the rows that are kept.
Replace(j) ==
    /\ records' = [records EXCEPT ![work[j]] = taken[j]]
    /\ UNCHANGED arrays

ReplaceRecords(j) ==
    /\ ~crashed /\ at[j] = "replace"
    /\ Replace(j) /\ Leave(j, 1)
    /\ at' = [at EXCEPT ![j] = "put"]
    /\ UNCHANGED <<datasets, rows, analysis, plan, cleaning, scanned, exporting, crashed,
                   history>>

\* The dataset is stored, and analyzed afterwards.
Put(j) ==
    /\ ~crashed /\ at[j] = "put" /\ Leave(j, 1)
    /\ datasets' = [datasets EXCEPT ![IdOf(work[j])] = work[j]]
    /\ at' = [at EXCEPT ![j] = "analyze"]
    /\ UNCHANGED <<data, analysis, plan, cleaning, scanned, exporting, crashed, history>>

\* Faulty: the source is analyzed in place of the result.
Analyzed_Source(j) == source[j]

Analyzed(j) == work[j]

\* Each row is looked up in what Records are by now.
AnalyzeRow(j) ==
    /\ AtRow(j, "analyze") /\ pos[j] <= Length(Analyzed(j)) /\ Advance(j)
    /\ scanned' = [scanned EXCEPT ![j] = Append(@, Contents(Analyzed(j))[pos[j]])]
    /\ UNCHANGED <<datasets, data, analysis, at, plan, cleaning, exporting, crashed, history>>

\* The analysis goes to the dataset, and the dataset to the store: once more, unless
\* it was imported.
Save(j) ==
    /\ PastRows(j, "analyze") /\ Leave(j, 1)
    /\ analysis' = [analysis EXCEPT ![work[j]] = scanned[j]]
    /\ datasets' = [datasets EXCEPT ![IdOf(work[j])] = work[j]]
    /\ at' = [at EXCEPT ![j] = "done"]
    /\ unfit' = IF j \in contested THEN unfit \cup {work[j]} ELSE unfit \ {work[j]}
    /\ scanned' = [scanned EXCEPT ![j] = <<>>]
    /\ UNCHANGED <<data, plan, cleaning, exporting, crashed, contested>>

-----------------------------------------------------------------------------
(* The exports                                                             *)

Open(e, i) ==
    /\ ~crashed /\ held[e] = None /\ datasets[i] # None
    /\ held' = [held EXCEPT ![e] = datasets[i]]
    /\ opened' = [opened EXCEPT ![e] = <<>>]
    /\ UNCHANGED <<datasets, data, analysis, at, plan, cleaning, scanned, pass, exported,
                   crashed, history>>

\* The loop over Records takes the header, once.
RangeOver(e) ==
    /\ ~crashed /\ held[e] # None /\ until[e] = 0
    /\ taken' = [taken EXCEPT ![e] = records[held[e]]]
    /\ until' = [until EXCEPT ![e] = Length(held[e])]
    /\ opened' = [opened EXCEPT ![e] = IF @ = None THEN None ELSE Contents(held[e])]
    /\ UNCHANGED <<datasets, data, analysis, at, plan, cleaning, scanned, pos, held, exported,
                   crashed, history>>

\* While a job replaces the header, its length may be the new one, its array the old.
RangeTorn(e, j) ==
    LET n == Len(arrays[work[j]][taken[j]]) IN
    /\ ~crashed /\ held[e] # None /\ until[e] = 0
    /\ at[j] = "replace" /\ work[j] = held[e] /\ n < Length(work[j])
    /\ taken' = [taken EXCEPT ![e] = records[held[e]]]
    /\ until' = [until EXCEPT ![e] = n]
    /\ opened' = [opened EXCEPT ![e] = None]
    /\ UNCHANGED <<datasets, data, analysis, at, plan, cleaning, scanned, pos, held, exported,
                   crashed, history>>

ExportRow(e) ==
    /\ ~crashed /\ held[e] # None /\ pos[e] <= until[e] /\ Advance(e)
    /\ exported' = [exported EXCEPT ![e] = Append(@, Through(held[e], taken[e])[pos[e]])]
    /\ UNCHANGED <<datasets, data, analysis, at, plan, cleaning, scanned, held, opened, crashed,
                   history>>

Close(e) ==
    /\ ~crashed /\ held[e] # None /\ until[e] # 0 /\ pos[e] > until[e] /\ Leave(e, 1)
    /\ held' = [held EXCEPT ![e] = None]
    /\ exported' = [exported EXCEPT ![e] = <<>>] /\ opened' = [opened EXCEPT ![e] = None]
    /\ UNCHANGED <<datasets, data, analysis, at, plan, cleaning, scanned, crashed, history>>

-----------------------------------------------------------------------------
(* Two goroutines in one place                                             *)

\* Who is at the header of Records, to take it or to replace it, and who is at a row.
AtHeader(x, o) ==
    \/ x \in Exports /\ held[x] = o /\ until[x] = 0
    \/ /\ x \in Jobs /\ From(x) = o
       /\ \/ at[x] \in {"replace", "analyze"}
          \/ at[x] \in {"clone", "columns", "rewrite", "compare"} /\ until[x] = 0

InRow(x, o, n) ==
    \/ x \in Exports /\ held[x] = o /\ pos[x] <= until[x] /\ n = arrays[o][taken[x]][pos[x]]
    \/ x \in Jobs /\ at[x] = "read" /\ o = x /\ n = Made(x)
    \/ /\ x \in Jobs /\ From(x) = o
       /\ at[x] \in {"clone", "columns", "rewrite", "compare"} /\ pos[x] <= until[x] /\ n = Row(x)
    \/ /\ x \in Jobs /\ at[x] = "analyze" /\ work[x] = o /\ pos[x] <= Length(o)
       /\ n = arrays[o][records[o]][pos[x]]

\* Job x writes the header, or the row, of its dataset that y is at.
Race(x, y) ==
    /\ x # y
    /\ \/ at[x] = "replace" /\ AtHeader(y, work[x])
       \/ /\ at[x] \in {"read", "columns", "rewrite"}
          /\ \E n \in 1..Rows : InRow(x, work[x], n) /\ InRow(y, work[x], n)

\* The runtime may notice two goroutines in one map and end the process, with all
\* datasets in it; if it does not, the row is read as it was before the write or after.
\* Part of an old header with part of a new one may lead anywhere.
Crash ==
    /\ ~crashed
    /\ \E x \in Jobs, y \in Jobs \cup Exports : Race(x, y)
    /\ crashed' = TRUE
    /\ UNCHANGED <<datasets, data, analysis, at, plan, cleaning, scanned, pass, exporting,
                   history>>

\* A job looks up a row past the end of Records that another has replaced meanwhile;
\* no worker recovers from a panic.
Panic(j) ==
    /\ \/ AtRow(j, "analyze") /\ pos[j] > Length(work[j])
       \/ PastRows(j, "rewrite") /\ ChunkStart(j) > Length(work[j]) + 1
       \/ PastRows(j, "compare") /\ until[j] > Length(work[j])
    /\ crashed' = TRUE
    /\ UNCHANGED <<datasets, data, analysis, at, plan, cleaning, scanned, pass, exporting,
                   history>>

Next ==
    \/ \E j \in Jobs, i \in Ids : Start(j, i) \/ NotFound(j, i)
    \/ \E j \in Jobs :
          \/ Cancel(j) \/ TakeRows(j) \/ ReadRow(j) \/ CloneRow(j)
          \/ DropColumns(j) \/ ReplaceColumns(j)
          \/ RewriteRow(j) \/ CopyBack(j) \/ EndRewrite(j)
          \/ CompareRow(j) \/ EndCompare(j) \/ KeepAll(j)
          \/ ReplaceRecords(j) \/ Put(j) \/ AnalyzeRow(j) \/ Save(j) \/ Panic(j)
    \/ \E e \in Exports :
          \/ \E i \in Ids : Open(e, i)
          \/ \E j \in Jobs : RangeTorn(e, j)
          \/ RangeOver(e) \/ ExportRow(e) \/ Close(e)
    \/ Crash

Spec == Init /\ [][Next]_vars

-----------------------------------------------------------------------------
(* Properties                                                              *)

\* Two goroutines are in one row, or at one header, one of them writing, only if a job
\* changes a dataset in place: no import, no clone and no cleaning of one ever runs
\* into another goroutine (dataset/store.go:33-52, 75-83).
OnlyInPlaceRaces ==
    \A x \in Jobs, y \in Jobs \cup Exports : kind[x] \notin InPlace => ~Race(x, y)

\* An export writes the rows its dataset had at one moment, all of them, unless a job in
\* place writes to a row or within the array meanwhile: never part of an import or of a
\* clone, and never rows of before and after a deduplication, which replaces Records as
\* a whole (handlers/worker.go:115-145, etl_deduplicate.go:165).
ExportsAreWhole ==
    \A e \in Exports :
        opened[e] # None /\ until[e] # 0 =>
            /\ until[e] = Len(opened[e]) /\ Len(exported[e]) = pos[e] - 1
            /\ \A k \in 1..(pos[e] - 1) : exported[e][k] = opened[e][k]
            /\ held[e] \in Jobs => at[held[e]] \notin {"new", "read", "clone"}

AtWork(o) == {j \in Jobs : work[j] = o /\ Running(j)}

\* The analysis served with a dataset is that of its rows, when no job is at work
\* on it, the last one was not cancelled, and had its id for itself
\* (executor/reanalyze.go:15-58).
AnalysisFits ==
    \A i \in Ids :
        LET o == datasets[i] IN
        o # None /\ o \notin unfit /\ AtWork(o) = {} => analysis[o] = Contents(o)

\* What a finished job stored stays under its id until a later job stores there:
\* a job that began before it ended may put an older dataset back
\* (executor/etl_clean.go:671-693, reanalyze.go:56-57).
FinishedStands ==
    \A j \in Jobs : at[j] = "done" /\ j \notin contested => datasets[to[j]] = work[j]

=============================================================================
