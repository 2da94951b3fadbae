----------------------------- MODULE CleanJob -----------------------------
(***************************************************************************)
(* The cleaning executor, internal/executor/etl_clean.go: what it leaves   *)
(* in the dataset store when rows are dropped, when it is cancelled between*)
(* two chunks, and when the job is tried again.                            *)
(*                                                                         *)
(* A dataset holds references to its rows, as the map type Record is one:  *)
(* heap gives each row its cells.  A column that was deleted from a row is *)
(* outside the domain of its cells.                                        *)
(***************************************************************************)
EXTENDS Integers, FiniteSets, Sequences

CONSTANTS
    N,            \* bound: rows of the source
    Sources,      \* the rows the source may have
    ChunkSize,    \* rows cleaned between two looks at the context (1000 in the code)
    MaxAttempts,  \* bound: how often the worker runs the job
    Columns,
    Values,       \* cells that isNullValue does not take for missing
    Nulls,        \* cells that it does: the empty one, "N/A", "-", "missing", ...
    Blanks,       \* those of them that drop_empty_columns takes for empty, too
    Empty,        \* the empty cell
    Zero,         \* "0", the fill of last resort
    Whole,        \* a rule's column when it names none
    Rewrite,      \* what an operation on single values makes of each of them
    RuleLists     \* the lists of rules a job may have

ASSUME SizesAssumption == N \in Nat /\ ChunkSize \in Nat \ {0} /\ MaxAttempts \in Nat \ {0}
ASSUME ValuesAssumption ==
    /\ Values \cap Nulls = {} /\ Blanks \subseteq Nulls /\ Empty \in Blanks
    /\ Zero \in Values /\ Whole \notin Columns
    /\ Rewrite \in [Values \cup Nulls -> Values \cup Nulls]

Rule == [op : {"fill_null", "drop_null", "rewrite", "drop_empty_columns"},
         column : Columns \cup {Whole},
         strategy : {"mode", "value"},
         value : Values \cup Nulls]   \* Empty: the rule has no fill_value
ASSUME RulesAssumption == RuleLists \subseteq Seq(Rule)
ASSUME SourcesAssumption ==
    \A s \in Sources : Len(s) <= N /\ s \in Seq([Columns -> Values \cup Nulls])

VARIABLES
    rules, skipNulls, createCopy,  \* the job's parameters; null_handling is "skip" or not
    data,       \* the two datasets: their columns and their records
    heap,       \* the cells of each row
    published,  \* the clone is in the dataset store
    pc,         \* "idle", "cleaning", "done", "failed"
    start,      \* records before the current chunk
    processed, skipped,
    modes,      \* fillStats: the mode of each column that has one computed
    attempt,
    original    \* the cells of the source's rows before the job (for the properties)

params == <<rules, skipNulls, createCopy, original>>
vars == <<params, data, heap, published, pc, start, processed, skipped, modes, attempt>>

Cells == UNION {[cs -> Values \cup Nulls] : cs \in SUBSET Columns}
RowIds == 1..(2 * N)  \* the source's rows, then those of the clone
Target == IF createCopy THEN "clone" ELSE "src"
Work == data[Target]
Records == Work.records

Init ==
    /\ rules \in RuleLists /\ skipNulls \in BOOLEAN /\ createCopy \in BOOLEAN
    /\ original \in Sources
    /\ heap = [r \in RowIds |-> IF r <= Len(original) THEN original[r] ELSE <<>>]
    /\ data = [d \in {"src", "clone"} |->
                 IF d = "src" THEN [columns |-> Columns, records |-> [k \in DOMAIN original |-> k]]
                 ELSE [columns |-> {}, records |-> <<>>]]
    /\ published = FALSE /\ pc = "idle"
    /\ start = 0 /\ processed = 0 /\ skipped = 0 /\ modes = <<>> /\ attempt = 0

-----------------------------------------------------------------------------
(* What the rules do to one row                                            *)

Cell(row, c) == IF c \in DOMAIN row THEN row[c] ELSE Empty
Reach(rule, row) == DOMAIN row \cap (IF rule.column = Whole THEN Work.columns ELSE {rule.column})

ModeOf(c) == IF c \in DOMAIN modes THEN modes[c] ELSE Empty

\* Faulty: a column with no mode is given no 0.
FillValue_NoDefault(rule, c) ==
    LET chosen == IF rule.strategy = "mode" /\ ModeOf(c) # Empty
                  THEN ModeOf(c) ELSE rule.value IN
    IF chosen # Empty THEN chosen ELSE ModeOf(c)

\* The mode if the rule asks for it, then the rule's value, then the mode in any
\* case, and 0 when there is none.  A value that is itself a null text is given.
FillValue(rule, c) ==
    LET chosen == IF rule.strategy = "mode" /\ ModeOf(c) # Empty
                  THEN ModeOf(c) ELSE rule.value IN
    IF chosen # Empty THEN chosen ELSE IF ModeOf(c) # Empty THEN ModeOf(c) ELSE Zero

ApplyRule(rule, row) ==
    CASE rule.op = "fill_null" /\ ~skipNulls ->
            [c \in DOMAIN row |->
               IF c \in Reach(rule, row) /\ row[c] \in Nulls THEN FillValue(rule, c) ELSE row[c]]
      [] rule.op = "rewrite" ->
            [c \in DOMAIN row |-> IF c \in Reach(rule, row) THEN Rewrite[row[c]] ELSE row[c]]
      [] OTHER -> row

Drops(rule, row) == rule.op = "drop_null" /\ \E c \in Reach(rule, row) : row[c] \in Nulls

\* One more rule, unless an earlier one dropped the row.
Pass(s, rule) ==
    IF s.drop THEN s ELSE [row |-> ApplyRule(rule, s.row), drop |-> Drops(rule, s.row)]

\* The row after each of the rules in turn.
After(row) ==
    LET done[k \in 0..Len(rules)] ==
          IF k = 0 THEN [row |-> row, drop |-> FALSE] ELSE Pass(done[k - 1], rules[k]) IN
    done

Clean(row) == After(row)[Len(rules)]

-----------------------------------------------------------------------------
(* The job                                                                 *)

\* Faulty: the count to beat is not kept.
ModesOf_Any(cells, c) ==
    LET seen == {v \in Values : \E k \in DOMAIN cells : Cell(cells[k], c) = v} IN
    IF seen = {} THEN {Empty} ELSE seen

\* The values that occur most often in a column, those missing aside; a map is
\* ranged over to find one of them, so any may be taken.
ModesOf(cells, c) ==
    LET count(v) == Cardinality({k \in DOMAIN cells : Cell(cells[k], c) = v})
        seen == {v \in Values : count(v) > 0} IN
    IF seen = {} THEN {Empty} ELSE {v \in seen : \A w \in seen : count(w) <= count(v)}

Deref(hp, recs) == [k \in DOMAIN recs |-> hp[recs[k]]]

\* Faulty: the clone shares the rows of the source.
CloneRows_Shared == [columns |-> data["src"].columns, records |-> data["src"].records]

CloneRows == [columns |-> data["src"].columns,
              records |-> [k \in DOMAIN data["src"].records |-> N + k]]

\* The clone if there is to be one, then the empty columns, then the modes.
Begin ==
    LET ds == IF createCopy THEN CloneRows ELSE data["src"]
        copied == [r \in RowIds |->
                     IF createCopy /\ r - N \in DOMAIN data["src"].records
                     THEN heap[data["src"].records[r - N]] ELSE heap[r]]
        empty == IF \E k \in DOMAIN rules : rules[k].op = "drop_empty_columns"
                 THEN {c \in ds.columns : \A k \in DOMAIN ds.records :
                          Cell(copied[ds.records[k]], c) \in Blanks}
                 ELSE {}
        stripped == [r \in RowIds |->
                       IF \E k \in DOMAIN ds.records : ds.records[k] = r
                       THEN [c \in DOMAIN copied[r] \ empty |-> copied[r][c]] ELSE copied[r]]
        filled == {c \in Columns : \E k \in DOMAIN rules :
                      rules[k].op = "fill_null" /\ rules[k].column = c} IN
    /\ pc = "idle"
    /\ data' = [data EXCEPT ![Target] = [columns |-> ds.columns \ empty, records |-> ds.records]]
    /\ heap' = stripped
    /\ modes' \in {m \in [filled -> Values \cup {Empty}] :
                     \A c \in filled : m[c] \in ModesOf(Deref(stripped, ds.records), c)}
    /\ start' = 0 /\ processed' = 0 /\ skipped' = 0
    /\ attempt' = attempt + 1
    /\ pc' = "cleaning"
    /\ UNCHANGED <<params, published>>

ChunkEnd == IF start + ChunkSize > Len(Records) THEN Len(Records) ELSE start + ChunkSize

\* A row is cleaned where it is; a reference to it is kept if it survives.
CleanRecord(s, r) ==
    LET c == Clean(s.heap[r]) IN
    [heap |-> [s.heap EXCEPT ![r] = c.row],
     kept |-> IF c.drop THEN s.kept ELSE Append(s.kept, r)]

\* The rows after each record of the chunk, and the references kept so far.
Sweep ==
    LET after[k \in start..ChunkEnd] ==
          IF k = start THEN [heap |-> heap, kept |-> <<>>]
          ELSE CleanRecord(after[k - 1], Records[k]) IN
    after

\* Faulty: the survivors are copied to the start of the records.
Chunk_ToFront ==
    LET after == Sweep[ChunkEnd] IN
    /\ pc = "cleaning" /\ start < Len(Records)
    /\ heap' = after.heap
    /\ data' = [data EXCEPT ![Target].records =
                  [k \in DOMAIN @ |-> IF k \in DOMAIN after.kept
                                      THEN after.kept[k] ELSE @[k]]]
    /\ processed' = processed + Len(after.kept)
    /\ skipped' = skipped + (ChunkEnd - start - Len(after.kept))
    /\ start' = start + ChunkSize
    /\ UNCHANGED <<params, published, pc, modes, attempt>>

\* The references to the rows that survive are copied to the start of the chunk.
Chunk ==
    LET after == Sweep[ChunkEnd] IN
    /\ pc = "cleaning" /\ start < Len(Records)
    /\ heap' = after.heap
    /\ data' = [data EXCEPT ![Target].records =
                  [k \in DOMAIN @ |-> IF k - start \in DOMAIN after.kept
                                      THEN after.kept[k - start] ELSE @[k]]]
    /\ processed' = processed + Len(after.kept)
    /\ skipped' = skipped + (ChunkEnd - start - Len(after.kept))
    /\ start' = start + ChunkSize
    /\ UNCHANGED <<params, published, pc, modes, attempt>>

\* The context is done: the chunks already cleaned stay as they are.
Cancel ==
    /\ pc = "cleaning" /\ start < Len(Records)
    /\ pc' = "failed"
    /\ UNCHANGED <<params, data, heap, published, start, processed, skipped, modes, attempt>>

\* If rows were dropped the records are cut to as many as were processed; the
\* count is looked at after a record is taken, so one stays in any case.
Finish ==
    /\ pc = "cleaning" /\ start >= Len(Records)
    /\ data' = IF skipped > 0
               THEN [data EXCEPT ![Target].records =
                       SubSeq(@, 1, IF processed > 0 THEN processed ELSE 1)]
               ELSE data
    /\ published' = createCopy
    /\ pc' = "done"
    /\ UNCHANGED <<params, heap, start, processed, skipped, modes, attempt>>

\* The worker puts a failed job back, and another run starts from the store.
Retry ==
    /\ pc = "failed" /\ attempt < MaxAttempts
    /\ pc' = "idle"
    /\ UNCHANGED <<params, data, heap, published, start, processed, skipped, modes, attempt>>

Next == Begin \/ Chunk \/ Cancel \/ Finish \/ Retry

Spec == Init /\ [][Next]_vars

-----------------------------------------------------------------------------
(* Properties                                                              *)

Size == Len(original)
Result == Deref(heap, Records)
Has(op) == \E k \in DOMAIN rules : rules[k].op = op

\* Rows as the run found them: the source's, without the columns it dropped.
Input == [k \in 1..Size |-> [c \in Work.columns |-> original[k][c]]]
Survives(row) == ~Clean(row).drop
Kept(m) == {k \in 1..m : Survives(Input[k])}

\* A first run, or one that started from the source again.
Fresh == createCopy \/ attempt = 1

\* A job that was to make a copy leaves the source as it was: its records, its
\* columns and every cell, after any number of runs (dataset/store.go:32-52).
SourceUntouched ==
    createCopy => /\ data["src"].columns = Columns
                  /\ Deref(heap, data["src"].records) = original

\* The result is what the rules make of the rows, in their order, without those
\* they drop, as long as no row is dropped before the last chunk and one is kept
\* (etl_clean.go:296-648).
CleanedUpToLastChunk ==
    LET last == ((Size - 1) \div ChunkSize) * ChunkSize IN
    /\ pc = "done" /\ Fresh /\ processed > 0
    /\ \A k \in 1..last : Survives(Input[k])
    => /\ Len(Result) = Cardinality(Kept(Size))
       /\ \A k \in Kept(Size) : Result[Cardinality(Kept(k))] = Clean(Input[k]).row

\* A column the last rule fills has no missing value left, even when the job was
\* cancelled on the way and ran again on rows half of which were filled, unless
\* the value to fill in is itself a null text (etl_clean.go:397-455).
FilledAfterRetries ==
    pc = "done" /\ ~skipNulls /\ ~Has("drop_null") /\ rules # <<>> =>
        LET rule == rules[Len(rules)] IN
        rule.op = "fill_null" /\ rule.value \in Values \cup {Empty} =>
            \A k \in DOMAIN Result : \A c \in Reach(rule, Result[k]) :
                Result[k][c] \notin Nulls

\* A run after a cancelled one takes its modes from rows of which the first
\* chunks are filled (etl_clean.go:160-205, 299).  If filling one column is all
\* there is to do, it comes to the same mode: what was missing is filled with
\* one value, whichever run filled it and however the first one broke a tie.
FilledAlike ==
    pc = "done" /\ ~skipNulls /\ Len(rules) = 1 =>
        LET rule == rules[1] IN
        rule.op = "fill_null" =>
            \A j, k \in DOMAIN Result : \A c \in Columns \cap {rule.column} :
                original[j][c] \in Nulls /\ original[k][c] \in Nulls =>
                    Result[j][c] = Result[k][c]

=============================================================================
