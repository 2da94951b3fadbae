---------------------------- MODULE Deduplicate ----------------------------
(***************************************************************************)
(* The deduplication executor, internal/executor/etl_deduplicate.go: which *)
(* rows exactDedup and fuzzyDedup keep and what they report.               *)
(*                                                                         *)
(* A row is its position, its match key and the number of its cells that   *)
(* are filled.  Keys are numbers, in the order of the strings they stand   *)
(* for; which keys are similar enough is a constant relation, reflexive    *)
(* and symmetric as a Levenshtein similarity is, and not transitive.       *)
(***************************************************************************)
EXTENDS Integers, FiniteSets, Sequences, SequencesExt

CONSTANTS
    N,          \* number of rows
    Keys,       \* match keys
    Similar,    \* pairs of keys whose similarity reaches the threshold
    MaxFilled,  \* bound: how many cells a row may have filled
    WindowSize  \* how far apart two rows may be compared (50 in the code)

ASSUME SizesAssumption == N \in Nat /\ MaxFilled \in Nat /\ WindowSize \in Nat \ {0}
ASSUME KeysAssumption ==
    /\ Keys \subseteq Nat
    /\ Similar \subseteq Keys \X Keys
    /\ \A a \in Keys : <<a, a>> \in Similar
    /\ \A a, b \in Keys : <<a, b>> \in Similar => <<b, a>> \in Similar

VARIABLES
    strategy,    \* "exact" or "fuzzy"
    keep,        \* KeepStrategy
    key,         \* buildMatchKey of each row
    filled,      \* countNonEmpty of each row
    pc,          \* "start", "outer", "inner", "build", "done", "panicked"
    indices,     \* the rows in the order of their keys
    i, j,        \* the loop counters, from 1
    eliminated,  \* the rows found to be duplicates
    duplicates,  \* the counter that is reported
    groupMap,    \* winner -> the rows dropped in its favour
    kept,        \* the rows that stay
    dupes,       \* dupeIndices
    cancelled    \* the context was done and the scan was given up

input == <<strategy, keep, key, filled>>
vars == <<input, pc, indices, i, j, eliminated, duplicates, groupMap, kept, dupes,
          cancelled>>

Rows == 1..N
NoGroups == [r \in Rows |-> {}]
Ascending(rows) == SetToSortSeq(rows, <)

TypeOK ==
    /\ strategy \in {"exact", "fuzzy"} /\ keep \in {"first", "last", "most_complete"}
    /\ key \in [Rows -> Keys] /\ filled \in [Rows -> 0..MaxFilled]
    /\ pc \in {"start", "outer", "inner", "build", "done", "panicked"}
    /\ indices = <<>> \/ (Len(indices) = N /\ ToSet(indices) = Rows)
    /\ i \in 1..(N + 1) /\ j \in 1..(N + 1)
    /\ eliminated \subseteq Rows
    /\ duplicates \in Nat
    /\ groupMap \in [Rows -> SUBSET Rows]
    /\ kept \in Seq(Rows) /\ dupes \in Seq(Rows)
    /\ cancelled \in BOOLEAN

Init ==
    /\ strategy \in {"exact", "fuzzy"} /\ keep \in {"first", "last", "most_complete"}
    /\ key \in [Rows -> Keys] /\ filled \in [Rows -> 0..MaxFilled]
    /\ pc = "start"
    /\ indices = <<>> /\ i = 1 /\ j = 1
    /\ eliminated = {} /\ duplicates = 0 /\ groupMap = NoGroups
    /\ kept = <<>> /\ dupes = <<>>
    /\ cancelled = FALSE

\* pickWinner: of equally complete rows the first in the list.
PickWinner(rows) ==
    CASE keep = "last" -> rows[Len(rows)]
      [] keep = "most_complete" ->
            rows[CHOOSE m \in DOMAIN rows : \A k \in DOMAIN rows :
                    \/ filled[rows[k]] < filled[rows[m]]
                    \/ filled[rows[k]] = filled[rows[m]] /\ m <= k]
      [] OTHER -> rows[1]

\* The context is done: every row is kept, and the caller is told no error.
GiveUp ==
    /\ N > 0
    /\ IF strategy = "exact" THEN pc = "start" ELSE pc = "outer" /\ i <= N
    /\ pc' = "done"
    /\ kept' = Ascending(Rows)
    /\ groupMap' = NoGroups
    /\ cancelled' = TRUE
    /\ UNCHANGED <<input, indices, i, j, eliminated, duplicates, dupes>>

-----------------------------------------------------------------------------
(* exactDedup: the groups of rows with one key, in the order in which the  *)
(* keys first appear                                                       *)

Group(k) == Ascending({r \in Rows : key[r] = k})
Leaders == {r \in Rows : \A q \in 1..(r - 1) : key[q] # key[r]}

Exact ==
    LET order == Ascending(Leaders)
        winner(r) == PickWinner(Group(key[r]))
        losers(r) == ToSet(Group(key[r])) \ {winner(r)} IN
    /\ strategy = "exact" /\ pc = "start"
    /\ kept' = [m \in DOMAIN order |-> winner(order[m])]
    /\ dupes' = Ascending(UNION {losers(r) : r \in Leaders})
    /\ duplicates' = N - Len(order)
    /\ groupMap' = [w \in Rows |-> UNION {losers(r) : r \in {q \in Leaders : winner(q) = w}}]
    /\ pc' = "done"
    /\ UNCHANGED <<input, indices, i, j, eliminated, cancelled>>

-----------------------------------------------------------------------------
(* fuzzyDedup: each row not yet eliminated against those that follow it    *)

\* The sort is not stable: rows of one key come in any order.
Sort ==
    /\ strategy = "fuzzy" /\ pc = "start"
    /\ indices' \in {s \in SetToSeqs(Rows) :
                        \A m, n \in DOMAIN s : m < n => key[s[m]] <= key[s[n]]}
    /\ pc' = "outer"
    /\ UNCHANGED <<input, i, j, eliminated, duplicates, groupMap, kept, dupes, cancelled>>

Outer ==
    /\ pc = "outer" /\ i <= N
    /\ IF indices[i] \in eliminated
       THEN i' = i + 1 /\ UNCHANGED <<pc, j>>
       ELSE pc' = "inner" /\ j' = i + 1 /\ UNCHANGED i
    /\ UNCHANGED <<input, indices, eliminated, duplicates, groupMap, kept, dupes, cancelled>>

Limit == IF i + WindowSize - 1 > N THEN N ELSE i + WindowSize - 1

\* The loser of the pair is eliminated; when that is the row of the outer loop,
\* the loop goes on comparing it all the same.
Eliminate(idx, jdx) ==
    LET winner == PickWinner(<<idx, jdx>>)
        loser == IF winner = idx THEN jdx ELSE idx IN
    /\ eliminated' = eliminated \cup {loser}
    /\ duplicates' = duplicates + 1
    /\ groupMap' = [groupMap EXCEPT ![winner] = @ \cup {loser}]

\* Faulty: a row already eliminated is compared again.
Inner_NoSkip ==
    LET idx == indices[i]
        jdx == indices[j] IN
    /\ pc = "inner" /\ j <= Limit
    /\ j' = j + 1
    /\ IF <<key[idx], key[jdx]>> \in Similar
       THEN Eliminate(idx, jdx)
       ELSE UNCHANGED <<eliminated, duplicates, groupMap>>
    /\ UNCHANGED <<input, pc, indices, i, kept, dupes, cancelled>>

\* Faulty: only equal keys match.
Inner_EqualOnly ==
    LET idx == indices[i]
        jdx == indices[j] IN
    /\ pc = "inner" /\ j <= Limit
    /\ j' = j + 1
    /\ IF jdx \notin eliminated /\ key[idx] = key[jdx]
       THEN Eliminate(idx, jdx)
       ELSE UNCHANGED <<eliminated, duplicates, groupMap>>
    /\ UNCHANGED <<input, pc, indices, i, kept, dupes, cancelled>>

\* Faulty: both rows of a pair are dropped.
Inner_BothLose ==
    LET idx == indices[i]
        jdx == indices[j] IN
    /\ pc = "inner" /\ j <= Limit
    /\ j' = j + 1
    /\ IF jdx \notin eliminated /\ <<key[idx], key[jdx]>> \in Similar
       THEN /\ eliminated' = eliminated \cup {idx, jdx}
            /\ duplicates' = duplicates + 1
            /\ groupMap' = [groupMap EXCEPT ![idx] = @ \cup {jdx}]
       ELSE UNCHANGED <<eliminated, duplicates, groupMap>>
    /\ UNCHANGED <<input, pc, indices, i, kept, dupes, cancelled>>

Inner ==
    LET idx == indices[i]
        jdx == indices[j] IN
    /\ pc = "inner" /\ j <= Limit
    /\ j' = j + 1
    /\ IF jdx \notin eliminated /\ <<key[idx], key[jdx]>> \in Similar
       THEN Eliminate(idx, jdx)
       ELSE UNCHANGED <<eliminated, duplicates, groupMap>>
    /\ UNCHANGED <<input, pc, indices, i, kept, dupes, cancelled>>

InnerEnd ==
    /\ pc = "inner" /\ j > Limit
    /\ pc' = "outer" /\ i' = i + 1
    /\ UNCHANGED <<input, indices, j, eliminated, duplicates, groupMap, kept, dupes, cancelled>>

OuterEnd ==
    /\ pc = "outer" /\ i > N
    /\ pc' = "build"
    /\ UNCHANGED <<input, indices, i, j, eliminated, duplicates, groupMap, kept, dupes, cancelled>>

\* The result is built in a slice made with room for N - duplicates rows; make
\* panics when that is negative, and no worker recovers.
Build ==
    /\ pc = "build"
    /\ IF N - duplicates < 0
       THEN pc' = "panicked" /\ UNCHANGED <<kept, dupes>>
       ELSE /\ pc' = "done"
            /\ kept' = Ascending(Rows \ eliminated)
            /\ dupes' = Ascending(eliminated)
    /\ UNCHANGED <<input, indices, i, j, eliminated, duplicates, groupMap, cancelled>>

Next == GiveUp \/ Exact \/ Sort \/ Outer \/ Inner \/ InnerEnd \/ OuterEnd \/ Build

Spec == Init /\ [][Next]_vars

-----------------------------------------------------------------------------
(* Properties                                                              *)

Complete == pc = "done" /\ ~cancelled

\* No two similar rows are both kept, as far as the window reaches, although
\* rows are eliminated while they are being compared (289-328).
NoSimilarPairKept ==
    strategy = "fuzzy" /\ Complete =>
        \A m, n \in Rows :
            m < n /\ n < m + WindowSize
            /\ {indices[m], indices[n]} \cap eliminated = {} =>
                <<key[indices[m]], key[indices[n]]>> \notin Similar

\* The rows from which a row that is kept is at most n losses away, each loss to a
\* similar row.
LostTo(r) == {w \in Rows : r \in groupMap[w]}
Reach[n \in 0..N] ==
    IF n = 0 THEN Rows \ eliminated
    ELSE Reach[n - 1] \cup
         {r \in Rows : \E w \in LostTo(r) \cap Reach[n - 1] : <<key[r], key[w]>> \in Similar}

\* No data disappears with the duplicates: from each dropped row a chain of rows
\* it lost to, each similar to the one before, ends in a row that is kept, even
\* though winners may be dropped themselves (303-328).
Represented ==
    strategy = "fuzzy" /\ (Complete \/ pc = "panicked") => Rows \subseteq Reach[N]

\* With "first" the counter is right, the winners named in the report are rows
\* that are kept, and the result can be built (303-349).
FirstIsExact ==
    strategy = "fuzzy" /\ keep = "first" /\ ~cancelled =>
        /\ duplicates = Cardinality(eliminated)
        /\ \A w \in Rows : groupMap[w] # {} => w \notin eliminated
        /\ pc # "panicked"

=============================================================================
