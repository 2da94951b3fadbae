------------------------- MODULE DeduplicateProofs -------------------------
(***************************************************************************)
(* What fuzzyDedup guarantees for any number of rows, any keys, any        *)
(* relation of similarity and any window.                                  *)
(***************************************************************************)
EXTENDS Deduplicate, FiniteSetTheorems, WellFoundedInduction, TLAPS

USE SizesAssumption DEF Rows

-----------------------------------------------------------------------------
(* The loops                                                               *)

\* Where the loops are, and that they stay within the rows.
LoopInv ==
    /\ pc \in {"start", "outer", "inner", "build", "done", "panicked"}
    /\ i \in 1..(N + 1) /\ j \in Nat
    /\ eliminated \subseteq Rows
    /\ duplicates \in Nat
    /\ groupMap \in [Rows -> SUBSET Rows]
    /\ pc = "inner" => i <= N /\ j > i
    /\ pc # "start" => indices \in [Rows -> Rows]
    /\ pc = "start" => i = 1 /\ eliminated = {} /\ duplicates = 0 /\ groupMap = NoGroups
    /\ pc \in {"build", "done", "panicked"} /\ ~cancelled => i = N + 1
    /\ cancelled => pc = "done"

LEMMA LimitBounds ==
  ASSUME i \in 1..(N + 1)
  PROVE  /\ Limit \in Int /\ Limit <= N
         /\ \A n \in Int : n > Limit /\ n < i + WindowSize => n > N
  BY DEF Limit

LEMMA RowsCardinality == IsFiniteSet(Rows) /\ Cardinality(Rows) = N
  <1>1. 1 \in Int /\ N \in Int
    OBVIOUS
  <1>2. IsFiniteSet(1..N) /\ Cardinality(1..N) = IF 1 > N THEN 0 ELSE N - 1 + 1
    BY <1>1, FS_Interval
  <1>3. QED
    BY <1>2

LEMMA SortedIsFunction ==
  ASSUME Sort
  PROVE  indices' \in [Rows -> Rows]
  BY RowsCardinality DEF Sort, SetToSeqs

\* The rows compared are rows, and so is the winner.
LEMMA Compared ==
  ASSUME LoopInv, pc = "inner", j <= Limit
  PROVE  /\ i \in Rows /\ j \in Rows
         /\ indices[i] \in Rows /\ indices[j] \in Rows
  BY LimitBounds DEF LoopInv

LEMMA FirstWins ==
  ASSUME keep = "first", NEW a, NEW b
  PROVE  PickWinner(<<a, b>>) = a
  BY DEF PickWinner

\* Whoever wins, one row of the pair is dropped and the counter goes up.
LEMMA EliminateStep ==
  ASSUME LoopInv, NEW a \in Rows, NEW b \in Rows, Eliminate(a, b)
  PROVE  /\ eliminated' \subseteq Rows /\ eliminated \subseteq eliminated'
         /\ {a, b} \cap eliminated' # {}
         /\ duplicates' = duplicates + 1
         /\ groupMap' \in [Rows -> SUBSET Rows]
  <1> DEFINE winner == PickWinner(<<a, b>>)
  <1> DEFINE loser == IF winner = a THEN b ELSE a
  <1>1. loser \in {a, b}
    OBVIOUS
  <1>2. /\ eliminated' = eliminated \cup {loser}
        /\ groupMap' = [groupMap EXCEPT ![winner] = @ \cup {loser}]
        /\ duplicates' = duplicates + 1
    BY DEF Eliminate
  <1> HIDE DEF winner, loser
  <1>3. eliminated' \subseteq Rows /\ eliminated \subseteq eliminated' /\ loser \in eliminated'
    BY <1>1, <1>2 DEF LoopInv
  <1>4. groupMap' \in [Rows -> SUBSET Rows]
    BY <1>1, <1>2 DEF LoopInv
  <1>5. QED
    BY <1>1, <1>2, <1>3, <1>4

LEMMA LoopInvInit == Init => LoopInv
  <1> SUFFICES ASSUME Init PROVE LoopInv
    OBVIOUS
  <1>1. NoGroups \in [Rows -> SUBSET Rows]
    BY DEF NoGroups
  <1>2. QED
    BY <1>1 DEF Init, LoopInv

LEMMA LoopInvNext ==
  ASSUME strategy = "fuzzy", LoopInv, [Next]_vars
  PROVE  LoopInv'
  <1> USE DEF LoopInv, input
  <1>1. CASE GiveUp
    <2>1. NoGroups \in [Rows -> SUBSET Rows]
      BY DEF NoGroups
    <2>2. QED
      BY <1>1, <2>1 DEF GiveUp
  <1>2. CASE Exact
    BY <1>2 DEF Exact
  <1>3. CASE Sort
    <2>1. NoGroups \in [Rows -> SUBSET Rows]
      BY DEF NoGroups
    <2>2. QED
      BY <1>3, <2>1, SortedIsFunction DEF Sort
  <1>4. CASE Outer
    <2>1. /\ pc = "outer" /\ i <= N
          /\ indices' = indices /\ eliminated' = eliminated
          /\ duplicates' = duplicates /\ groupMap' = groupMap /\ cancelled' = cancelled
          /\ \/ pc' = "outer" /\ i' = i + 1 /\ j' = j
             \/ pc' = "inner" /\ i' = i /\ j' = i + 1
      BY <1>4 DEF Outer
    <2>2. i' \in 1..(N + 1) /\ j' \in Nat /\ (pc' = "inner" => i' <= N /\ j' > i')
      BY <2>1
    <2>3. indices' \in [Rows -> Rows]
      BY <2>1
    <2>4. eliminated' \subseteq Rows /\ duplicates' \in Nat /\ groupMap' \in [Rows -> SUBSET Rows]
      BY <2>1
    <2>5. ~cancelled'
      BY <2>1
    <2>6. pc' \in {"outer", "inner"}
      BY <2>1
    <2>7. QED
      BY ONLY <2>2, <2>3, <2>4, <2>5, <2>6 DEF LoopInv
  <1>5. CASE Inner
    <2>1. pc = "inner" /\ j <= Limit /\ j' = j + 1
          /\ UNCHANGED <<pc, indices, i, cancelled>>
      BY <1>5 DEF Inner
    <2>2. indices[i] \in Rows /\ indices[j] \in Rows
      BY <2>1, Compared
    <2>3. /\ eliminated' \subseteq Rows
          /\ duplicates' \in Nat
          /\ groupMap' \in [Rows -> SUBSET Rows]
      <3>1. CASE Eliminate(indices[i], indices[j])
        <4>1. LoopInv
          OBVIOUS
        <4> HIDE DEF LoopInv
        <4> DEFINE a == indices[i]
        <4> DEFINE b == indices[j]
        <4>2. a \in Rows /\ b \in Rows /\ Eliminate(a, b)
          BY <2>2, <3>1
        <4> HIDE DEF a, b
        <4>3. QED
          <5>1. duplicates \in Nat
            BY <4>1 DEF LoopInv
          <5>2. /\ eliminated' \subseteq Rows
                /\ duplicates' = duplicates + 1
                /\ groupMap' \in [Rows -> SUBSET Rows]
            BY ONLY <4>1, <4>2, EliminateStep, Zenon
          <5>3. QED
            BY ONLY <5>1, <5>2
      <3>2. CASE UNCHANGED <<eliminated, duplicates, groupMap>>
        BY <3>2
      <3>3. QED
        BY <1>5, <3>1, <3>2 DEF Inner
    <2>4. QED
      BY <2>1, <2>3
  <1>6. CASE InnerEnd
    BY <1>6 DEF InnerEnd
  <1>7. CASE OuterEnd
    BY <1>7 DEF OuterEnd
  <1>8. CASE Build
    BY <1>8 DEF Build
  <1>9. CASE UNCHANGED vars
    BY <1>9 DEF vars
  <1>10. QED
    BY <1>1, <1>2, <1>3, <1>4, <1>5, <1>6, <1>7, <1>8, <1>9 DEF Next

-----------------------------------------------------------------------------
(* No similar pair is kept                                                 *)

\* A pair the loops have passed, within the window.
Passed(m, n) ==
    m < n /\ n < m + WindowSize /\ (m < i \/ (m = i /\ pc = "inner" /\ n < j))

Settled(m, n) ==
    \/ indices[m] \in eliminated
    \/ indices[n] \in eliminated
    \/ <<key[indices[m]], key[indices[n]]>> \notin Similar

SimilarInv ==
    pc # "start" /\ ~cancelled => \A m, n \in Rows : Passed(m, n) => Settled(m, n)

\* Rows that are eliminated stay so: a settled pair stays settled.
LEMMA SettledStays ==
  ASSUME NEW m, NEW n, Settled(m, n),
         indices' = indices, key' = key, eliminated \subseteq eliminated'
  PROVE  Settled(m, n)'
  BY DEF Settled

LEMMA SimilarInvNext ==
  ASSUME strategy = "fuzzy", LoopInv, SimilarInv, [Next]_vars
  PROVE  SimilarInv'
  <1> SUFFICES ASSUME pc' # "start", ~cancelled',
                      NEW m \in Rows, NEW n \in Rows, Passed(m, n)'
               PROVE  Settled(m, n)'
    BY DEF SimilarInv
  <1>1. CASE GiveUp
    BY <1>1 DEF GiveUp
  <1>2. CASE Exact
    BY <1>2 DEF Exact
  <1>3. CASE Sort
    BY <1>3 DEF Sort, LoopInv, Passed
  <1>4. CASE Outer
    <2>1. /\ pc = "outer" /\ i <= N /\ ~cancelled
          /\ indices' = indices /\ key' = key /\ eliminated' = eliminated
          /\ \/ pc' = "outer" /\ i' = i + 1 /\ indices[i] \in eliminated
             \/ pc' = "inner" /\ i' = i /\ j' = i + 1
      BY <1>4 DEF Outer, input
    <2>2. CASE Passed(m, n)
      BY <2>1, <2>2, SettledStays DEF SimilarInv
    <2>3. CASE ~Passed(m, n)
      <3>1. i \in Int /\ m \in Int /\ n \in Int
        BY DEF LoopInv
      <3>2. m < n /\ n < m + WindowSize /\ ~(m < i)
        BY <2>3 DEF Passed
      <3>3. m < i' \/ (m = i' /\ pc' = "inner" /\ n < j')
        BY DEF Passed
      <3>4. m = i /\ indices[i] \in eliminated
        BY <2>1, <3>1, <3>2, <3>3
      <3>5. QED
        BY <2>1, <3>4 DEF Settled
    <2>4. QED
      BY <2>2, <2>3
  <1>5. CASE Inner
    <2>1. /\ pc = "inner" /\ j <= Limit /\ j' = j + 1 /\ i' = i /\ pc' = "inner"
          /\ indices' = indices /\ key' = key /\ ~cancelled
      BY <1>5 DEF Inner, input
    <2>2. indices[i] \in Rows /\ indices[j] \in Rows
      BY <2>1, Compared
    <2>3. \/ Eliminate(indices[i], indices[j])
          \/ eliminated' = eliminated /\ Settled(i, j)
      BY <1>5 DEF Inner, Settled
    <2>4. CASE Eliminate(indices[i], indices[j])
      <3>1. /\ eliminated \subseteq eliminated'
            /\ {indices[i], indices[j]} \cap eliminated' # {}
        <4> DEFINE a == indices[i]
        <4> DEFINE b == indices[j]
        <4>1. a \in Rows /\ b \in Rows /\ Eliminate(a, b)
          BY <2>2, <2>4
        <4> HIDE DEF a, b
        <4>2. eliminated \subseteq eliminated' /\ {a, b} \cap eliminated' # {}
          BY <4>1, EliminateStep, Zenon
        <4>3. QED
          BY <4>2 DEF a, b
      <3>2. CASE Passed(m, n)
        BY <2>1, <3>1, <3>2, SettledStays DEF SimilarInv
      <3>3. CASE ~Passed(m, n)
        <4>1. m = i /\ n = j
          BY <2>1, <3>3 DEF Passed, LoopInv
        <4>2. QED
          BY <2>1, <3>1, <4>1 DEF Settled
      <3>4. QED
        BY <3>2, <3>3
    <2>5. CASE eliminated' = eliminated /\ Settled(i, j)
      <3>1. CASE Passed(m, n)
        BY <2>1, <2>5, <3>1, SettledStays DEF SimilarInv
      <3>2. CASE ~Passed(m, n)
        <4>1. m = i /\ n = j
          BY <2>1, <3>2 DEF Passed, LoopInv
        <4>2. QED
          BY <2>1, <2>5, <4>1, SettledStays
      <3>3. QED
        BY <3>1, <3>2
    <2>6. QED
      BY <2>3, <2>4, <2>5
  <1>6. CASE InnerEnd
    <2>1. /\ pc = "inner" /\ j > Limit /\ pc' = "outer" /\ i' = i + 1
          /\ indices' = indices /\ key' = key /\ eliminated' = eliminated /\ ~cancelled
      BY <1>6 DEF InnerEnd, input
    <2>2. Passed(m, n)
      <3>1. \A k \in Int : k > Limit /\ k < i + WindowSize => k > N
        BY LimitBounds DEF LoopInv
      <3>2. Limit \in Int
        BY LimitBounds DEF LoopInv
      <3>3. i \in Int /\ j \in Int /\ m \in Int /\ n \in Int /\ n <= N
        BY DEF LoopInv
      <3>4. m < n /\ n < m + WindowSize /\ m < i + 1
        BY <2>1 DEF Passed
      <3>5. m = i => n <= Limit
        BY <3>1, <3>2, <3>3, <3>4
      <3>6. m < i \/ (m = i /\ n < j)
        BY <2>1, <3>2, <3>3, <3>4, <3>5
      <3>7. QED
        BY <2>1, <3>4, <3>6 DEF Passed
    <2>3. QED
      BY <2>1, <2>2, SettledStays DEF SimilarInv
  <1>7. CASE OuterEnd
    <2>1. Passed(m, n) /\ indices' = indices /\ key' = key /\ eliminated' = eliminated
          /\ pc # "start" /\ ~cancelled
      BY <1>7 DEF OuterEnd, input, Passed
    <2>2. QED
      BY <2>1, SettledStays DEF SimilarInv
  <1>8. CASE Build
    <2>1. Passed(m, n) /\ indices' = indices /\ key' = key /\ eliminated' = eliminated
          /\ pc # "start" /\ ~cancelled
      BY <1>8 DEF Build, input, Passed
    <2>2. QED
      BY <2>1, SettledStays DEF SimilarInv
  <1>9. CASE UNCHANGED vars
    <2>1. Passed(m, n) /\ indices' = indices /\ key' = key /\ eliminated' = eliminated
          /\ pc # "start" /\ ~cancelled
      BY <1>9 DEF vars, input, Passed
    <2>2. QED
      BY <2>1, SettledStays DEF SimilarInv
  <1>10. QED
    BY <1>1, <1>2, <1>3, <1>4, <1>5, <1>6, <1>7, <1>8, <1>9 DEF Next

\* The loops stay within the rows, and every pair they have passed is settled.
FuzzyInv == strategy = "fuzzy" => LoopInv /\ SimilarInv

LEMMA FuzzyInvariant == Spec => []FuzzyInv
  <1>1. Init => FuzzyInv
    BY LoopInvInit DEF Init, FuzzyInv, SimilarInv
  <1>2. FuzzyInv /\ [Next]_vars => FuzzyInv'
    <2> SUFFICES ASSUME FuzzyInv, [Next]_vars, strategy' = "fuzzy"
                 PROVE  LoopInv' /\ SimilarInv'
      BY DEF FuzzyInv
    <2>1. strategy = "fuzzy"
      BY DEF Next, vars, input, GiveUp, Exact, Sort, Outer, Inner, InnerEnd, OuterEnd, Build
    <2>2. QED
      BY <2>1, LoopInvNext, SimilarInvNext DEF FuzzyInv
  <1>3. QED
    BY <1>1, <1>2, PTL DEF Spec

\* No two similar rows within the window are both kept, whatever the rows, the
\* similarity and the keep strategy: a row eliminated while it is still being
\* compared takes no later row past the comparison (289-328).
THEOREM NoSimilarRowsKept == Spec => []NoSimilarPairKept
  <1>1. FuzzyInv => NoSimilarPairKept
    <2> SUFFICES ASSUME FuzzyInv, strategy = "fuzzy", Complete,
                        NEW m \in Rows, NEW n \in Rows, m < n, n < m + WindowSize,
                        {indices[m], indices[n]} \cap eliminated = {}
                 PROVE  <<key[indices[m]], key[indices[n]]>> \notin Similar
      BY DEF NoSimilarPairKept
    <2>1. Passed(m, n)
      <3>1. i = N + 1
        BY DEF FuzzyInv, LoopInv, Complete
      <3>2. QED
        BY <3>1 DEF Passed
    <2>2. Settled(m, n)
      BY <2>1 DEF FuzzyInv, SimilarInv, Complete
    <2>3. QED
      BY <2>2 DEF Settled
  <1>2. QED
    BY <1>1, FuzzyInvariant, PTL

-----------------------------------------------------------------------------
(* With "first" the counter is right                                       *)

Reached(m) == m < i \/ (m = i /\ pc = "inner")

\* The winners named are rows the outer loop has reached and has not dropped,
\* and the counter counts the rows dropped.
FirstInv ==
    ~cancelled =>
        /\ pc # "start" => \A m, n \in Rows : m # n => indices[m] # indices[n]
        /\ pc = "inner" => indices[i] \notin eliminated
        /\ duplicates = Cardinality(eliminated)
        /\ \A w \in Rows : groupMap[w] # {} =>
              w \notin eliminated /\ \E m \in Rows : Reached(m) /\ w = indices[m]
        /\ pc # "panicked"

LEMMA FirstInvInit == Init => FirstInv
  BY FS_EmptySet DEF Init, FirstInv, NoGroups

LEMMA SortedIsInjective ==
  ASSUME Sort
  PROVE  \A m, n \in Rows : m # n => indices'[m] # indices'[n]
  BY RowsCardinality DEF Sort, SetToSeqs

\* The pair compared loses its second row, one not dropped before.
LEMMA FirstInvEliminate ==
  ASSUME LoopInv, FirstInv, keep = "first", Inner, ~cancelled,
         indices[j] \notin eliminated, Eliminate(indices[i], indices[j])
  PROVE  FirstInv'
  <1> DEFINE a == indices[i]
  <1> DEFINE b == indices[j]
  <1>1. /\ pc = "inner" /\ j <= Limit /\ pc' = "inner" /\ i' = i /\ indices' = indices
        /\ ~cancelled'
    BY DEF Inner
  <1>2. i \in Rows /\ j \in Rows /\ i # j /\ a \in Rows /\ b \in Rows
    BY <1>1, Compared DEF LoopInv
  <1>3. \A m, n \in Rows : m # n => indices[m] # indices[n]
    BY <1>1 DEF FirstInv
  <1>4. a # b /\ a \notin eliminated /\ b \notin eliminated
    BY <1>1, <1>2, <1>3 DEF FirstInv
  <1>5. /\ eliminated' = eliminated \cup {b}
        /\ groupMap' = [groupMap EXCEPT ![a] = @ \cup {b}]
        /\ duplicates' = duplicates + 1
    <2>1. PickWinner(<<a, b>>) = a
      BY FirstWins
    <2>2. QED
      BY <2>1 DEF Eliminate
  <1> HIDE DEF a, b
  <1>6. duplicates' = Cardinality(eliminated')
    <2>1. IsFiniteSet(eliminated)
      BY RowsCardinality, FS_Subset DEF LoopInv
    <2>2. Cardinality(eliminated \cup {b}) = Cardinality(eliminated) + 1
      BY <1>4, <2>1, FS_AddElement
    <2>3. duplicates = Cardinality(eliminated)
      BY DEF FirstInv
    <2>4. QED
      BY <1>5, <2>2, <2>3
  <1>7. ASSUME NEW w \in Rows, groupMap'[w] # {}
        PROVE  w \notin eliminated' /\ \E m \in Rows : Reached(m)' /\ w = indices'[m]
    <2>1. CASE w = a
      <3>1. PICK m \in Rows : m = i
        BY <1>2
      <3>2. Reached(m)' /\ w = indices'[m]
        BY <1>1, <2>1, <3>1 DEF Reached, a
      <3>3. w \notin eliminated'
        BY <1>4, <1>5, <2>1
      <3>4. QED
        BY <3>2, <3>3
    <2>2. CASE w # a
      <3>1. groupMap[w] # {}
        BY <1>2, <1>5, <1>7, <2>2 DEF LoopInv
      <3>2. w \notin eliminated
        BY <3>1 DEF FirstInv
      <3>3. PICK m \in Rows : Reached(m) /\ w = indices[m]
        BY <3>1 DEF FirstInv
      <3>4. m # j
        BY <1>1, <3>3 DEF Reached, LoopInv
      <3>5. w # b
        BY <1>2, <1>3, <3>3, <3>4 DEF b
      <3>6. Reached(m)' /\ w = indices'[m]
        BY <1>1, <3>3 DEF Reached
      <3>7. QED
        BY <1>5, <3>2, <3>5, <3>6
    <2>3. QED
      BY <2>1, <2>2
  <1>8. indices'[i'] \notin eliminated'
    BY <1>1, <1>4, <1>5 DEF a
  <1>9. QED
    BY <1>1, <1>3, <1>6, <1>7, <1>8 DEF FirstInv

LEMMA FirstInvNext ==
  ASSUME strategy = "fuzzy", keep = "first", LoopInv, FirstInv, [Next]_vars
  PROVE  FirstInv'
  <1> SUFFICES ASSUME ~cancelled'
               PROVE  FirstInv'
    BY DEF FirstInv
  <1>1. CASE GiveUp
    BY <1>1 DEF GiveUp
  <1>2. CASE Exact
    BY <1>2 DEF Exact
  <1>3. CASE Sort
    <2>1. /\ pc = "start" /\ pc' = "outer" /\ ~cancelled
          /\ eliminated' = eliminated /\ duplicates' = duplicates /\ groupMap' = groupMap
      BY <1>3 DEF Sort
    <2>2. groupMap' = NoGroups
      BY <2>1 DEF LoopInv
    <2>3. \A w \in Rows : groupMap'[w] = {}
      BY <2>2 DEF NoGroups
    <2>4. duplicates' = Cardinality(eliminated')
      BY <2>1 DEF FirstInv
    <2>5. QED
      BY <1>3, <2>1, <2>3, <2>4, SortedIsInjective DEF FirstInv
  <1>4. CASE Outer
    <2>1. /\ pc = "outer" /\ ~cancelled
          /\ indices' = indices /\ eliminated' = eliminated
          /\ duplicates' = duplicates /\ groupMap' = groupMap
          /\ \/ pc' = "outer" /\ i' = i + 1
             \/ pc' = "inner" /\ i' = i /\ indices[i] \notin eliminated
      BY <1>4 DEF Outer
    <2>2. \A m \in Rows : Reached(m) => Reached(m)'
      BY <2>1 DEF Reached, LoopInv
    <2>3. pc' = "inner" => indices'[i'] \notin eliminated'
      BY <2>1
    <2>4. QED
      BY <2>1, <2>2, <2>3 DEF FirstInv
  <1>5. CASE Inner
    <2>1. /\ pc = "inner" /\ pc' = "inner" /\ i' = i /\ indices' = indices /\ ~cancelled
      BY <1>5 DEF Inner
    <2>2. CASE indices[j] \notin eliminated /\ Eliminate(indices[i], indices[j])
      BY <1>5, <2>1, <2>2, FirstInvEliminate
    <2>3. CASE UNCHANGED <<eliminated, duplicates, groupMap>>
      BY <2>1, <2>3 DEF FirstInv, Reached
    <2>4. QED
      BY <1>5, <2>2, <2>3 DEF Inner
  <1>6. CASE InnerEnd
    <2>1. /\ pc = "inner" /\ pc' = "outer" /\ i' = i + 1 /\ indices' = indices /\ ~cancelled
          /\ eliminated' = eliminated /\ duplicates' = duplicates /\ groupMap' = groupMap
      BY <1>6 DEF InnerEnd
    <2>2. \A m \in Rows : Reached(m) => Reached(m)'
      BY <2>1 DEF Reached, LoopInv
    <2>3. QED
      BY <2>1, <2>2 DEF FirstInv
  <1>7. CASE OuterEnd
    <2>1. /\ pc = "outer" /\ pc' = "build" /\ i' = i /\ indices' = indices /\ ~cancelled
          /\ eliminated' = eliminated /\ duplicates' = duplicates /\ groupMap' = groupMap
      BY <1>7 DEF OuterEnd
    <2>2. QED
      BY <2>1 DEF FirstInv, Reached
  <1>8. CASE Build
    <2>1. /\ pc = "build" /\ i' = i /\ indices' = indices /\ ~cancelled
          /\ eliminated' = eliminated /\ duplicates' = duplicates /\ groupMap' = groupMap
      BY <1>8 DEF Build
    <2>2. duplicates <= N
      <3>1. IsFiniteSet(Rows) /\ Cardinality(Rows) = N /\ eliminated \in SUBSET Rows
        BY RowsCardinality DEF LoopInv
      <3>2. Cardinality(eliminated) <= Cardinality(Rows)
        BY <3>1, FS_Subset
      <3>3. duplicates = Cardinality(eliminated)
        BY <2>1 DEF FirstInv
      <3>4. QED
        BY <3>1, <3>2, <3>3
    <2>3. pc' = "done"
      BY <1>8, <2>2 DEF Build, LoopInv
    <2>4. QED
      BY <2>1, <2>3 DEF FirstInv, Reached
  <1>9. CASE UNCHANGED vars
    BY <1>9 DEF vars, FirstInv, Reached
  <1>10. QED
    BY <1>1, <1>2, <1>3, <1>4, <1>5, <1>6, <1>7, <1>8, <1>9 DEF Next

FirstFuzzyInv == strategy = "fuzzy" /\ keep = "first" => LoopInv /\ FirstInv

\* With "first" the counter that is reported counts the rows dropped, the rows
\* named as winners are kept, and the result is always built: for any number of
\* rows, any similarity and any window (303-349).
THEOREM FirstKeepsCount == Spec => []FirstIsExact
  <1>1. Init => FirstFuzzyInv
    BY LoopInvInit, FirstInvInit DEF FirstFuzzyInv
  <1>2. FirstFuzzyInv /\ [Next]_vars => FirstFuzzyInv'
    <2> SUFFICES ASSUME FirstFuzzyInv, [Next]_vars, strategy' = "fuzzy", keep' = "first"
                 PROVE  LoopInv' /\ FirstInv'
      BY DEF FirstFuzzyInv
    <2>1. strategy = "fuzzy" /\ keep = "first"
      BY DEF Next, vars, input, GiveUp, Exact, Sort, Outer, Inner, InnerEnd, OuterEnd, Build
    <2>2. QED
      BY <2>1, LoopInvNext, FirstInvNext DEF FirstFuzzyInv
  <1>3. FirstFuzzyInv => FirstIsExact
    BY DEF FirstFuzzyInv, FirstInv, FirstIsExact
  <1>4. QED
    BY <1>1, <1>2, <1>3, PTL DEF Spec

-----------------------------------------------------------------------------
(* From each dropped row the chain of its losses ends in a kept row        *)

OneOfEach == \A m, n \in Rows : m # n => indices[m] # indices[n]

Before(a, b) == \E m, n \in Rows : m < n /\ indices[m] = a /\ indices[n] = b

\* The strict order in which a winner stands above its loser, whatever pairs are
\* compared.
Beats(w, r) ==
    CASE keep = "last" -> Before(r, w)
      [] keep = "most_complete" ->
            filled[r] < filled[w] \/ (filled[r] = filled[w] /\ Before(w, r))
      [] OTHER -> Before(w, r)

InputInv == key \in [Rows -> Keys] /\ filled \in [Rows -> Nat]

\* A row that is dropped has lost to a similar row that stands above it.
LossInv ==
    pc # "start" /\ ~cancelled =>
        /\ OneOfEach
        /\ \A r \in eliminated : \E w \in Rows :
              r \in groupMap[w] /\ <<key[r], key[w]>> \in Similar /\ Beats(w, r)

LEMMA BeforeIsStrict ==
  ASSUME OneOfEach
  PROVE  /\ \A a : ~Before(a, a)
         /\ \A a, b, c : Before(a, b) /\ Before(b, c) => Before(a, c)
  <1>1. ASSUME NEW a, Before(a, a) PROVE FALSE
    BY <1>1 DEF Before, OneOfEach
  <1>2. ASSUME NEW a, NEW b, NEW c, Before(a, b), Before(b, c) PROVE Before(a, c)
    <2>1. PICK m, n \in Rows : m < n /\ indices[m] = a /\ indices[n] = b
      BY <1>2 DEF Before
    <2>2. PICK p, q \in Rows : p < q /\ indices[p] = b /\ indices[q] = c
      BY <1>2 DEF Before
    <2>3. n = p
      BY <2>1, <2>2 DEF OneOfEach
    <2>4. m < q
      BY <2>1, <2>2, <2>3
    <2>5. QED
      BY <2>1, <2>2, <2>4 DEF Before
  <1>3. QED
    BY <1>1, <1>2

LEMMA BeatsIsStrict ==
  ASSUME OneOfEach, InputInv
  PROVE  /\ \A a \in Rows : ~Beats(a, a)
         /\ \A a, b, c \in Rows : Beats(a, b) /\ Beats(b, c) => Beats(a, c)
  <1>1. \A a \in Rows : ~Beats(a, a)
    BY BeforeIsStrict DEF Beats, InputInv
  <1>2. ASSUME NEW a \in Rows, NEW b \in Rows, NEW c \in Rows, Beats(a, b), Beats(b, c)
        PROVE  Beats(a, c)
    <2>1. filled[a] \in Nat /\ filled[b] \in Nat /\ filled[c] \in Nat
      BY DEF InputInv
    <2>2. /\ Before(a, b) /\ Before(b, c) => Before(a, c)
          /\ Before(c, b) /\ Before(b, a) => Before(c, a)
      BY BeforeIsStrict
    <2>3. QED
      BY <1>2, <2>1, <2>2 DEF Beats
  <1>3. QED
    BY <1>1, <1>2

\* The winner of a pair stands above the loser.
LEMMA WinnerBeats ==
  ASSUME InputInv, NEW a \in Rows, NEW b \in Rows, Before(a, b), a # b
  PROVE  LET w == PickWinner(<<a, b>>)
             l == IF w = a THEN b ELSE a
         IN  {w, l} = {a, b} /\ Beats(w, l)
  <1> DEFINE rows == <<a, b>>
  <1> DEFINE best(m) == \A k \in DOMAIN rows :
                         \/ filled[rows[k]] < filled[rows[m]]
                         \/ filled[rows[k]] = filled[rows[m]] /\ m <= k
  <1>1. CASE keep = "last"
    BY <1>1 DEF PickWinner, Beats
  <1>2. CASE keep = "most_complete"
    <2>1. DOMAIN rows = {1, 2} /\ rows[1] = a /\ rows[2] = b
      OBVIOUS
    <2>2. filled[a] \in Nat /\ filled[b] \in Nat
      BY DEF InputInv
    <2>3. PickWinner(rows) = rows[CHOOSE m \in DOMAIN rows : best(m)]
      BY <1>2, Zenon DEF PickWinner
    <2>4. \E m \in DOMAIN rows : best(m)
      <3>1. CASE filled[a] < filled[b]
        <4>1. best(2)
          BY <2>1, <2>2, <3>1
        <4>2. QED
          BY <2>1, <4>1
      <3>2. CASE ~(filled[a] < filled[b])
        <4>1. best(1)
          BY <2>1, <2>2, <3>2
        <4>2. QED
          BY <2>1, <4>1
      <3>3. QED
        BY <3>1, <3>2
    <2>5. PICK m \in DOMAIN rows : best(m) /\ PickWinner(rows) = rows[m]
      <3> HIDE DEF best, rows
      <3>1. QED
        BY <2>3, <2>4
    <2>6. \/ PickWinner(rows) = a /\ filled[a] >= filled[b]
          \/ PickWinner(rows) = b /\ filled[a] < filled[b]
      BY <2>1, <2>2, <2>5
    <2>7. QED
      BY <1>2, <2>2, <2>6 DEF Beats
  <1>3. CASE keep # "last" /\ keep # "most_complete"
    BY <1>3 DEF PickWinner, Beats
  <1>4. QED
    BY <1>1, <1>2, <1>3

LEMMA LossInvEliminate ==
  ASSUME LoopInv, InputInv, LossInv, Inner, UNCHANGED input,
         Eliminate(indices[i], indices[j]), <<key[indices[i]], key[indices[j]]>> \in Similar
  PROVE  LossInv'
  <1> DEFINE a == indices[i]
  <1> DEFINE b == indices[j]
  <1> DEFINE w == PickWinner(<<a, b>>)
  <1> DEFINE l == IF w = a THEN b ELSE a
  <1>1. /\ pc = "inner" /\ j <= Limit /\ pc' = "inner" /\ indices' = indices /\ ~cancelled
        /\ keep' = keep /\ key' = key /\ filled' = filled
    BY DEF Inner, input, LoopInv
  <1>2. i \in Rows /\ j \in Rows /\ i < j /\ a \in Rows /\ b \in Rows
    BY <1>1, Compared DEF LoopInv
  <1>3. OneOfEach
    BY <1>1 DEF LossInv
  <1>4. Before(a, b) /\ a # b
    BY <1>2, <1>3 DEF Before, OneOfEach
  <1>5. {w, l} = {a, b} /\ Beats(w, l)
    BY <1>2, <1>4, WinnerBeats
  <1>6. /\ eliminated' = eliminated \cup {l}
        /\ groupMap' = [groupMap EXCEPT ![w] = @ \cup {l}]
    BY DEF Eliminate
  <1>7. <<key[a], key[b]>> \in Similar
    OBVIOUS
  <1>8. \A p, q : Beats(p, q) => Beats(p, q)'
    <2>1. \A p, q : Before(p, q) => Before(p, q)'
      BY <1>1 DEF Before
    <2>2. QED
      BY <1>1, <2>1 DEF Beats
  <1> HIDE DEF a, b, w, l
  <1>9. <<key[l], key[w]>> \in Similar
    <2>1. key[a] \in Keys /\ key[b] \in Keys
      BY <1>2 DEF InputInv
    <2>2. \/ w = a /\ l = b
          \/ w = b /\ l = a
      BY <1>5
    <2>3. QED
      BY <1>7, <2>1, <2>2, KeysAssumption
  <1>10. ASSUME NEW r \in eliminated'
         PROVE  \E v \in Rows :
                   r \in groupMap'[v] /\ <<key[r], key[v]>> \in Similar /\ Beats(v, r)'
    <2>1. groupMap \in [Rows -> SUBSET Rows] /\ w \in Rows
      BY <1>2, <1>5 DEF LoopInv
    <2>2. CASE r = l
      <3>1. r \in groupMap'[w]
        BY <1>6, <2>1, <2>2
      <3>2. QED
        BY <1>5, <1>8, <1>9, <2>1, <2>2, <3>1
    <2>3. CASE r \in eliminated
      <3>1. PICK v \in Rows :
               r \in groupMap[v] /\ <<key[r], key[v]>> \in Similar /\ Beats(v, r)
        BY <1>1, <2>3 DEF LossInv
      <3>2. r \in groupMap'[v]
        BY <1>6, <2>1, <3>1
      <3>3. QED
        BY <1>8, <3>1, <3>2
    <2>4. QED
      BY <1>6, <2>2, <2>3
  <1>11. OneOfEach'
    BY <1>1, <1>3 DEF OneOfEach
  <1>12. QED
    BY <1>1, <1>10, <1>11 DEF LossInv

LEMMA LossInvNext ==
  ASSUME strategy = "fuzzy", LoopInv, InputInv, LossInv, [Next]_vars
  PROVE  InputInv' /\ LossInv'
  <1>1. UNCHANGED input
    BY DEF Next, vars, input, GiveUp, Exact, Sort, Outer, Inner, InnerEnd, OuterEnd, Build
  <1>2. InputInv'
    BY <1>1 DEF InputInv, input
  <1> SUFFICES LossInv'
    BY <1>2
  <1>3. ASSUME UNCHANGED <<indices, eliminated, groupMap>>, pc # "start", ~cancelled' => ~cancelled
        PROVE  LossInv'
    <2>1. \A p, q : Beats(p, q) => Beats(p, q)'
      <3>1. \A p, q : Before(p, q) => Before(p, q)'
        BY <1>3 DEF Before
      <3>2. QED
        BY <1>1, <3>1 DEF Beats, input
    <2>2. OneOfEach => OneOfEach'
      BY <1>3 DEF OneOfEach
    <2>3. key' = key
      BY <1>1 DEF input
    <2>4. QED
      BY <1>3, <2>1, <2>2, <2>3 DEF LossInv
  <1>4. CASE GiveUp
    BY <1>4 DEF GiveUp, LossInv
  <1>5. CASE Exact
    BY <1>5 DEF Exact
  <1>6. CASE Sort
    <2>1. OneOfEach'
      BY <1>6, SortedIsInjective DEF OneOfEach
    <2>2. eliminated' = {}
      BY <1>6 DEF Sort, LoopInv
    <2>3. QED
      BY <2>1, <2>2 DEF LossInv
  <1>7. CASE Inner
    <2>1. CASE /\ Eliminate(indices[i], indices[j])
               /\ <<key[indices[i]], key[indices[j]]>> \in Similar
      BY <1>1, <1>7, <2>1, LossInvEliminate
    <2>2. CASE UNCHANGED <<eliminated, duplicates, groupMap>>
      BY <1>3, <1>7, <2>2 DEF Inner
    <2>3. QED
      BY <1>7, <2>1, <2>2 DEF Inner
  <1>8. CASE Outer \/ InnerEnd \/ OuterEnd \/ Build
    BY <1>3, <1>8 DEF Outer, InnerEnd, OuterEnd, Build
  <1>9. CASE UNCHANGED vars
    <2>1. CASE pc = "start"
      BY <1>9, <2>1 DEF vars, LossInv
    <2>2. CASE pc # "start"
      BY <1>3, <1>9, <2>2 DEF vars
    <2>3. QED
      BY <2>1, <2>2
  <1>10. QED
    BY <1>4, <1>5, <1>6, <1>7, <1>8, <1>9 DEF Next

\* A set of numbers that is not empty has a least one.
LEMMA LeastExists ==
  ASSUME NEW S \in SUBSET Nat, S # {}
  PROVE  \E n \in S : \A m \in S : n <= m
  <1>1. PICK n \in S : \A m \in S : <<m, n>> \notin OpToRel(<, Nat)
    BY NatLessThanWellFounded, WFMin, Zenon
  <1>2. \A m \in S : ~(m < n)
    BY <1>1 DEF OpToRel
  <1>3. QED
    BY <1>2

\* The rows that a step adds to those in X.
Won(X) == {r \in Rows : \E w \in LostTo(r) \cap X : <<key[r], key[w]>> \in Similar}

ReachUpTo(k, f) ==
    f = [n \in 0..k |-> IF n = 0 THEN Rows \ eliminated ELSE f[n - 1] \cup Won(f[n - 1])]

\* The recursion of Reach has a solution: were there numbers up to which there is
\* none, the least of them would follow one up to which there is.
LEMMA ReachExists == \E f : ReachUpTo(N, f)
  <1> DEFINE Bad == {k \in Nat : ~\E f : ReachUpTo(k, f)}
  <1> SUFFICES ASSUME Bad # {} PROVE FALSE
    OBVIOUS
  <1>1. PICK k \in Bad : \A m \in Bad : k <= m
    BY LeastExists
  <1>2. CASE k = 0
    <2> DEFINE f == [n \in 0..0 |-> Rows \ eliminated]
    <2>1. ReachUpTo(0, f)
      BY DEF ReachUpTo
    <2>2. QED
      BY <1>1, <1>2, <2>1
  <1>3. CASE k # 0
    <2>1. k - 1 \in Nat /\ k \in Nat /\ k - 1 \notin Bad
      BY <1>1, <1>3
    <2>2. PICK f : ReachUpTo(k - 1, f)
      BY <2>1
    <2> DEFINE g == [n \in 0..k |-> IF n = k THEN f[k - 1] \cup Won(f[k - 1]) ELSE f[n]]
    <2>3. \A n \in 0..(k - 1) :
             f[n] = IF n = 0 THEN Rows \ eliminated ELSE f[n - 1] \cup Won(f[n - 1])
      BY <2>2, Zenon DEF ReachUpTo
    <2> DEFINE h == [n \in 0..k |-> IF n = 0 THEN Rows \ eliminated
                                    ELSE g[n - 1] \cup Won(g[n - 1])]
    <2>4. ASSUME NEW n \in 0..k PROVE g[n] = h[n]
      <3>1. CASE n = k
        <4>1. g[n - 1] = f[k - 1]
          BY <2>1, <3>1
        <4>2. g[n] = f[k - 1] \cup Won(f[k - 1])
          BY <3>1
        <4>3. h[n] = g[n - 1] \cup Won(g[n - 1])
          BY <1>3, <3>1
        <4> HIDE DEF g, h
        <4>4. QED
          BY <4>1, <4>2, <4>3, Zenon
      <3>2. CASE n # k /\ n # 0
        <4>1. n \in 0..(k - 1) /\ n - 1 \in 0..k /\ n - 1 # k
          BY <2>1, <3>2
        <4>2. g[n - 1] = f[n - 1] /\ g[n] = f[n]
          BY <3>2, <4>1
        <4>3. f[n] = f[n - 1] \cup Won(f[n - 1])
          BY <2>3, <3>2, <4>1
        <4>4. h[n] = g[n - 1] \cup Won(g[n - 1])
          BY <3>2
        <4> HIDE DEF g, h
        <4>5. QED
          BY <4>2, <4>3, <4>4, Zenon
      <3>3. CASE n # k /\ n = 0
        <4>1. 0 \in 0..(k - 1)
          BY <2>1
        <4>2. f[0] = Rows \ eliminated
          BY <2>3, <4>1
        <4>3. QED
          BY <3>3, <4>2
      <3>4. QED
        BY <3>1, <3>2, <3>3
    <2>5. g = h
      <3>1. g = [n \in 0..k |-> g[n]] /\ h = [n \in 0..k |-> h[n]]
        OBVIOUS
      <3> HIDE DEF g, h
      <3>2. QED
        BY <2>4, <3>1, Zenon
    <2>6. ReachUpTo(k, g)
      <3>1. g = [n \in 0..k |-> IF n = 0 THEN Rows \ eliminated ELSE g[n - 1] \cup Won(g[n - 1])]
        <4> HIDE DEF g
        <4>1. QED
          BY <2>5, Zenon
      <3> HIDE DEF g
      <3>2. QED
        BY <3>1, Zenon DEF ReachUpTo
    <2>7. QED
      BY <1>1, <2>6
  <1>4. QED
    BY <1>2, <1>3

\* Hence Reach is what its definition says.
LEMMA ReachUnfolds ==
  /\ Reach[0] = Rows \ eliminated
  /\ \A n \in 1..N : Reach[n] = Reach[n - 1] \cup Won(Reach[n - 1])
  <1>1. ReachUpTo(N, Reach)
    <2>1. Reach = CHOOSE f : ReachUpTo(N, f)
      BY Zenon DEF Reach, ReachUpTo, Won
    <2>2. QED
      BY <2>1, ReachExists, Zenon
  <1>2. Reach = [n \in 0..N |-> IF n = 0 THEN Rows \ eliminated
                                ELSE Reach[n - 1] \cup Won(Reach[n - 1])]
    BY <1>1, Zenon DEF ReachUpTo
  <1> HIDE DEF Reach
  <1>3. \A n \in 0..N : Reach[n] = IF n = 0 THEN Rows \ eliminated
                                   ELSE Reach[n - 1] \cup Won(Reach[n - 1])
    BY <1>2, Zenon
  <1>4. 0 \in 0..N /\ \A n \in 1..N : n \in 0..N /\ n # 0
    OBVIOUS
  <1>5. QED
    BY <1>3, <1>4, Zenon

\* How many rows stand above r.
Above(r) == {q \in Rows : Beats(q, r)}
Height(r) == Cardinality(Above(r))

LEMMA HeightBounds ==
  ASSUME NEW r \in Rows
  PROVE  Height(r) \in Nat /\ Height(r) <= N
  <1>1. Above(r) \in SUBSET Rows
    BY DEF Above
  <1>2. IsFiniteSet(Above(r)) /\ Cardinality(Above(r)) <= Cardinality(Rows)
    BY <1>1, RowsCardinality, FS_Subset
  <1>3. QED
    BY <1>2, RowsCardinality, FS_CardinalityType DEF Height

\* A winner has fewer rows above it than its loser.
LEMMA WinnerIsHigher ==
  ASSUME OneOfEach, InputInv, NEW w \in Rows, NEW r \in Rows, Beats(w, r)
  PROVE  Height(w) < Height(r)
  <1>1. Above(w) \in SUBSET Above(r) /\ w \in Above(r) /\ w \notin Above(w)
    BY BeatsIsStrict DEF Above
  <1>2. IsFiniteSet(Above(r))
    BY RowsCardinality, FS_Subset DEF Above
  <1>3. /\ Cardinality(Above(w)) <= Cardinality(Above(r))
        /\ Cardinality(Above(w)) # Cardinality(Above(r))
    BY <1>1, <1>2, FS_Subset
  <1>4. QED
    BY <1>3, HeightBounds DEF Height

\* The rows that are kept and those with at most k rows above them.
LEMMA HighRowsReached ==
  ASSUME LoopInv, InputInv, LossInv, pc # "start", ~cancelled, NEW k \in 0..N
  PROVE  {r \in Rows : r \notin eliminated \/ Height(r) <= k} \subseteq Reach[k]
  <1> DEFINE High(n) == {r \in Rows : r \notin eliminated \/ Height(r) <= n}
  <1> DEFINE Bad == {n \in 0..N : ~(High(n) \subseteq Reach[n])}
  <1> SUFFICES ASSUME Bad # {} PROVE FALSE
    OBVIOUS
  <1>1. PICK n \in Bad : \A m \in Bad : n <= m
    <2>1. Bad \in SUBSET Nat
      OBVIOUS
    <2> HIDE DEF Bad
    <2>2. QED
      BY <2>1, LeastExists
  <1>2. PICK r \in High(n) : r \notin Reach[n]
    BY <1>1
  <1>3. ASSUME r \in eliminated
        PROVE  \E w \in Rows : /\ r \in groupMap[w] /\ <<key[r], key[w]>> \in Similar
                               /\ Height(w) < Height(r)
    BY <1>2, <1>3, WinnerIsHigher DEF LossInv
  <1>4. CASE n = 0
    <2>1. r \in eliminated
      BY <1>2, <1>4, ReachUnfolds
    <2>2. Height(r) <= 0
      BY <1>2, <1>4, <2>1
    <2>3. PICK w \in Rows : Height(w) < Height(r)
      BY <1>3, <2>1
    <2>4. Height(w) \in Nat /\ Height(r) \in Nat
      BY <1>2, HeightBounds
    <2>5. QED
      BY <2>2, <2>3, <2>4
  <1>5. CASE n # 0
    <2>1. n \in 1..N /\ n - 1 \in 0..N /\ n - 1 \notin Bad
      BY <1>1, <1>5
    <2>2. High(n - 1) \subseteq Reach[n - 1]
      BY <2>1
    <2>3. Reach[n] = Reach[n - 1] \cup Won(Reach[n - 1])
      BY <2>1, ReachUnfolds
    <2>4. r \in eliminated
      BY <1>2, <2>2, <2>3
    <2>5. PICK w \in Rows : /\ r \in groupMap[w] /\ <<key[r], key[w]>> \in Similar
                            /\ Height(w) < Height(r)
      BY <1>3, <2>4
    <2>6. Height(r) <= n
      BY <1>2, <2>4
    <2>7. Height(w) <= n - 1
      BY <1>2, <2>1, <2>5, <2>6, HeightBounds
    <2>8. w \in Reach[n - 1]
      BY <2>2, <2>7
    <2>9. r \in Won(Reach[n - 1])
      BY <1>2, <2>5, <2>8 DEF Won, LostTo
    <2>10. QED
      BY <1>2, <2>3, <2>9
  <1>6. QED
    BY <1>4, <1>5

ChainInv == strategy = "fuzzy" => LoopInv /\ InputInv /\ LossInv

\* No data disappears with the duplicates: whatever the rows, the similarity, the
\* window and the keep strategy, the losses of a row that is dropped lead, from
\* similar row to similar row, to a row that is kept. They never run in a circle,
\* although a row may be dropped after others have lost to it (303-328).
THEOREM DroppedRowsAreRepresented == Spec => []Represented
  <1>1. Init => ChainInv
    BY LoopInvInit, KeysAssumption DEF ChainInv, Init, InputInv, LossInv
  <1>2. ChainInv /\ [Next]_vars => ChainInv'
    <2> SUFFICES ASSUME ChainInv, [Next]_vars, strategy' = "fuzzy"
                 PROVE  LoopInv' /\ InputInv' /\ LossInv'
      BY DEF ChainInv
    <2>1. strategy = "fuzzy"
      BY DEF Next, vars, input, GiveUp, Exact, Sort, Outer, Inner, InnerEnd, OuterEnd, Build
    <2>2. QED
      BY <2>1, LoopInvNext, LossInvNext DEF ChainInv
  <1>3. ChainInv => Represented
    <2> SUFFICES ASSUME ChainInv, strategy = "fuzzy", Complete \/ pc = "panicked"
                 PROVE  Rows \subseteq Reach[N]
      BY DEF Represented
    <2>1. LoopInv /\ InputInv /\ LossInv /\ pc # "start" /\ ~cancelled
      BY DEF ChainInv, LoopInv, Complete
    <2>2. \A r \in Rows : Height(r) <= N
      BY HeightBounds
    <2>3. {r \in Rows : r \notin eliminated \/ Height(r) <= N} \subseteq Reach[N]
      <3>1. N \in 0..N
        OBVIOUS
      <3>2. QED
        BY <2>1, <3>1, HighRowsReached
    <2>4. QED
      BY <2>2, <2>3
  <1>4. QED
    BY <1>1, <1>2, <1>3, PTL DEF Spec
=============================================================================
