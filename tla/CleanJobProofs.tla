-------------------------- MODULE CleanJobProofs --------------------------
(***************************************************************************)
(* What CleanJob guarantees for any rows, rules, size of a chunk and       *)
(* number of attempts.                                                     *)
(***************************************************************************)
EXTENDS CleanJob, FiniteSetTheorems, WellFoundedInduction, TLAPS

-----------------------------------------------------------------------------
(* The recursions over rules and records                                   *)

LEMMA LeastExists ==
  ASSUME NEW S \in SUBSET Nat, S # {}
  PROVE  \E n \in S : \A m \in S : n <= m
  <1>1. PICK n \in S : \A m \in S : <<m, n>> \notin OpToRel(<, Nat)
    BY NatLessThanWellFounded, WFMin, Zenon
  <1>2. \A m \in S : ~(m < n)
    BY <1>1 DEF OpToRel
  <1>3. QED
    BY <1>2

AfterUpTo(row, k, f) ==
    f = [n \in 0..k |-> IF n = 0 THEN [row |-> row, drop |-> FALSE] ELSE Pass(f[n - 1], rules[n])]

\* The recursion of After has a solution, for any number of rules: the least number
\* for which it had none would follow one for which it has.
LEMMA AfterExists ==
  ASSUME NEW row
  PROVE  \A k \in Nat : 0 <= k => \E f : AfterUpTo(row, k, f)
  <1> DEFINE Bad == {k \in Nat : 0 <= k /\ ~\E f : AfterUpTo(row, k, f)}
  <1> SUFFICES ASSUME Bad # {} PROVE FALSE
    OBVIOUS
  <1>0. PICK k \in Bad : \A m \in Bad : k <= m
    BY LeastExists
  <1>1. k \in Nat /\ 0 <= k /\ ~\E f : AfterUpTo(row, k, f)
    OBVIOUS
  <1>2. CASE k = 0
    <2> DEFINE f == [n \in 0..0 |-> [row |-> row, drop |-> FALSE]]
    <2>1. \A n \in 0..0 : n = 0
      BY <1>1
    <2>2. f = [n \in 0..0 |-> IF n = 0 THEN [row |-> row, drop |-> FALSE] ELSE Pass(f[n - 1], rules[n])]
      BY <2>1, Zenon
    <2>3. AfterUpTo(row, 0, f)
      <3> HIDE DEF f
      <3>1. QED
        BY <2>2, Zenon DEF AfterUpTo
    <2>4. QED
      BY <1>1, <1>2, <2>3
  <1>3. CASE k # 0
    <2>1. k - 1 \in Nat /\ 0 <= k - 1 /\ k - 1 \notin Bad
      BY <1>0, <1>1, <1>3
    <2>2. PICK f : AfterUpTo(row, k - 1, f)
      BY <2>1
    <2> DEFINE g == [n \in 0..k |-> IF n = k THEN Pass(f[k - 1], rules[k]) ELSE f[n]]
    <2> DEFINE h == [n \in 0..k |-> IF n = 0 THEN [row |-> row, drop |-> FALSE] ELSE Pass(g[n - 1], rules[n])]
    <2>3. \A n \in 0..(k - 1) : f[n] = IF n = 0 THEN [row |-> row, drop |-> FALSE] ELSE Pass(f[n - 1], rules[n])
      BY <2>2, Zenon DEF AfterUpTo
    <2>4. ASSUME NEW n \in 0..k PROVE g[n] = h[n]
      <3>1. CASE n = k
        <4>1. n - 1 \in 0..k /\ n - 1 # k
          BY <1>1, <2>1, <3>1
        <4>2. g[n - 1] = f[k - 1]
          BY <3>1, <4>1
        <4>3. g[n] = Pass(f[k - 1], rules[k])
          BY <3>1
        <4>4. h[n] = Pass(g[n - 1], rules[n])
          BY <1>3, <3>1
        <4> HIDE DEF g, h
        <4>5. QED
          BY <3>1, <4>2, <4>3, <4>4, Zenon
      <3>2. CASE n # k /\ n # 0
        <4>1. n \in 0..(k - 1) /\ n - 1 \in 0..k /\ n - 1 # k
          BY <1>1, <2>1, <3>2
        <4>2. g[n - 1] = f[n - 1] /\ g[n] = f[n]
          BY <3>2, <4>1
        <4>3. f[n] = Pass(f[n - 1], rules[n])
          BY <2>3, <3>2, <4>1
        <4>4. h[n] = Pass(g[n - 1], rules[n])
          BY <3>2
        <4> HIDE DEF g, h
        <4>5. QED
          BY <4>2, <4>3, <4>4, Zenon
      <3>3. CASE n # k /\ n = 0
        <4>1. 0 \in 0..(k - 1)
          BY <1>1, <2>1
        <4>2. f[0] = [row |-> row, drop |-> FALSE]
          BY <2>3, <4>1
        <4>3. g[n] = f[n] /\ h[n] = [row |-> row, drop |-> FALSE]
          BY <3>3
        <4> HIDE DEF g, h
        <4>4. QED
          BY <3>3, <4>2, <4>3, Zenon
      <3>4. QED
        BY <3>1, <3>2, <3>3
    <2>5. g = h
      <3>1. g = [n \in 0..k |-> g[n]] /\ h = [n \in 0..k |-> h[n]]
        OBVIOUS
      <3> HIDE DEF g, h
      <3>2. QED
        BY <2>4, <3>1, Zenon
    <2>6. AfterUpTo(row, k, g)
      <3>1. g = [n \in 0..k |-> IF n = 0 THEN [row |-> row, drop |-> FALSE] ELSE Pass(g[n - 1], rules[n])]
        <4> HIDE DEF g
        <4>1. QED
          BY <2>5, Zenon
      <3> HIDE DEF g
      <3>2. QED
        BY <3>1, Zenon DEF AfterUpTo
    <2>7. QED
      BY <1>1, <2>6
  <1>4. QED
    BY <1>2, <1>3

\* Hence After is what its definition says.
LEMMA AfterUnfolds ==
  ASSUME NEW row, Len(rules) \in Nat, 0 <= Len(rules)
  PROVE  /\ After(row) = [n \in 0..Len(rules) |-> After(row)[n]]
         /\ After(row)[0] = [row |-> row, drop |-> FALSE]
         /\ \A n \in 1..Len(rules) : After(row)[n] = Pass(After(row)[n - 1], rules[n])
  <1>1. AfterUpTo(row, Len(rules), After(row))
    <2>1. After(row) = CHOOSE f : AfterUpTo(row, Len(rules), f)
      BY Zenon DEF After, AfterUpTo
    <2>2. \E f : AfterUpTo(row, Len(rules), f)
      BY AfterExists
    <2>3. QED
      BY <2>1, <2>2, Zenon
  <1>2. After(row) = [n \in 0..Len(rules) |-> IF n = 0 THEN [row |-> row, drop |-> FALSE] ELSE Pass(After(row)[n - 1], rules[n])]
    BY <1>1, Zenon DEF AfterUpTo
  <1>3. \A n \in 0..Len(rules) : After(row)[n] = IF n = 0 THEN [row |-> row, drop |-> FALSE] ELSE Pass(After(row)[n - 1], rules[n])
    BY <1>2, Zenon
  <1>4. After(row) = [n \in 0..Len(rules) |-> After(row)[n]]
    BY <1>2, <1>3, Zenon
  <1>5. 0 \in 0..Len(rules) /\ \A n \in 1..Len(rules) : n \in 0..Len(rules) /\ n # 0
    OBVIOUS
  <1>6. QED
    BY <1>3, <1>4, <1>5, Zenon

SweepUpTo(k, f) ==
    f = [n \in start..k |-> IF n = start THEN [heap |-> heap, kept |-> <<>>] ELSE CleanRecord(f[n - 1], Records[n])]

\* So has that of Sweep.
LEMMA SweepExists ==
  ASSUME start \in Nat
  PROVE  \A k \in Nat : start <= k => \E f : SweepUpTo(k, f)
  <1> DEFINE Bad == {k \in Nat : start <= k /\ ~\E f : SweepUpTo(k, f)}
  <1> SUFFICES ASSUME Bad # {} PROVE FALSE
    OBVIOUS
  <1>0. PICK k \in Bad : \A m \in Bad : k <= m
    BY LeastExists
  <1>1. k \in Nat /\ start <= k /\ start \in Nat /\ ~\E f : SweepUpTo(k, f)
    OBVIOUS
  <1>2. CASE k = start
    <2> DEFINE f == [n \in start..start |-> [heap |-> heap, kept |-> <<>>]]
    <2>1. \A n \in start..start : n = start
      BY <1>1
    <2>2. f = [n \in start..start |-> IF n = start THEN [heap |-> heap, kept |-> <<>>] ELSE CleanRecord(f[n - 1], Records[n])]
      BY <2>1, Zenon
    <2>3. SweepUpTo(start, f)
      <3> HIDE DEF f
      <3>1. QED
        BY <2>2, Zenon DEF SweepUpTo
    <2>4. QED
      BY <1>1, <1>2, <2>3
  <1>3. CASE k # start
    <2>1. k - 1 \in Nat /\ start <= k - 1 /\ k - 1 \notin Bad
      BY <1>0, <1>1, <1>3
    <2>2. PICK f : SweepUpTo(k - 1, f)
      BY <2>1
    <2> DEFINE g == [n \in start..k |-> IF n = k THEN CleanRecord(f[k - 1], Records[k]) ELSE f[n]]
    <2> DEFINE h == [n \in start..k |-> IF n = start THEN [heap |-> heap, kept |-> <<>>] ELSE CleanRecord(g[n - 1], Records[n])]
    <2>3. \A n \in start..(k - 1) : f[n] = IF n = start THEN [heap |-> heap, kept |-> <<>>] ELSE CleanRecord(f[n - 1], Records[n])
      BY <2>2, Zenon DEF SweepUpTo
    <2>4. ASSUME NEW n \in start..k PROVE g[n] = h[n]
      <3>1. CASE n = k
        <4>1. n - 1 \in start..k /\ n - 1 # k
          BY <1>1, <2>1, <3>1
        <4>2. g[n - 1] = f[k - 1]
          BY <3>1, <4>1
        <4>3. g[n] = CleanRecord(f[k - 1], Records[k])
          BY <3>1
        <4>4. h[n] = CleanRecord(g[n - 1], Records[n])
          BY <1>3, <3>1
        <4> HIDE DEF g, h
        <4>5. QED
          BY <3>1, <4>2, <4>3, <4>4, Zenon
      <3>2. CASE n # k /\ n # start
        <4>1. n \in start..(k - 1) /\ n - 1 \in start..k /\ n - 1 # k
          BY <1>1, <2>1, <3>2
        <4>2. g[n - 1] = f[n - 1] /\ g[n] = f[n]
          BY <3>2, <4>1
        <4>3. f[n] = CleanRecord(f[n - 1], Records[n])
          BY <2>3, <3>2, <4>1
        <4>4. h[n] = CleanRecord(g[n - 1], Records[n])
          BY <3>2
        <4> HIDE DEF g, h
        <4>5. QED
          BY <4>2, <4>3, <4>4, Zenon
      <3>3. CASE n # k /\ n = start
        <4>1. start \in start..(k - 1)
          BY <1>1, <2>1
        <4>2. f[start] = [heap |-> heap, kept |-> <<>>]
          BY <2>3, <4>1
        <4>3. g[n] = f[n] /\ h[n] = [heap |-> heap, kept |-> <<>>]
          BY <3>3
        <4> HIDE DEF g, h
        <4>4. QED
          BY <3>3, <4>2, <4>3, Zenon
      <3>4. QED
        BY <3>1, <3>2, <3>3
    <2>5. g = h
      <3>1. g = [n \in start..k |-> g[n]] /\ h = [n \in start..k |-> h[n]]
        OBVIOUS
      <3> HIDE DEF g, h
      <3>2. QED
        BY <2>4, <3>1, Zenon
    <2>6. SweepUpTo(k, g)
      <3>1. g = [n \in start..k |-> IF n = start THEN [heap |-> heap, kept |-> <<>>] ELSE CleanRecord(g[n - 1], Records[n])]
        <4> HIDE DEF g
        <4>1. QED
          BY <2>5, Zenon
      <3> HIDE DEF g
      <3>2. QED
        BY <3>1, Zenon DEF SweepUpTo
    <2>7. QED
      BY <1>1, <2>6
  <1>4. QED
    BY <1>2, <1>3

\* Sweep is what its definition says.
LEMMA SweepUnfolds ==
  ASSUME start \in Nat, ChunkEnd \in Nat, start <= ChunkEnd
  PROVE  /\ Sweep = [n \in start..ChunkEnd |-> Sweep[n]]
         /\ Sweep[start] = [heap |-> heap, kept |-> <<>>]
         /\ \A n \in (start + 1)..ChunkEnd : Sweep[n] = CleanRecord(Sweep[n - 1], Records[n])
  <1>1. SweepUpTo(ChunkEnd, Sweep)
    <2>1. Sweep = CHOOSE f : SweepUpTo(ChunkEnd, f)
      BY Zenon DEF Sweep, SweepUpTo
    <2>2. \E f : SweepUpTo(ChunkEnd, f)
      BY SweepExists
    <2>3. QED
      BY <2>1, <2>2, Zenon
  <1>2. Sweep = [n \in start..ChunkEnd |-> IF n = start THEN [heap |-> heap, kept |-> <<>>] ELSE CleanRecord(Sweep[n - 1], Records[n])]
    BY <1>1, Zenon DEF SweepUpTo
  <1>3. \A n \in start..ChunkEnd : Sweep[n] = IF n = start THEN [heap |-> heap, kept |-> <<>>] ELSE CleanRecord(Sweep[n - 1], Records[n])
    BY <1>2, Zenon
  <1>4. Sweep = [n \in start..ChunkEnd |-> Sweep[n]]
    BY <1>2, <1>3, Zenon
  <1>5. start \in start..ChunkEnd /\ \A n \in (start + 1)..ChunkEnd : n \in start..ChunkEnd /\ n # start
    OBVIOUS
  <1>6. QED
    BY <1>3, <1>4, <1>5, Zenon

-----------------------------------------------------------------------------
(* What the rules make of a row                                            *)

\* The rules see of the run its columns and its modes, which stay as they are
\* from the first chunk to the last.
LEMMA CleanStays ==
  ASSUME UNCHANGED <<rules, skipNulls, modes>>, Work.columns' = Work.columns
  PROVE  \A row : Clean(row)' = Clean(row)
  <1>1. ASSUME NEW rule, NEW row PROVE Reach(rule, row)' = Reach(rule, row)
    BY DEF Reach
  <1>2. ASSUME NEW rule, NEW c PROVE FillValue(rule, c)' = FillValue(rule, c)
    BY DEF FillValue, ModeOf
  <1>3. ASSUME NEW rule, NEW row PROVE ApplyRule(rule, row)' = ApplyRule(rule, row)
    BY <1>1, <1>2, Zenon DEF ApplyRule
  <1>4. ASSUME NEW rule, NEW row PROVE Drops(rule, row)' <=> Drops(rule, row)
    BY <1>1, Zenon DEF Drops
  <1>5. ASSUME NEW s, NEW rule PROVE Pass(s, rule)' = Pass(s, rule)
    BY <1>3, <1>4, Zenon DEF Pass
  <1>6. ASSUME NEW row PROVE After(row)' = After(row)
    BY <1>5, Zenon DEF After
  <1>7. QED
    BY <1>6, Zenon DEF Clean

-----------------------------------------------------------------------------
(* Types, and what a chunk does to the records                             *)

TypeInv ==
    /\ rules \in Seq(Rule) /\ skipNulls \in BOOLEAN /\ createCopy \in BOOLEAN
    /\ original \in Sources
    /\ data \in [{"src", "clone"} -> [columns : SUBSET Columns, records : Seq(RowIds)]]
    /\ heap = [r \in RowIds |-> heap[r]]
    /\ pc \in {"idle", "cleaning", "done", "failed"}
    /\ start \in Nat /\ processed \in Nat /\ skipped \in Nat /\ attempt \in Nat

\* Every record before the chunk was counted once.
Counted ==
    pc = "cleaning" =>
        processed + skipped = IF start < Len(Records) THEN start ELSE Len(Records)

LEMMA SourceType ==
  ASSUME original \in Sources
  PROVE  /\ Size \in 0..N /\ N \in Nat /\ DOMAIN original = 1..Size
         /\ \A k \in 1..Size : original[k] \in [Columns -> Values \cup Nulls]
  BY SourcesAssumption, SizesAssumption DEF Size

LEMMA WorkType ==
  ASSUME TypeInv
  PROVE  /\ Target \in {"src", "clone"} /\ Work = data[Target]
         /\ Work.columns \in SUBSET Columns
         /\ Records \in Seq(RowIds) /\ Len(Records) \in Nat
         /\ DOMAIN Records = 1..Len(Records)
         /\ \A k \in 1..Len(Records) : Records[k] \in RowIds
  <1>1. Target \in {"src", "clone"}
    BY DEF Target
  <1>2. data[Target] \in [columns : SUBSET Columns, records : Seq(RowIds)]
    BY <1>1 DEF TypeInv
  <1>3. Records \in Seq(RowIds) /\ Work.columns \in SUBSET Columns
    BY <1>2 DEF Work, Records
  <1>4. QED
    BY <1>1, <1>3 DEF Work

LEMMA InductUp ==
  ASSUME NEW a \in Nat, NEW b \in Nat, NEW S,
         a \in S, \A k \in (a + 1)..b : k - 1 \in S => k \in S
  PROVE  \A k \in a..b : k \in S
  <1> DEFINE Bad == {k \in Nat : k \in a..b /\ k \notin S}
  <1> SUFFICES ASSUME Bad # {} PROVE FALSE
    OBVIOUS
  <1>1. PICK k \in Bad : \A m \in Bad : k <= m
    BY LeastExists
  <1>2. k # a /\ k \in (a + 1)..b /\ k - 1 \in Nat /\ k - 1 \in a..b
    BY <1>1
  <1>3. k - 1 \notin Bad
    BY <1>1, <1>2
  <1>4. QED
    BY <1>1, <1>2, <1>3

LEMMA EndBounds ==
  ASSUME TypeInv, start < Len(Records)
  PROVE  /\ ChunkEnd \in Nat /\ start < ChunkEnd /\ ChunkEnd <= Len(Records)
         /\ ChunkEnd = start + ChunkSize \/ ChunkEnd = Len(Records)
         /\ ChunkEnd <= start + ChunkSize
  BY WorkType, SizesAssumption DEF ChunkEnd, TypeInv

\* What was kept so far, and which rows the chunk has touched.
SweepIs(k) ==
    LET s == Sweep[k] IN
    /\ s.heap = [r \in RowIds |-> s.heap[r]]
    /\ s.kept \in Seq(RowIds) /\ Len(s.kept) <= k - start
    /\ \A i \in 1..Len(s.kept) : \E j \in (start + 1)..k : s.kept[i] = Records[j]
    /\ \A r \in RowIds : (\A j \in (start + 1)..k : Records[j] # r) => s.heap[r] = heap[r]

LEMMA SweepBasics ==
  ASSUME TypeInv, start < Len(Records)
  PROVE  \A k \in start..ChunkEnd : SweepIs(k)
  <1>1. start \in Nat /\ ChunkEnd \in Nat /\ start <= ChunkEnd
    BY EndBounds DEF TypeInv
  <1>2. /\ Sweep[start] = [heap |-> heap, kept |-> <<>>]
        /\ \A k \in (start + 1)..ChunkEnd : Sweep[k] = CleanRecord(Sweep[k - 1], Records[k])
    BY <1>1, SweepUnfolds
  <1> DEFINE S == {k \in start..ChunkEnd : SweepIs(k)}
  <1>3. start \in S
    <2>1. Sweep[start].heap = heap /\ Sweep[start].kept = <<>>
      BY <1>2
    <2>2. /\ heap = [r \in RowIds |-> heap[r]]
          /\ <<>> \in Seq(RowIds) /\ Len(<<>>) = 0 /\ 0 <= start - start
          /\ start \in start..ChunkEnd
      BY <1>1 DEF TypeInv
    <2>3. \A i \in 1..0 : FALSE
      OBVIOUS
    <2>4. SweepIs(start)
      BY <2>1, <2>2, <2>3, Zenon DEF SweepIs
    <2>5. QED
      BY <2>2, <2>4
  <1>4. ASSUME NEW k \in (start + 1)..ChunkEnd, k - 1 \in S
        PROVE  k \in S
    <2> DEFINE s == Sweep[k - 1]
               t == Sweep[k]
               r == Records[k]
               c == Clean(s.heap[r])
    <2>0. k \in 1..Len(Records) /\ k - 1 \in Int /\ k \in Int
      <3>1. ChunkEnd <= Len(Records) /\ Len(Records) \in Nat
        BY EndBounds, WorkType
      <3>2. QED
        BY <1>1, <3>1
    <2>1. r \in RowIds /\ k - 1 \in Int /\ k \in Int
      BY <2>0, WorkType
    <2>2. /\ t.heap = [s.heap EXCEPT ![r] = c.row]
          /\ t.kept = IF c.drop THEN s.kept ELSE Append(s.kept, r)
      <3>1. t = CleanRecord(s, r)
        BY <1>2
      <3> HIDE DEF s, t, r
      <3>2. QED
        BY <3>1 DEF CleanRecord
    <2>3. /\ s.heap = [q \in RowIds |-> s.heap[q]]
          /\ s.kept \in Seq(RowIds) /\ Len(s.kept) <= k - 1 - start
          /\ \A i \in 1..Len(s.kept) : \E j \in (start + 1)..(k - 1) : s.kept[i] = Records[j]
          /\ \A q \in RowIds :
                (\A j \in (start + 1)..(k - 1) : Records[j] # q) => s.heap[q] = heap[q]
      BY <1>4 DEF SweepIs
    <2> HIDE DEF s, t, c
    <2>4. t.heap = [q \in RowIds |-> t.heap[q]] /\ \A q \in RowIds \ {r} : t.heap[q] = s.heap[q]
      BY <2>1, <2>2, <2>3
    <2>5. t.kept \in Seq(RowIds) /\ Len(t.kept) <= k - start
      BY <1>1, <2>1, <2>2, <2>3
    <2>6. \A i \in 1..Len(t.kept) : \E j \in (start + 1)..k : t.kept[i] = Records[j]
      <3>1. CASE t.kept = s.kept
        BY <1>1, <2>1, <2>3, <3>1
      <3>2. CASE t.kept = Append(s.kept, r)
        <4>1. ASSUME NEW i \in 1..Len(t.kept)
              PROVE  \E j \in (start + 1)..k : t.kept[i] = Records[j]
          <5>1. CASE i = Len(s.kept) + 1
            BY <1>1, <1>4, <2>3, <3>2, <5>1
          <5>2. CASE i # Len(s.kept) + 1
            <6>1. i \in 1..Len(s.kept) /\ t.kept[i] = s.kept[i]
              BY <2>3, <3>2, <5>2
            <6>2. QED
              BY <1>1, <2>1, <2>3, <6>1
          <5>3. QED
            BY <5>1, <5>2
        <4>2. QED
          BY <4>1
      <3>3. QED
        BY <2>2, <3>1, <3>2
    <2>7. ASSUME NEW q \in RowIds, \A j \in (start + 1)..k : Records[j] # q
          PROVE  t.heap[q] = heap[q]
      <3>1. k \in (start + 1)..k /\ \A j \in (start + 1)..(k - 1) : j \in (start + 1)..k
        BY <1>1, <2>1
      <3>2. q # r
        BY <2>7, <3>1
      <3>3. \A j \in (start + 1)..(k - 1) : Records[j] # q
        BY <2>7, <3>1
      <3>4. QED
        BY <2>3, <2>4, <3>2, <3>3
    <2>8. QED
      BY <1>1, <1>4, <2>4, <2>5, <2>6, <2>7 DEF SweepIs, t
  <1> HIDE DEF S
  <1>5. \A k \in start..ChunkEnd : k \in S
    BY <1>1, <1>3, <1>4, InductUp
  <1>6. QED
    BY <1>5 DEF S

LEMMA ChunkEffect ==
  ASSUME TypeInv, Chunk
  PROVE  /\ start < Len(Records) /\ pc = "cleaning" /\ pc' = "cleaning"
         /\ Sweep[ChunkEnd].kept \in Seq(RowIds)
         /\ Len(Sweep[ChunkEnd].kept) <= ChunkEnd - start
         /\ \A i \in 1..Len(Sweep[ChunkEnd].kept) :
               \E j \in (start + 1)..ChunkEnd : Sweep[ChunkEnd].kept[i] = Records[j]
         /\ \A r \in RowIds : (\A j \in (start + 1)..ChunkEnd : Records[j] # r)
                                 => heap'[r] = heap[r]
         /\ heap' = Sweep[ChunkEnd].heap /\ heap' = [r \in RowIds |-> heap'[r]]
         /\ Target' = Target /\ Work.columns' = Work.columns
         /\ Len(Records') = Len(Records) /\ Records' \in Seq(RowIds)
         /\ \A k \in 1..Len(Records) :
               Records'[k] = IF k - start \in 1..Len(Sweep[ChunkEnd].kept)
                             THEN Sweep[ChunkEnd].kept[k - start] ELSE Records[k]
         /\ data' \in [{"src", "clone"} -> [columns : SUBSET Columns, records : Seq(RowIds)]]
         /\ \A d \in {"src", "clone"} : d # Target => data'[d] = data[d]
  <1> DEFINE kept == Sweep[ChunkEnd].kept
             new == [k \in DOMAIN Records |-> IF k - start \in DOMAIN kept
                                              THEN kept[k - start] ELSE Records[k]]
  <1>1. start < Len(Records) /\ pc = "cleaning" /\ pc' = "cleaning" /\ start \in Nat
    BY DEF Chunk, TypeInv
  <1>2. ChunkEnd \in start..ChunkEnd
    BY <1>1, EndBounds
  <1>3. SweepIs(ChunkEnd)
    BY <1>1, <1>2, SweepBasics
  <1>4. heap' = Sweep[ChunkEnd].heap /\ createCopy' = createCopy
    BY DEF Chunk, params
  <1>5. DOMAIN kept = 1..Len(kept) /\ kept \in Seq(RowIds) /\ Len(kept) \in Nat
        /\ \A i \in 1..Len(kept) : kept[i] \in RowIds
    BY <1>3 DEF SweepIs
  <1>6. Target' = Target
    BY <1>4 DEF Target
  <1>7. data' = [data EXCEPT ![Target].records = new]
    BY DEF Chunk, Records, Work
  <1>8. new \in Seq(RowIds) /\ Len(new) = Len(Records)
    <2> HIDE DEF kept
    <2>1. new \in [1..Len(Records) -> RowIds]
      BY <1>5, WorkType
    <2> HIDE DEF new
    <2>2. new \in Seq(RowIds)
      BY <2>1, WorkType
    <2>3. QED
      BY <2>1, <2>2, WorkType
  <1>9. /\ data' \in [{"src", "clone"} -> [columns : SUBSET Columns, records : Seq(RowIds)]]
        /\ data'[Target].records = new /\ data'[Target].columns = data[Target].columns
        /\ \A d \in {"src", "clone"} : d # Target => data'[d] = data[d]
    <2> HIDE DEF new
    <2>1. QED
      BY <1>7, <1>8, WorkType DEF TypeInv
  <1>10. Work.columns' = Work.columns /\ Records' = new
    BY <1>6, <1>9 DEF Work, Records
  <1>11. \A k \in 1..Len(Records) :
            Records'[k] = IF k - start \in 1..Len(kept) THEN kept[k - start] ELSE Records[k]
    <2> HIDE DEF kept
    <2>1. QED
      BY <1>5, <1>10, WorkType
  <1> HIDE DEF new
  <1>12. QED
    BY <1>1, <1>3, <1>4, <1>5, <1>6, <1>8, <1>9, <1>10, <1>11 DEF SweepIs

-----------------------------------------------------------------------------
(* Types hold                                                              *)

SizeInv == createCopy => data["src"].records = [k \in 1..Size |-> k]

BaseInv == TypeInv /\ Counted /\ SizeInv

LEMMA BaseInit == Init => BaseInv
  <1> SUFFICES ASSUME Init PROVE BaseInv
    OBVIOUS
  <1>1. Size \in 0..N /\ N \in Nat /\ DOMAIN original = 1..Size
    BY SourceType DEF Init
  <1> DEFINE recs == [k \in 1..Size |-> k]
  <1>2. recs \in Seq(RowIds)
    <2>1. recs \in [1..Size -> RowIds] /\ Size \in Nat
      BY <1>1 DEF RowIds
    <2> HIDE DEF recs
    <2>2. QED
      BY <2>1
  <1>3. data = [d \in {"src", "clone"} |->
                  IF d = "src" THEN [columns |-> Columns, records |-> recs]
                  ELSE [columns |-> {}, records |-> <<>>]]
    BY <1>1 DEF Init
  <1>4. data["src"].records = recs
    BY <1>3
  <1> HIDE DEF recs
  <1>5. data \in [{"src", "clone"} -> [columns : SUBSET Columns, records : Seq(RowIds)]]
    <2>1. <<>> \in Seq(RowIds)
      OBVIOUS
    <2>2. QED
      BY <1>2, <1>3, <2>1
  <1>6. heap = [r \in RowIds |-> heap[r]]
    BY DEF Init
  <1>7. TypeInv
    BY <1>5, <1>6, RulesAssumption DEF TypeInv, Init
  <1>8. QED
    BY <1>4, <1>7 DEF BaseInv, Counted, SizeInv, Init, recs

\* The dataset a run begins with, and the columns it drops.
Taken == IF createCopy THEN CloneRows ELSE data["src"]

LEMMA TakenType ==
  ASSUME TypeInv, SizeInv
  PROVE  Taken \in [columns : SUBSET Columns, records : Seq(RowIds)]
  <1>1. CASE ~createCopy
    BY <1>1 DEF Taken, TypeInv
  <1>2. CASE createCopy
    <2> DEFINE recs == [k \in 1..Size |-> N + k]
    <2>1. recs \in [1..Size -> RowIds] /\ Size \in Nat
      BY SourceType DEF TypeInv, RowIds
    <2>2. data["src"].records = [k \in 1..Size |-> k] /\ DOMAIN data["src"].records = 1..Size
      BY <1>2 DEF SizeInv
    <2>3. Taken = [columns |-> data["src"].columns, records |-> recs]
      BY <1>2, <2>2 DEF Taken, CloneRows
    <2>4. data["src"].columns \in SUBSET Columns
      BY DEF TypeInv
    <2> HIDE DEF recs
    <2>5. recs \in Seq(RowIds)
      BY <2>1
    <2>6. QED
      BY <2>3, <2>4, <2>5
  <1>3. QED
    BY <1>1, <1>2 DEF TypeInv

LEMMA BeginEffect ==
  ASSUME BaseInv, Begin
  PROVE  /\ pc' = "cleaning" /\ start' = 0 /\ processed' = 0 /\ skipped' = 0
         /\ attempt' = attempt + 1 /\ UNCHANGED params /\ Target' = Target
         /\ heap' = [r \in RowIds |-> heap'[r]]
         /\ data' \in [{"src", "clone"} -> [columns : SUBSET Columns, records : Seq(RowIds)]]
         /\ Records' = Taken.records /\ Work.columns' \in SUBSET Taken.columns
         /\ \A d \in {"src", "clone"} : d # Target => data'[d] = data[d]
         /\ \A r \in RowIds :
               LET was == IF createCopy /\ r - N \in DOMAIN data["src"].records
                          THEN heap[data["src"].records[r - N]] ELSE heap[r] IN
               heap'[r] = IF \E k \in DOMAIN Taken.records : Taken.records[k] = r
                          THEN [c \in DOMAIN was \ (Taken.columns \ Work.columns') |-> was[c]]
                          ELSE was
  <1>1. /\ pc' = "cleaning" /\ start' = 0 /\ processed' = 0 /\ skipped' = 0
        /\ attempt' = attempt + 1 /\ UNCHANGED params /\ createCopy' = createCopy
    BY DEF Begin, params
  <1>2. Target' = Target /\ Target \in {"src", "clone"}
    BY <1>1 DEF Target
  <1> DEFINE was(r) == IF createCopy /\ r - N \in DOMAIN data["src"].records
                       THEN heap[data["src"].records[r - N]] ELSE heap[r]
             copied == [r \in RowIds |-> was(r)]
  <1>3. PICK empty \in SUBSET Taken.columns :
          /\ data' = [data EXCEPT ![Target] = [columns |-> Taken.columns \ empty,
                                               records |-> Taken.records]]
          /\ heap' = [r \in RowIds |->
                        IF \E k \in DOMAIN Taken.records : Taken.records[k] = r
                        THEN [c \in DOMAIN copied[r] \ empty |-> copied[r][c]] ELSE copied[r]]
    <2> DEFINE none == IF \E k \in DOMAIN rules : rules[k].op = "drop_empty_columns"
                       THEN {c \in Taken.columns : \A k \in DOMAIN Taken.records :
                                Cell(copied[Taken.records[k]], c) \in Blanks}
                       ELSE {}
    <2>1. none \in SUBSET Taken.columns
      OBVIOUS
    <2>2. /\ data' = [data EXCEPT ![Target] = [columns |-> Taken.columns \ none,
                                               records |-> Taken.records]]
          /\ heap' = [r \in RowIds |->
                        IF \E k \in DOMAIN Taken.records : Taken.records[k] = r
                        THEN [c \in DOMAIN copied[r] \ none |-> copied[r][c]] ELSE copied[r]]
      BY Zenon DEF Begin, Taken
    <2> HIDE DEF none, copied
    <2>3. QED
      BY <2>1, <2>2, Zenon
  <1> HIDE DEF was
  <1>4. /\ Taken \in [columns : SUBSET Columns, records : Seq(RowIds)]
        /\ Taken.columns \in SUBSET Columns /\ Taken.records \in Seq(RowIds)
    BY TakenType DEF BaseInv
  <1>5. /\ data' \in [{"src", "clone"} -> [columns : SUBSET Columns, records : Seq(RowIds)]]
        /\ data'[Target] = [columns |-> Taken.columns \ empty, records |-> Taken.records]
        /\ \A d \in {"src", "clone"} : d # Target => data'[d] = data[d]
    <2>1. [columns |-> Taken.columns \ empty, records |-> Taken.records]
              \in [columns : SUBSET Columns, records : Seq(RowIds)]
      BY <1>4
    <2>2. QED
      BY <1>2, <1>3, <2>1 DEF BaseInv, TypeInv
  <1>6. Work.columns' = Taken.columns \ empty /\ Records' = Taken.records
    BY <1>2, <1>5 DEF Work, Records
  <1>7. empty = Taken.columns \ Work.columns'
    BY <1>3, <1>6
  <1>8. \A r \in RowIds :
           heap'[r] = IF \E k \in DOMAIN Taken.records : Taken.records[k] = r
                      THEN [c \in DOMAIN was(r) \ empty |-> was(r)[c]] ELSE was(r)
    BY <1>3
  <1>9. heap' = [r \in RowIds |-> heap'[r]]
    BY <1>3
  <1>10. QED
    BY <1>1, <1>2, <1>5, <1>6, <1>7, <1>8, <1>9, Zenon DEF was

LEMMA ChunkCounted ==
  ASSUME BaseInv, Chunk
  PROVE  /\ Counted' /\ start' \in Nat /\ processed' \in Nat /\ skipped' \in Nat
         /\ processed' + skipped' = ChunkEnd
         /\ processed' = processed + Len(Sweep[ChunkEnd].kept)
  <1> DEFINE kept == Len(Sweep[ChunkEnd].kept)
  <1>1. /\ start < Len(Records) /\ kept \in Nat /\ kept <= ChunkEnd - start
        /\ Len(Records') = Len(Records)
    BY ChunkEffect DEF BaseInv
  <1>2. /\ ChunkEnd \in Nat /\ start < ChunkEnd /\ ChunkEnd <= Len(Records)
        /\ ChunkEnd = start + ChunkSize \/ ChunkEnd = Len(Records)
        /\ ChunkEnd <= start + ChunkSize /\ Len(Records) \in Nat
    BY <1>1, EndBounds, WorkType DEF BaseInv
  <1>3. processed' = processed + kept /\ skipped' = skipped + (ChunkEnd - start - kept)
        /\ start' = start + ChunkSize
    BY DEF Chunk
  <1>4. processed + skipped = start
    BY <1>1 DEF BaseInv, Counted, Chunk
  <1> HIDE DEF kept
  <1>5. start \in Nat /\ processed \in Nat /\ skipped \in Nat /\ ChunkSize \in Nat
    BY SizesAssumption DEF BaseInv, TypeInv
  <1>6. processed' \in Nat /\ skipped' \in Nat /\ start' \in Nat
        /\ processed' + skipped' = ChunkEnd
    BY <1>1, <1>2, <1>3, <1>4, <1>5
  <1>7. Counted'
    BY <1>1, <1>2, <1>3, <1>5, <1>6 DEF Counted
  <1>8. QED
    BY <1>3, <1>6, <1>7 DEF kept

\* The records are cut at the end, never lengthened.
LEMMA FinishEffect ==
  ASSUME BaseInv, Finish
  PROVE  /\ pc' = "done" /\ pc = "cleaning" /\ Len(Records) <= start
         /\ Target' = Target /\ Work.columns' = Work.columns
         /\ UNCHANGED <<params, heap, start, processed, skipped, modes, attempt>>
         /\ data' \in [{"src", "clone"} -> [columns : SUBSET Columns, records : Seq(RowIds)]]
         /\ \A d \in {"src", "clone"} : d # Target => data'[d] = data[d]
         /\ processed + skipped = Len(Records)
         /\ Len(Records') = IF skipped = 0 THEN Len(Records)
                            ELSE IF processed > 0 THEN processed ELSE 1
         /\ Len(Records') <= Len(Records)
         /\ \A k \in 1..Len(Records') : Records'[k] = Records[k]
  <1> DEFINE cut == IF processed > 0 THEN processed ELSE 1
             new == IF skipped > 0 THEN SubSeq(Records, 1, cut) ELSE Records
  <1>1. /\ Target \in {"src", "clone"} /\ Work = data[Target]
        /\ Records \in Seq(RowIds) /\ Len(Records) \in Nat
    BY WorkType DEF BaseInv
  <1>2. /\ pc' = "done" /\ pc = "cleaning" /\ Len(Records) <= start
        /\ UNCHANGED <<params, heap, start, processed, skipped, modes, attempt>>
        /\ createCopy' = createCopy
    BY <1>1 DEF Finish, params, BaseInv, TypeInv
  <1>3. Target' = Target
    BY <1>2 DEF Target
  <1>4. processed + skipped = Len(Records) /\ processed \in Nat /\ skipped \in Nat
    <2>1. start \in Nat
      BY DEF BaseInv, TypeInv
    <2>2. QED
      BY <1>1, <1>2, <2>1 DEF BaseInv, TypeInv, Counted
  <1>5. skipped > 0 => cut \in 1..Len(Records)
    BY <1>1, <1>4
  <1>6. /\ new \in Seq(RowIds)
        /\ Len(new) = (IF skipped = 0 THEN Len(Records) ELSE cut) /\ Len(new) <= Len(Records)
        /\ \A k \in 1..Len(new) : new[k] = Records[k]
    <2>1. CASE skipped = 0
      BY <1>1, <2>1
    <2>2. CASE skipped > 0
      <3> HIDE DEF cut
      <3>1. cut \in 1..Len(Records) /\ new = SubSeq(Records, 1, cut)
        BY <1>5, <2>2
      <3> HIDE DEF new
      <3>2. QED
        BY <1>1, <2>2, <3>1
    <2>3. QED
      BY <1>4, <2>1, <2>2
  <1>7. \/ data' = [data EXCEPT ![Target].records = new]
        \/ data' = data /\ new = Records
    BY DEF Finish, Records, Work
  <1> HIDE DEF new
  <1>8. /\ data' \in [{"src", "clone"} -> [columns : SUBSET Columns, records : Seq(RowIds)]]
        /\ data'[Target].records = new /\ data'[Target].columns = data[Target].columns
        /\ \A d \in {"src", "clone"} : d # Target => data'[d] = data[d]
    BY <1>1, <1>6, <1>7 DEF BaseInv, TypeInv, Records
  <1>9. Work.columns' = Work.columns /\ Records' = new
    BY <1>1, <1>3, <1>8 DEF Work, Records
  <1>10. QED
    BY <1>2, <1>3, <1>4, <1>6, <1>8, <1>9

LEMMA BaseNext ==
  ASSUME BaseInv, [Next]_vars
  PROVE  BaseInv'
  <1>1. CASE Begin
    <2>1. TypeInv' /\ Counted'
      <3>1. /\ rules' = rules /\ skipNulls' = skipNulls /\ createCopy' = createCopy
            /\ original' = original
        BY <1>1 DEF Begin, params
      <3>2. TypeInv'
        BY <1>1, <3>1, BeginEffect DEF BaseInv, TypeInv
      <3>3. Len(Records') \in Nat
        BY <1>1, BeginEffect, TakenType DEF BaseInv
      <3>4. QED
        BY <1>1, <3>2, <3>3, BeginEffect DEF Counted
    <2>2. SizeInv'
      <3>1. CASE createCopy
        BY <1>1, <3>1, BeginEffect DEF BaseInv, SizeInv, params, Target, Size
      <3>2. CASE ~createCopy
        BY <1>1, <3>2, BeginEffect DEF SizeInv, params
      <3>3. QED
        BY <3>1, <3>2
    <2>3. QED
      BY <2>1, <2>2 DEF BaseInv
  <1>2. CASE Chunk
    <2>1. /\ rules' = rules /\ skipNulls' = skipNulls /\ createCopy' = createCopy
          /\ original' = original /\ attempt' = attempt
      BY <1>2 DEF Chunk, params
    <2>2. TypeInv' /\ Counted'
      BY <1>2, <2>1, ChunkEffect, ChunkCounted DEF BaseInv, TypeInv
    <2>3. SizeInv'
      <3>1. createCopy => data'["src"] = data["src"]
        BY <1>2, ChunkEffect DEF BaseInv, Target
      <3>2. QED
        BY <2>1, <3>1 DEF BaseInv, SizeInv, Size
    <2>4. QED
      BY <2>2, <2>3 DEF BaseInv
  <1>3. CASE Finish
    <2>1. /\ rules' = rules /\ skipNulls' = skipNulls /\ createCopy' = createCopy
          /\ original' = original
      BY <1>3 DEF Finish, params
    <2>2. TypeInv' /\ Counted'
      BY <1>3, <2>1, FinishEffect DEF BaseInv, TypeInv, Counted
    <2>3. SizeInv'
      <3>1. createCopy => data'["src"] = data["src"]
        BY <1>3, FinishEffect DEF BaseInv, Target
      <3>2. QED
        BY <2>1, <3>1 DEF BaseInv, SizeInv, Size
    <2>4. QED
      BY <2>2, <2>3 DEF BaseInv
  <1>4. CASE Cancel \/ Retry \/ UNCHANGED vars
    <2>1. /\ rules' = rules /\ skipNulls' = skipNulls /\ createCopy' = createCopy
          /\ original' = original /\ attempt' = attempt /\ data' = data /\ heap' = heap
          /\ start' = start /\ processed' = processed /\ skipped' = skipped
          /\ pc' \in {"failed", "idle"} \/ pc' = pc
      BY <1>4 DEF Cancel, Retry, vars, params
    <2>2. Records' = Records /\ Size' = Size
      BY <2>1 DEF Records, Work, Target, Size
    <2>3. TypeInv'
      BY <2>1 DEF BaseInv, TypeInv
    <2>4. Counted' /\ SizeInv'
      BY <2>1, <2>2 DEF BaseInv, Counted, SizeInv
    <2>5. QED
      BY <2>3, <2>4 DEF BaseInv
  <1>5. QED
    BY <1>1, <1>2, <1>3, <1>4 DEF Next

\* Rows, records and counts keep their types through any number of chunks, cuts
\* and attempts (etl_clean.go:84-671), and each record that a run went past was
\* either processed or skipped.
THEOREM TypesHold == Spec => []BaseInv
  BY BaseInit, BaseNext, PTL DEF Spec

-----------------------------------------------------------------------------
(* The source of a copy                                                    *)

\* The rows of the source are the first ones, those of the clone come after all
\* of them, and only the clone is worked on.
SourceInv ==
    createCopy => /\ data["src"].columns = Columns
                  /\ \A k \in 1..Size : heap[k] = original[k]
                  /\ \A k \in 1..Len(data["clone"].records) : data["clone"].records[k] > N

LEMMA SourceInvInit == Init => SourceInv
  <1> SUFFICES ASSUME Init PROVE SourceInv
    OBVIOUS
  <1>1. Size \in 0..N /\ N \in Nat
    BY SourceType DEF Init
  <1>2. data["src"].columns = Columns /\ data["clone"].records = <<>>
    BY DEF Init
  <1>3. \A k \in 1..Size : heap[k] = original[k]
    BY <1>1 DEF Init, RowIds, Size
  <1>4. QED
    BY <1>2, <1>3 DEF SourceInv

LEMMA SourceInvNext ==
  ASSUME BaseInv, SourceInv, [Next]_vars
  PROVE  SourceInv'
  <1> SUFFICES ASSUME createCopy' PROVE SourceInv'
    BY DEF SourceInv
  <1>1. createCopy /\ createCopy' = createCopy /\ original' = original /\ Size' = Size
    BY DEF Next, Begin, Chunk, Cancel, Finish, Retry, vars, params, Size
  <1>2. Target = "clone" /\ Target' = "clone"
    BY <1>1 DEF Target
  <1>3. /\ data["src"].columns = Columns /\ Records = data["clone"].records
        /\ \A k \in 1..Size : heap[k] = original[k]
        /\ \A k \in 1..Len(Records) : Records[k] > N
        /\ Size \in 0..N /\ N \in Nat
    <2>1. Records = data["clone"].records
      BY <1>2 DEF Records, Work
    <2>2. QED
      BY <1>1, <2>1, SourceType DEF SourceInv, BaseInv, TypeInv
  <1>4. Records' = data'["clone"].records
    BY <1>2 DEF Records, Work
  <1>5. \A k \in 1..Size : k \in RowIds
    BY <1>3 DEF RowIds
  <1>6. CASE Begin
    <2>1. data'["src"] = data["src"]
      BY <1>2, <1>6, BeginEffect
    <2>2. DOMAIN data["src"].records = 1..Size /\ Taken = CloneRows
      BY <1>1 DEF BaseInv, SizeInv, Taken
    <2>3. Taken.records = [k \in 1..Size |-> N + k]
      BY <2>2 DEF CloneRows
    <2>4. \A k \in 1..Len(Records') : Records'[k] > N
      BY <1>3, <1>6, <2>3, BeginEffect
    <2>5. ASSUME NEW k \in 1..Size PROVE heap'[k] = heap[k]
      <3>1. /\ k - N \notin DOMAIN data["src"].records
            /\ ~\E m \in DOMAIN Taken.records : Taken.records[m] = k
        BY <1>3, <2>2, <2>3
      <3>2. QED
        BY <1>5, <1>6, <3>1, BeginEffect
    <2>6. QED
      BY <1>1, <1>3, <1>4, <2>1, <2>4, <2>5 DEF SourceInv
  <1>7. CASE Chunk
    <2> DEFINE kept == Sweep[ChunkEnd].kept
    <2>1. data'["src"] = data["src"]
      BY <1>2, <1>7, ChunkEffect DEF BaseInv
    <2>2. start < Len(Records) /\ start \in Nat /\ ChunkEnd \in Nat /\ ChunkEnd <= Len(Records)
      BY <1>7, EndBounds, ChunkEffect DEF BaseInv, TypeInv
    <2>3. \A j \in (start + 1)..ChunkEnd : j \in 1..Len(Records)
      <3>1. Len(Records) \in Nat
        BY WorkType DEF BaseInv
      <3>2. QED
        BY <2>2, <3>1
    <2>4. ASSUME NEW k \in 1..Size PROVE heap'[k] = heap[k]
      <3>1. \A j \in (start + 1)..ChunkEnd : Records[j] # k
        BY <1>3, <2>3
      <3>2. QED
        BY <1>5, <1>7, <3>1, ChunkEffect DEF BaseInv
    <2>5. \A i \in 1..Len(kept) : kept[i] > N
      BY <1>3, <1>7, <2>3, ChunkEffect DEF BaseInv
    <2>6. \A k \in 1..Len(Records') : Records'[k] > N
      <3>1. /\ Len(Records') = Len(Records)
            /\ \A k \in 1..Len(Records) :
                  Records'[k] = IF k - start \in 1..Len(kept) THEN kept[k - start] ELSE Records[k]
        BY <1>7, ChunkEffect DEF BaseInv
      <3> HIDE DEF kept
      <3>2. QED
        BY <1>3, <2>5, <3>1
    <2>7. QED
      BY <1>1, <1>3, <1>4, <2>1, <2>4, <2>6 DEF SourceInv
  <1>8. CASE Finish
    <2>1. data'["src"] = data["src"] /\ heap' = heap
      BY <1>2, <1>8, FinishEffect
    <2>2. \A k \in 1..Len(Records') : k \in 1..Len(Records) /\ Records'[k] = Records[k]
      <3>1. Len(Records') \in Nat /\ Len(Records) \in Nat
        <4>1. data'["clone"].records \in Seq(RowIds)
          BY <1>8, FinishEffect
        <4>2. QED
          BY <1>4, <4>1, WorkType DEF BaseInv
      <3>2. QED
        BY <1>8, <3>1, FinishEffect
    <2>3. QED
      BY <1>1, <1>3, <1>4, <2>1, <2>2 DEF SourceInv
  <1>9. CASE Cancel \/ Retry \/ UNCHANGED vars
    <2>1. data' = data /\ heap' = heap
      BY <1>9 DEF Cancel, Retry, vars
    <2>2. QED
      BY <1>1, <2>1 DEF SourceInv
  <1>10. QED
    BY <1>6, <1>7, <1>8, <1>9 DEF Next

\* A job that was to make a copy leaves every record, column and cell of its source
\* alone, however often it is cancelled and tried again (dataset/store.go:32-52).
THEOREM CopiesSpareTheSource == Spec => []SourceUntouched
  <1>1. BaseInv /\ SourceInv => SourceUntouched
    <2> SUFFICES ASSUME BaseInv, SourceInv, createCopy
                 PROVE  /\ data["src"].columns = Columns
                        /\ Deref(heap, data["src"].records) = original
      BY DEF SourceUntouched
    <2>1. /\ data["src"].records = [k \in 1..Size |-> k]
          /\ \A k \in 1..Size : heap[k] = original[k]
      BY DEF BaseInv, SizeInv, SourceInv
    <2>2. Deref(heap, data["src"].records) = [k \in 1..Size |-> original[k]]
      BY <2>1 DEF Deref
    <2>3. original = [k \in 1..Size |-> original[k]]
      <3>1. original \in Seq([Columns -> Values \cup Nulls])
        BY SourcesAssumption DEF BaseInv, TypeInv
      <3>2. QED
        BY <3>1 DEF Size
    <2>4. QED
      BY <2>2, <2>3 DEF SourceInv
  <1>2. QED
    BY <1>1, TypesHold, SourceInvInit, SourceInvNext, PTL DEF Spec

-----------------------------------------------------------------------------
(* A column the last rule fills                                            *)

Last == rules[Len(rules)]
Fills ==
    /\ ~skipNulls /\ ~Has("drop_null") /\ rules # <<>>
    /\ Last.op = "fill_null" /\ Last.value \in Values \cup {Empty}
Full(row) == \A c \in Reach(Last, row) : row[c] \notin Nulls

\* A mode is a value, or there is none.
ModesInv == \A c \in DOMAIN modes : modes[c] \in Values \cup {Empty}

\* Nothing is dropped, and the rows the run went past are full.
FillInv ==
    Fills /\ pc \in {"cleaning", "done"} =>
        /\ skipped = 0
        /\ pc = "done" => Len(Records) <= start
        /\ \A k \in 1..Len(Records) : k <= start => Full(heap[Records[k]])

LEMMA CleanFills ==
  ASSUME TypeInv, ModesInv, Fills, NEW row
  PROVE  ~Clean(row).drop /\ Full(Clean(row).row)
  <1>1. Len(rules) \in Nat /\ Len(rules) # 0 /\ DOMAIN rules = 1..Len(rules)
    BY DEF TypeInv, Fills
  <1>2. /\ After(row)[0] = [row |-> row, drop |-> FALSE]
        /\ \A k \in 1..Len(rules) : After(row)[k] = Pass(After(row)[k - 1], rules[k])
    BY <1>1, AfterUnfolds
  <1>3. \A k \in 1..Len(rules) : rules[k].op # "drop_null"
    BY <1>1 DEF Fills, Has
  <1> DEFINE S == {k \in 0..Len(rules) : ~After(row)[k].drop}
  <1>4. 0 \in S
    <2>1. ~After(row)[0].drop
      BY <1>2
    <2>2. QED
      BY <1>1, <2>1
  <1>5. ASSUME NEW k \in 1..Len(rules), k - 1 \in S
        PROVE  k \in S
    <2> DEFINE s == After(row)[k - 1]
    <2>1. ~s.drop
      BY <1>5
    <2>2. After(row)[k] = Pass(s, rules[k])
      BY <1>2
    <2> HIDE DEF s
    <2>3. After(row)[k].drop <=> Drops(rules[k], s.row)
      BY <2>1, <2>2 DEF Pass
    <2>4. ~Drops(rules[k], s.row)
      BY <1>3 DEF Drops
    <2>5. QED
      BY <1>1, <2>3, <2>4
  <1> HIDE DEF S
  <1>6. \A k \in 0..Len(rules) : k \in S
    <2>1. 0 \in Nat /\ \A k \in (0 + 1)..Len(rules) : k - 1 \in S => k \in S
      BY <1>5
    <2>2. QED
      BY <1>1, <1>4, <2>1, InductUp
  <1>7. ~Clean(row).drop
    BY <1>1, <1>6 DEF S, Clean
  <1> DEFINE x == After(row)[Len(rules) - 1].row
  <1>8. Clean(row).row = ApplyRule(Last, x)
    <2>1. Len(rules) \in 1..Len(rules) /\ Len(rules) - 1 \in 0..Len(rules)
      BY <1>1
    <2>2. ~After(row)[Len(rules) - 1].drop
      BY <1>6, <2>1 DEF S
    <2>3. Clean(row) = Pass(After(row)[Len(rules) - 1], Last)
      BY <1>2, <2>1 DEF Clean, Last
    <2>4. QED
      BY <2>2, <2>3 DEF Pass
  <1> HIDE DEF x
  <1>9. ApplyRule(Last, x) = [c \in DOMAIN x |-> IF c \in Reach(Last, x) /\ x[c] \in Nulls
                                                 THEN FillValue(Last, c) ELSE x[c]]
    BY DEF ApplyRule, Fills
  <1>10. Reach(Last, ApplyRule(Last, x)) = Reach(Last, x) /\ Reach(Last, x) \subseteq DOMAIN x
    BY <1>9 DEF Reach
  <1>11. \A c : FillValue(Last, c) \notin Nulls
    <2> TAKE c
    <2>1. ModeOf(c) \in Values \cup {Empty}
      BY DEF ModesInv, ModeOf
    <2>2. FillValue(Last, c) \in Values
      BY <2>1, ValuesAssumption DEF FillValue, Fills
    <2>3. QED
      BY <2>2, ValuesAssumption
  <1>12. Full(ApplyRule(Last, x))
    BY <1>9, <1>10, <1>11 DEF Full
  <1>13. QED
    BY <1>7, <1>8, <1>12

LEMMA SweepFills ==
  ASSUME TypeInv, ModesInv, Fills, start < Len(Records), NEW m \in start..ChunkEnd
  PROVE  /\ Len(Sweep[m].kept) = m - start
         /\ \A i \in 1..(m - start) : Sweep[m].kept[i] = Records[start + i]
         /\ \A r \in RowIds : Full(heap[r]) => Full(Sweep[m].heap[r])
         /\ \A j \in (start + 1)..m : Full(Sweep[m].heap[Records[j]])
  <1> DEFINE Good(k) ==
         /\ Len(Sweep[k].kept) = k - start
         /\ \A i \in 1..(k - start) : Sweep[k].kept[i] = Records[start + i]
         /\ \A r \in RowIds : Full(heap[r]) => Full(Sweep[k].heap[r])
         /\ \A j \in (start + 1)..k : Full(Sweep[k].heap[Records[j]])
  <1> DEFINE S == {k \in start..ChunkEnd : Good(k)}
  <1>1. start \in Nat /\ ChunkEnd \in Nat /\ start <= ChunkEnd /\ ChunkEnd <= Len(Records)
    BY EndBounds DEF TypeInv
  <1>2. /\ Sweep[start] = [heap |-> heap, kept |-> <<>>]
        /\ \A k \in (start + 1)..ChunkEnd : Sweep[k] = CleanRecord(Sweep[k - 1], Records[k])
    BY <1>1, SweepUnfolds
  <1>3. start \in S
    <2>1. Sweep[start].heap = heap /\ Sweep[start].kept = <<>> /\ Len(<<>>) = 0
      BY <1>2
    <2>2. start - start = 0 /\ (start + 1)..start = {} /\ 1..0 = {} /\ start \in start..ChunkEnd
      BY <1>1
    <2>3. QED
      BY <2>1, <2>2
  <1>4. ASSUME NEW k \in (start + 1)..ChunkEnd, k - 1 \in S
        PROVE  k \in S
    <2> DEFINE s == Sweep[k - 1]
               t == Sweep[k]
               r == Records[k]
    <2>1. k \in 1..Len(Records) /\ k \in Int /\ k - 1 \in start..ChunkEnd /\ k \in start..ChunkEnd
      <3>1. Len(Records) \in Nat
        BY WorkType
      <3>2. QED
        BY <1>1, <3>1
    <2>2. r \in RowIds /\ \A j \in 1..Len(Records) : Records[j] \in RowIds
      BY <2>1, WorkType
    <2>3. s.heap = [q \in RowIds |-> s.heap[q]] /\ s.kept \in Seq(RowIds)
      BY <2>1, SweepBasics DEF SweepIs
    <2>4. t = CleanRecord(s, r)
      BY <1>2
    <2>5. Good(k - 1)
      BY <1>4
    <2>6. /\ Len(s.kept) = k - 1 - start
          /\ \A i \in 1..(k - 1 - start) : s.kept[i] = Records[start + i]
          /\ \A q \in RowIds : Full(heap[q]) => Full(s.heap[q])
          /\ \A j \in (start + 1)..(k - 1) : Full(s.heap[Records[j]])
      BY <2>5
    <2> HIDE DEF s, t, r, Good
    <2>7. t.heap = [s.heap EXCEPT ![r] = Clean(s.heap[r]).row] /\ t.kept = Append(s.kept, r)
      BY <2>4, CleanFills DEF CleanRecord
    <2>8. Full(t.heap[r]) /\ \A q \in RowIds : Full(s.heap[q]) => Full(t.heap[q])
      BY <2>2, <2>3, <2>7, CleanFills
    <2>9. Len(t.kept) = k - start /\ \A i \in 1..(k - start) : t.kept[i] = Records[start + i]
      <3>1. Len(t.kept) = k - start
        BY <1>1, <2>1, <2>2, <2>3, <2>6, <2>7
      <3>2. ASSUME NEW i \in 1..(k - start) PROVE t.kept[i] = Records[start + i]
        <4>1. CASE i = k - start
          <5>1. t.kept[i] = r /\ start + i = k
            BY <1>1, <2>1, <2>2, <2>3, <2>6, <2>7, <4>1
          <5>2. QED
            BY <5>1 DEF r
        <4>2. CASE i # k - start
          <5>1. i \in 1..(k - 1 - start)
            BY <1>1, <2>1, <4>2
          <5>2. t.kept[i] = s.kept[i]
            BY <2>2, <2>3, <2>6, <2>7, <5>1
          <5>3. QED
            BY <2>6, <5>1, <5>2
        <4>3. QED
          BY <4>1, <4>2
      <3>3. QED
        BY <3>1, <3>2
    <2>10. ASSUME NEW j \in (start + 1)..k PROVE Full(t.heap[Records[j]])
      <3>1. CASE j = k
        BY <2>8, <3>1 DEF r
      <3>2. CASE j # k
        <4>1. j \in (start + 1)..(k - 1) /\ j \in 1..Len(Records)
          BY <1>1, <2>1, <3>2
        <4>2. QED
          BY <2>2, <2>6, <2>8, <4>1
      <3>3. QED
        BY <3>1, <3>2
    <2>11. Good(k)
      BY <2>6, <2>8, <2>9, <2>10 DEF Good, t
    <2>12. QED
      BY <2>1, <2>11
  <1> HIDE DEF S, Good
  <1>5. \A k \in start..ChunkEnd : k \in S
    BY <1>1, <1>3, <1>4, InductUp
  <1>6. m \in S
    BY <1>5
  <1>7. QED
    BY <1>6 DEF S, Good

LEMMA FullStays ==
  ASSUME rules' = rules, Work.columns' = Work.columns
  PROVE  \A row : Full(row)' <=> Full(row)
  <1>1. ASSUME NEW rule, NEW row PROVE Reach(rule, row)' = Reach(rule, row)
    BY DEF Reach
  <1>2. Last' = Last
    BY DEF Last
  <1>3. QED
    BY <1>1, <1>2, Zenon DEF Full

LEMMA ModesInvNext ==
  ASSUME ModesInv, [Next]_vars
  PROVE  ModesInv'
  <1>1. CASE Begin
    <2>1. PICK filled : modes' \in [filled -> Values \cup {Empty}]
      BY <1>1, Zenon DEF Begin
    <2>2. QED
      BY <2>1 DEF ModesInv
  <1>2. CASE UNCHANGED modes
    BY <1>2 DEF ModesInv
  <1>3. QED
    BY <1>1, <1>2 DEF Next, Chunk, Cancel, Finish, Retry, vars

LEMMA FillInvNext ==
  ASSUME BaseInv, ModesInv, FillInv, [Next]_vars
  PROVE  FillInv'
  <1> SUFFICES ASSUME Fills', pc' \in {"cleaning", "done"}
               PROVE  /\ skipped' = 0
                      /\ pc' = "done" => Len(Records') <= start'
                      /\ \A k \in 1..Len(Records') : k <= start' => Full(heap[Records[k]])'
    BY DEF FillInv
  <1>1. rules' = rules /\ skipNulls' = skipNulls
    BY DEF Next, Begin, Chunk, Cancel, Finish, Retry, vars, params
  <1>2. Fills
    BY <1>1 DEF Fills, Last, Has
  <1>3. Len(Records) \in Nat /\ start \in Nat
    BY WorkType DEF BaseInv, TypeInv
  <1>4. CASE Begin
    <2>1. pc' = "cleaning" /\ start' = 0 /\ skipped' = 0
      BY <1>4, BeginEffect
    <2>2. \A k \in 1..Len(Records') : ~(k <= start')
      BY <2>1
    <2>3. QED
      BY <2>1, <2>2
  <1>5. CASE Chunk
    <2> DEFINE kept == Sweep[ChunkEnd].kept
    <2>1. /\ start < Len(Records) /\ pc = "cleaning" /\ pc' = "cleaning"
          /\ Work.columns' = Work.columns /\ Len(Records') = Len(Records)
          /\ heap' = Sweep[ChunkEnd].heap
          /\ \A k \in 1..Len(Records) :
               Records'[k] = IF k - start \in 1..Len(kept) THEN kept[k - start] ELSE Records[k]
      BY <1>5, ChunkEffect DEF BaseInv
    <2>2. /\ ChunkEnd \in Nat /\ start < ChunkEnd /\ ChunkEnd <= Len(Records)
          /\ ChunkEnd = start + ChunkSize \/ ChunkEnd = Len(Records)
          /\ ChunkEnd <= start + ChunkSize /\ ChunkEnd \in start..ChunkEnd
      <3>1. /\ ChunkEnd \in Nat /\ start < ChunkEnd /\ ChunkEnd <= Len(Records)
            /\ ChunkEnd = start + ChunkSize \/ ChunkEnd = Len(Records)
            /\ ChunkEnd <= start + ChunkSize
        BY <2>1, EndBounds DEF BaseInv
      <3>2. QED
        BY <1>3, <3>1
    <2>3. /\ Len(kept) = ChunkEnd - start
          /\ \A i \in 1..(ChunkEnd - start) : kept[i] = Records[start + i]
          /\ \A r \in RowIds : Full(heap[r]) => Full(Sweep[ChunkEnd].heap[r])
          /\ \A j \in (start + 1)..ChunkEnd : Full(Sweep[ChunkEnd].heap[Records[j]])
      BY <1>2, <2>1, <2>2, SweepFills DEF BaseInv
    <2>4. skipped' = 0 /\ start' = start + ChunkSize
      <3>1. skipped = 0
        BY <1>2, <2>1 DEF FillInv
      <3>2. skipped' = skipped + (ChunkEnd - start - Len(kept)) /\ start' = start + ChunkSize
        BY <1>5 DEF Chunk
      <3> HIDE DEF kept
      <3>3. QED
        BY <1>3, <2>2, <2>3, <3>1, <3>2
    <2> HIDE DEF kept
    <2>5. \A k \in 1..Len(Records) : Records'[k] = Records[k]
      <3> SUFFICES ASSUME NEW k \in 1..Len(Records) PROVE Records'[k] = Records[k]
        OBVIOUS
      <3>1. CASE k - start \in 1..Len(kept)
        <4>1. start + (k - start) = k
          BY <1>3
        <4>2. QED
          BY <2>1, <2>3, <3>1, <4>1
      <3>2. CASE k - start \notin 1..Len(kept)
        BY <2>1, <3>2
      <3>3. QED
        BY <3>1, <3>2
    <2>6. ASSUME NEW k \in 1..Len(Records), k <= start'
          PROVE  Full(heap'[Records[k]])
      <3>1. k <= ChunkEnd /\ SizesAssumption
        BY <1>3, <2>2, <2>4, <2>6, SizesAssumption
      <3>2. CASE k <= start
        <4>1. Full(heap[Records[k]]) /\ Records[k] \in RowIds
          BY <1>2, <2>1, <3>2, WorkType DEF FillInv, BaseInv
        <4>2. QED
          BY <2>1, <2>3, <4>1
      <3>3. CASE start < k
        <4>1. k \in (start + 1)..ChunkEnd
          BY <1>3, <2>2, <3>1, <3>3
        <4>2. QED
          BY <2>1, <2>3, <4>1
      <3>4. QED
        BY <1>3, <3>2, <3>3
    <2>7. \A row : Full(row)' <=> Full(row)
      BY <1>1, <2>1, FullStays
    <2>8. QED
      BY <2>1, <2>4, <2>5, <2>6, <2>7
  <1>6. CASE Finish
    <2>1. /\ pc = "cleaning" /\ Len(Records) <= start /\ start' = start /\ heap' = heap
          /\ Work.columns' = Work.columns /\ skipped' = skipped
          /\ Len(Records') = (IF skipped = 0 THEN Len(Records)
                              ELSE IF processed > 0 THEN processed ELSE 1)
          /\ \A k \in 1..Len(Records') : Records'[k] = Records[k]
      BY <1>6, FinishEffect
    <2>2. /\ skipped = 0
          /\ \A k \in 1..Len(Records) : k <= start => Full(heap[Records[k]])
      BY <1>2, <2>1 DEF FillInv
    <2>3. \A row : Full(row)' <=> Full(row)
      BY <1>1, <2>1, FullStays
    <2>4. QED
      BY <2>1, <2>2, <2>3
  <1>7. CASE Cancel \/ Retry
    BY <1>7 DEF Cancel, Retry
  <1>8. CASE UNCHANGED vars
    <2>1. /\ pc' = pc /\ start' = start /\ heap' = heap /\ skipped' = skipped
          /\ data' = data /\ createCopy' = createCopy
      BY <1>8 DEF vars, params
    <2>2. Records' = Records /\ Work.columns' = Work.columns
      BY <2>1 DEF Records, Work, Target
    <2>3. \A row : Full(row)' <=> Full(row)
      BY <1>1, <2>2, FullStays
    <2>4. QED
      BY <1>2, <2>1, <2>2, <2>3 DEF FillInv
  <1>9. QED
    BY <1>4, <1>5, <1>6, <1>7, <1>8 DEF Next

\* Once a job is done a column its last rule fills has no missing value left, for
\* any rules before that one that drop no rows, and whatever earlier attempts,
\* cut off between two chunks, had made of the rows, unless the value it is given
\* is itself a null text (etl_clean.go:397-455).
THEOREM FilledInTheEnd == Spec => []FilledAfterRetries
  <1>1. Init => FillInv /\ ModesInv
    BY DEF Init, FillInv, ModesInv
  <1>2. BaseInv /\ FillInv => FilledAfterRetries
    <2> SUFFICES ASSUME BaseInv, FillInv, pc = "done", ~skipNulls, ~Has("drop_null"),
                        rules # <<>>, Last.op = "fill_null",
                        Last.value \in Values \cup {Empty},
                        NEW k \in DOMAIN Result, NEW c \in Reach(Last, Result[k])
                 PROVE  Result[k][c] \notin Nulls
      BY DEF FilledAfterRetries, Last
    <2>1. Fills
      BY DEF Fills
    <2>2. DOMAIN Result = 1..Len(Records) /\ Result[k] = heap[Records[k]]
      BY WorkType DEF Result, Deref, BaseInv
    <2>3. k \in 1..Len(Records) /\ k <= start
      <3>1. Len(Records) <= start /\ Len(Records) \in Nat /\ start \in Nat
        BY <2>1, WorkType DEF FillInv, BaseInv, TypeInv
      <3>2. QED
        BY <2>2, <3>1
    <2>4. Full(Result[k])
      BY <2>1, <2>2, <2>3 DEF FillInv
    <2>5. QED
      BY <2>4 DEF Full
  <1>3. QED
    BY <1>1, <1>2, TypesHold, ModesInvNext, FillInvNext, PTL DEF Spec

-----------------------------------------------------------------------------
(* The result of a fresh run                                               *)

\* The rows a fresh run works on are the source's, or the clone's after them.
Base == IF createCopy THEN N ELSE 0

\* The antecedent of the property, for the rows before m.
AllKept(m) == \A k \in 1..m : Survives(Input[k])
LastChunk == ((Size - 1) \div ChunkSize) * ChunkSize

\* Rows up to start are cleaned and the others as the run found them; as many are
\* counted as processed as survive; and while none was dropped before the last
\* chunk the survivors stand in front, in their order.
FreshInv ==
    /\ attempt = 0 => /\ pc = "idle" /\ data["src"].columns = Columns
                      /\ data["src"].records = [k \in 1..Size |-> k]
                      /\ \A k \in 1..Size : heap[k] = original[k]
    /\ pc = "cleaning" /\ Fresh =>
          /\ Len(Records) = Size
          /\ \E q \in Nat : start = q * ChunkSize
          /\ \A k \in 1..Size :
                heap[Base + k] = IF k <= start THEN Clean(Input[k]).row ELSE Input[k]
          /\ processed = Cardinality(Kept(IF start < Size THEN start ELSE Size))
          /\ \A k \in 1..Size : k > start => Records[k] = Base + k
          /\ AllKept(LastChunk) =>
                \A k \in 1..Size : k <= start /\ Survives(Input[k]) =>
                    Records[Cardinality(Kept(k))] = Base + k

LEMMA KeptFinite ==
  ASSUME NEW m \in Nat
  PROVE  /\ IsFiniteSet(Kept(m)) /\ Cardinality(Kept(m)) \in Nat /\ Cardinality(Kept(m)) <= m
         /\ Kept(0) = {} /\ Cardinality(Kept(0)) = 0
  <1>1. IsFiniteSet(1..m) /\ Cardinality(1..m) = m
    <2>1. 1 \in Int /\ m \in Int /\ (IF 1 > m THEN 0 ELSE m - 1 + 1) = m
      OBVIOUS
    <2>2. IsFiniteSet(1..m) /\ Cardinality(1..m) = IF 1 > m THEN 0 ELSE m - 1 + 1
      BY <2>1, FS_Interval
    <2>3. QED
      BY <2>1, <2>2
  <1>2. Kept(m) \in SUBSET (1..m)
    BY DEF Kept
  <1>3. IsFiniteSet(Kept(m)) /\ Cardinality(Kept(m)) <= m
    BY <1>1, <1>2, FS_Subset
  <1>4. Kept(0) = {}
    BY DEF Kept
  <1>5. QED
    BY <1>3, <1>4, FS_CardinalityType, FS_EmptySet

LEMMA KeptStep ==
  ASSUME NEW k \in Nat \ {0}
  PROVE  Cardinality(Kept(k)) = IF Survives(Input[k]) THEN Cardinality(Kept(k - 1)) + 1
                                ELSE Cardinality(Kept(k - 1))
  <1>1. k - 1 \in Nat /\ IsFiniteSet(Kept(k - 1))
    BY KeptFinite
  <1>2. k \notin Kept(k - 1)
    BY DEF Kept
  <1>3. CASE Survives(Input[k])
    <2>1. Kept(k) = Kept(k - 1) \cup {k}
      BY <1>3 DEF Kept
    <2>2. QED
      BY <1>1, <1>2, <1>3, <2>1, FS_AddElement
  <1>4. CASE ~Survives(Input[k])
    <2>1. Kept(k) = Kept(k - 1)
      BY <1>4 DEF Kept
    <2>2. QED
      BY <1>4, <2>1
  <1>5. QED
    BY <1>3, <1>4

\* When no row is dropped the count is the number of the row.
LEMMA KeptAll ==
  ASSUME NEW m \in Nat, AllKept(m)
  PROVE  \A k \in 0..m : Cardinality(Kept(k)) = k
  <1>1. ASSUME NEW k \in 0..m PROVE Kept(k) = 1..k
    BY DEF Kept, AllKept
  <1>2. ASSUME NEW k \in 0..m PROVE Cardinality(1..k) = k
    <2>1. 1 \in Int /\ k \in Int /\ (IF 1 > k THEN 0 ELSE k - 1 + 1) = k
      OBVIOUS
    <2>2. Cardinality(1..k) = IF 1 > k THEN 0 ELSE k - 1 + 1
      BY <2>1, FS_Interval
    <2>3. QED
      BY <2>1, <2>2
  <1>3. QED
    BY <1>1, <1>2

LEMMA KeptGrows ==
  ASSUME NEW a \in Nat, NEW b \in Nat, a <= b
  PROVE  Cardinality(Kept(a)) <= Cardinality(Kept(b))
  <1>1. Kept(a) \in SUBSET Kept(b) /\ IsFiniteSet(Kept(b))
    BY KeptFinite DEF Kept
  <1>2. QED
    BY <1>1, FS_Subset

\* A row of the chunk that survives goes behind those of the chunk that survived
\* before it.
SweepFresh(k) ==
    LET s == Sweep[k]  before == Cardinality(Kept(start)) IN
    /\ Len(s.kept) = Cardinality(Kept(k)) - before
    /\ \A j \in (start + 1)..k : Survives(Input[j]) =>
          s.kept[Cardinality(Kept(j)) - before] = Base + j
    /\ \A j \in 1..Size :
          s.heap[Base + j] = IF start < j /\ j <= k THEN Clean(Input[j]).row ELSE heap[Base + j]

LEMMA SweepFreshHolds ==
  ASSUME BaseInv, FreshInv, pc = "cleaning", Fresh, start < Len(Records)
  PROVE  \A k \in start..ChunkEnd : SweepFresh(k)
  <1> DEFINE before == Cardinality(Kept(start))
             S == {k \in start..ChunkEnd : SweepFresh(k)}
  <1>1. /\ start \in Nat /\ ChunkEnd \in Nat /\ start <= ChunkEnd /\ ChunkEnd <= Size
        /\ Size \in 0..N /\ N \in Nat /\ Len(Records) = Size
    <2>1. Size \in 0..N /\ N \in Nat
      BY SourceType DEF BaseInv, TypeInv
    <2>2. QED
      BY <2>1, EndBounds DEF BaseInv, TypeInv, FreshInv
  <1>2. /\ Sweep[start] = [heap |-> heap, kept |-> <<>>]
        /\ \A k \in (start + 1)..ChunkEnd : Sweep[k] = CleanRecord(Sweep[k - 1], Records[k])
    BY <1>1, SweepUnfolds
  <1>3. before \in Nat
    BY <1>1, KeptFinite
  <1>4. Base \in {0, N} /\ \A j \in 1..Size : Base + j \in RowIds
    BY <1>1 DEF Base, RowIds
  <1>5. start \in S
    <2>1. Sweep[start].heap = heap /\ Sweep[start].kept = <<>> /\ Len(<<>>) = 0
      BY <1>2
    <2>2. /\ before - before = 0 /\ start \in start..ChunkEnd
          /\ \A j \in (start + 1)..start : FALSE
          /\ \A j \in 1..Size : ~(start < j /\ j <= start)
      BY <1>1, <1>3
    <2>3. SweepFresh(start)
      BY <2>1, <2>2, Zenon DEF SweepFresh
    <2>4. QED
      BY <2>2, <2>3
  <1>6. ASSUME NEW k \in (start + 1)..ChunkEnd, k - 1 \in S
        PROVE  k \in S
    <2> DEFINE s == Sweep[k - 1]
               t == Sweep[k]
               r == Base + k
               c == Clean(Input[k])
    <2>1. /\ k \in 1..Size /\ k \in Nat \ {0} /\ k - 1 \in Nat /\ k - 1 \in start..ChunkEnd
          /\ k \in start..ChunkEnd /\ start <= k - 1 /\ start < k
      BY <1>1
    <2>2. Records[k] = r /\ r \in RowIds
      BY <1>4, <2>1 DEF FreshInv
    <2>3. s.heap = [q \in RowIds |-> s.heap[q]] /\ s.kept \in Seq(RowIds)
      <3>1. SweepIs(k - 1)
        BY <2>1, SweepBasics DEF BaseInv
      <3>2. QED
        BY <3>1 DEF SweepIs
    <2>4. /\ Len(s.kept) = Cardinality(Kept(k - 1)) - before
          /\ \A j \in (start + 1)..(k - 1) : Survives(Input[j]) =>
                s.kept[Cardinality(Kept(j)) - before] = Base + j
          /\ \A j \in 1..Size :
                s.heap[Base + j] = IF start < j /\ j <= k - 1 THEN Clean(Input[j]).row
                                   ELSE heap[Base + j]
      BY <1>6 DEF SweepFresh
    <2>5. s.heap[r] = Input[k]
      <3>1. ~(k <= k - 1) /\ ~(k <= start)
        BY <1>1, <2>1
      <3>2. heap[r] = Input[k]
        BY <2>1, <3>1 DEF FreshInv
      <3>3. QED
        BY <2>1, <2>4, <3>1, <3>2
    <2>6. t = CleanRecord(s, r)
      BY <1>2, <2>2
    <2> HIDE DEF s, t
    <2>7. /\ t.heap = [s.heap EXCEPT ![r] = c.row]
          /\ t.kept = IF c.drop THEN s.kept ELSE Append(s.kept, r)
      BY <2>5, <2>6 DEF CleanRecord
    <2> DEFINE a == Cardinality(Kept(k - 1))
               b == Cardinality(Kept(k))
    <2>8. /\ b = (IF c.drop THEN a ELSE a + 1) /\ a \in Nat /\ b \in Nat
          /\ Survives(Input[k]) <=> ~c.drop
      BY <2>1, KeptStep, KeptFinite DEF Survives
    <2> HIDE DEF a, b, before, c, r
    <2>9. Len(t.kept) = b - before
      BY <1>3, <2>2, <2>3, <2>4, <2>7, <2>8 DEF a
    <2>10. ASSUME NEW j \in (start + 1)..k, Survives(Input[j])
           PROVE  t.kept[Cardinality(Kept(j)) - before] = Base + j
      <3>1. CASE j = k
        <4>1. t.kept = Append(s.kept, r) /\ b = a + 1
          BY <2>7, <2>8, <2>10, <3>1
        <4>2. Len(s.kept) + 1 = b - before /\ Len(s.kept) \in Nat
          <5>1. Len(s.kept) = a - before
            BY <2>4 DEF a
          <5>2. Len(s.kept) \in Nat
            BY <2>3
          <5>3. QED
            BY <1>3, <2>8, <4>1, <5>1, <5>2
        <4>3. t.kept[b - before] = r
          BY <2>2, <2>3, <4>1, <4>2
        <4>4. QED
          BY <3>1, <4>3 DEF b, r
      <3>2. CASE j # k
        <4>1. j \in (start + 1)..(k - 1) /\ j \in Nat \ {0} /\ j - 1 \in Nat /\ start <= j - 1
          BY <1>1, <2>1, <3>2
        <4> DEFINE i == Cardinality(Kept(j)) - before
        <4>2. s.kept[i] = Base + j
          BY <2>4, <2>10, <4>1
        <4>3. i \in 1..Len(s.kept)
          <5>1. Cardinality(Kept(j)) = Cardinality(Kept(j - 1)) + 1
            BY <2>10, <4>1, KeptStep
          <5>2. before <= Cardinality(Kept(j - 1)) /\ Cardinality(Kept(j - 1)) \in Nat
            BY <1>1, <4>1, KeptGrows, KeptFinite DEF before
          <5>3. Cardinality(Kept(j)) <= a
            BY <2>1, <4>1, KeptGrows DEF a
          <5>4. QED
            BY <1>3, <2>4, <2>8, <5>1, <5>2, <5>3 DEF a
        <4> HIDE DEF i
        <4>4. t.kept[i] = s.kept[i]
          BY <2>2, <2>3, <2>7, <4>3
        <4>5. QED
          BY <4>2, <4>4 DEF i
      <3>3. QED
        BY <3>1, <3>2
    <2>11. ASSUME NEW j \in 1..Size
           PROVE  t.heap[Base + j] = IF start < j /\ j <= k THEN Clean(Input[j]).row
                                     ELSE heap[Base + j]
      <3>1. Base + j \in RowIds
        BY <1>4
      <3>2. CASE j = k
        BY <2>1, <2>2, <2>3, <2>7, <3>1, <3>2 DEF c, r
      <3>3. CASE j # k
        <4>1. Base + j # r
          BY <1>1, <1>4, <2>1, <3>3 DEF r
        <4>2. t.heap[Base + j] = s.heap[Base + j]
          BY <2>3, <2>7, <3>1, <4>1
        <4>3. j <= k - 1 <=> j <= k
          BY <1>1, <2>1, <3>3
        <4>4. QED
          BY <2>4, <4>2, <4>3
      <3>4. QED
        BY <3>2, <3>3
    <2>12. SweepFresh(k)
      BY <2>9, <2>10, <2>11, Zenon DEF SweepFresh, t, b, before
    <2>13. QED
      BY <2>1, <2>12
  <1> HIDE DEF S
  <1>7. \A k \in start..ChunkEnd : k \in S
    BY <1>1, <1>5, <1>6, InductUp
  <1>8. QED
    BY <1>7 DEF S

\* What a fresh run begins with: the rows of the source without the columns it drops.
LEMMA BeginFresh ==
  ASSUME BaseInv, SourceInv, FreshInv, Begin, Fresh'
  PROVE  /\ Len(Records') = Size /\ \A k \in 1..Size : Records'[k] = Base + k
         /\ \A k \in 1..Size : heap'[Base + k] = Input'[k]
  <1>1. Size \in 0..N /\ N \in Nat /\ createCopy \in BOOLEAN /\ attempt \in Nat
    BY SourceType DEF BaseInv, TypeInv
  <1>2. createCopy' = createCopy /\ original' = original /\ Size' = Size /\ attempt' = attempt + 1
    BY BeginEffect DEF params, Size
  <1>3. ~createCopy => attempt = 0
    BY <1>1, <1>2 DEF Fresh
  <1>4. /\ data["src"].columns = Columns /\ data["src"].records = [k \in 1..Size |-> k]
        /\ \A k \in 1..Size : heap[k] = original[k]
    BY <1>3 DEF FreshInv, SourceInv, BaseInv, SizeInv
  <1>5. Taken.columns = Columns /\ Taken.records = [k \in 1..Size |-> Base + k]
    <2>1. CASE createCopy
      BY <1>4, <2>1 DEF Taken, CloneRows, Base
    <2>2. CASE ~createCopy
      BY <1>4, <2>2 DEF Taken, Base
    <2>3. QED
      BY <2>1, <2>2
  <1>6. /\ Records' = Taken.records /\ Work.columns' \in SUBSET Columns
        /\ Taken.records \in Seq(RowIds)
    BY <1>5, BeginEffect, TakenType DEF BaseInv
  <1>7. Len(Records') = Size /\ \A k \in 1..Size : Records'[k] = Base + k
    BY <1>1, <1>5, <1>6
  <1>8. ASSUME NEW k \in 1..Size
        PROVE  heap'[Base + k] = Input'[k]
    <2> DEFINE was == IF createCopy /\ (Base + k) - N \in DOMAIN data["src"].records
                      THEN heap[data["src"].records[(Base + k) - N]] ELSE heap[Base + k]
    <2>1. Base + k \in RowIds
      BY <1>1 DEF Base, RowIds
    <2>2. \E m \in DOMAIN Taken.records : Taken.records[m] = Base + k
      BY <1>5
    <2>3. heap'[Base + k] = [c \in DOMAIN was \ (Columns \ Work.columns') |-> was[c]]
      BY <1>5, <2>1, <2>2, BeginEffect
    <2>4. was = original[k]
      <3>1. CASE createCopy
        <4>1. (Base + k) - N = k
          BY <1>1, <3>1 DEF Base
        <4>2. QED
          BY <1>4, <3>1, <4>1
      <3>2. CASE ~createCopy
        <4>1. Base + k = k
          BY <1>1, <3>2 DEF Base
        <4>2. QED
          BY <1>4, <3>2, <4>1
      <3>3. QED
        BY <3>1, <3>2
    <2> HIDE DEF was
    <2>5. DOMAIN was = Columns
      BY <2>4, SourceType DEF BaseInv, TypeInv
    <2>6. DOMAIN was \ (Columns \ Work.columns') = Work.columns'
      BY <1>6, <2>5
    <2>7. heap'[Base + k] = [c \in Work.columns' |-> original[k][c]]
      BY <2>3, <2>4, <2>6
    <2>8. Input'[k] = [c \in Work.columns' |-> original[k][c]]
      BY <1>2 DEF Input
    <2>9. QED
      BY <2>7, <2>8
  <1>9. QED
    BY <1>7, <1>8

\* While a run goes on, what it will make of each row stays the same.
LEMMA FreshStays ==
  ASSUME UNCHANGED <<params, modes>>, Work.columns' = Work.columns
  PROVE  /\ Input' = Input /\ Size' = Size /\ Base' = Base /\ LastChunk' = LastChunk
         /\ \A row : Clean(row)' = Clean(row)
         /\ \A row : Survives(row)' <=> Survives(row)
         /\ \A m : Kept(m)' = Kept(m) /\ (AllKept(m)' <=> AllKept(m))
  <1>1. Input' = Input /\ Size' = Size /\ Base' = Base /\ LastChunk' = LastChunk
    BY DEF params, Input, Size, Base, LastChunk
  <1>2. \A row : Clean(row)' = Clean(row)
    BY CleanStays DEF params
  <1>3. \A row : Survives(row)' <=> Survives(row)
    BY <1>2, Zenon DEF Survives
  <1>4. ASSUME NEW m PROVE Kept(m)' = Kept(m)
    BY <1>1, <1>3 DEF Kept
  <1>5. ASSUME NEW m PROVE AllKept(m)' <=> AllKept(m)
    BY <1>1, <1>3 DEF AllKept
  <1>6. QED
    BY <1>1, <1>2, <1>3, <1>4, <1>5, Zenon

\* The last chunk starts where the rest of the rows fits in one.
LEMMA ChunkStarts ==
  ASSUME NEW s \in Nat, NEW q \in Nat, NEW z \in Nat, NEW m \in Nat \ {0},
         s = q * m, s < z
  PROVE  s <= ((z - 1) \div m) * m
  <1>1. (z - 1) \div m \in Nat /\ z - 1 < ((z - 1) \div m + 1) * m
    <2>1. \A x \in Nat : x \div m \in Nat /\ x = (x \div m) * m + (x % m) /\ x % m \in 0..(m - 1)
      BY Z3
    <2>2. QED
      BY <2>1
  <1> DEFINE d == (z - 1) \div m
  <1> HIDE DEF d
  <1>2. d \in Nat /\ q * m < (d + 1) * m
    BY <1>1 DEF d
  <1>3. q < d + 1
    <2>1. \A x, y \in Nat : y <= x => y * m <= x * m
      BY SMT
    <2>2. QED
      BY <1>2, <2>1
  <1>4. \A x, y \in Nat : x <= y => x * m <= y * m
    BY SMT
  <1>5. QED
    BY <1>2, <1>3, <1>4 DEF d

LEMMA FreshInvInit == Init => FreshInv
  <1> SUFFICES ASSUME Init PROVE FreshInv
    OBVIOUS
  <1>1. Size \in 0..N /\ N \in Nat /\ DOMAIN original = 1..Size
    BY SourceType DEF Init
  <1>2. \A k \in 1..Size : heap[k] = original[k]
    BY <1>1 DEF Init, RowIds, Size
  <1>3. data["src"] = [columns |-> Columns, records |-> [k \in 1..Size |-> k]]
    BY <1>1 DEF Init
  <1>4. pc = "idle"
    BY DEF Init
  <1>5. QED
    BY <1>2, <1>3, <1>4 DEF FreshInv

LEMMA FreshInvBegin ==
  ASSUME BaseInv, SourceInv, FreshInv, Begin
  PROVE  FreshInv'
  <1>1. /\ pc' = "cleaning" /\ start' = 0 /\ processed' = 0 /\ attempt' = attempt + 1
        /\ attempt \in Nat /\ Size' = Size /\ createCopy' = createCopy
    BY BeginEffect DEF BaseInv, TypeInv, params, Size
  <1>2. attempt' # 0 /\ Base' = Base
    BY <1>1 DEF Base
  <1>3. ASSUME Fresh'
        PROVE  /\ Len(Records') = Size'
               /\ \E q \in Nat : start' = q * ChunkSize
               /\ \A k \in 1..Size' :
                     heap'[Base' + k] = IF k <= start' THEN Clean(Input[k]).row' ELSE Input'[k]
               /\ processed' = Cardinality(Kept(IF start < Size THEN start ELSE Size))'
               /\ \A k \in 1..Size' : k > start' => Records'[k] = Base' + k
               /\ \A k \in 1..Size' : ~(k <= start')
    <2>1. /\ Len(Records') = Size /\ \A k \in 1..Size : Records'[k] = Base + k
          /\ \A k \in 1..Size : heap'[Base + k] = Input'[k]
      BY <1>3, BeginFresh
    <2>2. \A k \in 1..Size' : ~(k <= start')
      BY <1>1
    <2>3. start' = 0 * ChunkSize /\ 0 \in Nat
      BY <1>1, SizesAssumption
    <2>4. Size \in 0..N /\ N \in Nat
      BY SourceType DEF BaseInv, TypeInv
    <2>5. (IF start < Size THEN start ELSE Size)' = 0
      BY <1>1, <2>4
    <2>6. Kept(IF start < Size THEN start ELSE Size)' = {}
      <3>1. 1..0 = {}
        OBVIOUS
      <3>2. QED
        BY <2>5, <3>1 DEF Kept
    <2>7. processed' = Cardinality(Kept(IF start < Size THEN start ELSE Size))'
      BY <1>1, <2>6, FS_EmptySet
    <2>8. QED
      BY <1>1, <1>2, <2>1, <2>2, <2>3, <2>7
  <1>4. QED
    BY <1>1, <1>2, <1>3 DEF FreshInv

LEMMA FreshInvChunk ==
  ASSUME BaseInv, FreshInv, Chunk
  PROVE  FreshInv'
  <1> DEFINE kept == Sweep[ChunkEnd].kept
             before == Cardinality(Kept(start))
             next == IF start' < Size THEN start' ELSE Size
  <1>1. /\ start < Len(Records) /\ pc = "cleaning" /\ pc' = "cleaning"
        /\ Work.columns' = Work.columns /\ Len(Records') = Len(Records)
        /\ heap' = Sweep[ChunkEnd].heap
        /\ \A k \in 1..Len(Records) :
              Records'[k] = IF k - start \in 1..Len(kept) THEN kept[k - start] ELSE Records[k]
    BY ChunkEffect DEF BaseInv
  <1>2. UNCHANGED <<params, modes>> /\ attempt' = attempt
    BY DEF Chunk
  <1>3. /\ Input' = Input /\ Size' = Size /\ Base' = Base /\ LastChunk' = LastChunk
        /\ \A row : Clean(row)' = Clean(row)
        /\ \A row : Survives(row)' <=> Survives(row)
        /\ \A m : Kept(m)' = Kept(m) /\ (AllKept(m)' <=> AllKept(m))
    BY <1>1, <1>2, FreshStays
  <1>4. attempt' # 0
    BY <1>1, <1>2 DEF FreshInv
  <1>5. SUFFICES ASSUME Fresh
                 PROVE  /\ Len(Records') = Size
                        /\ \E q \in Nat : start' = q * ChunkSize
                        /\ \A k \in 1..Size :
                              heap'[Base + k] = IF k <= start' THEN Clean(Input[k]).row
                                                ELSE Input[k]
                        /\ processed' = Cardinality(Kept(next))
                        /\ \A k \in 1..Size : k > start' => Records'[k] = Base + k
                        /\ AllKept(LastChunk) =>
                              \A k \in 1..Size : k <= start' /\ Survives(Input[k]) =>
                                  Records'[Cardinality(Kept(k))] = Base + k
    <2>1. Fresh' => Fresh
      BY <1>2 DEF Fresh, params
    <2>2. (IF start < Size THEN start ELSE Size)' = next
      BY <1>3
    <2> HIDE DEF next
    <2>3. QED
      BY <1>3, <1>4, <1>5, <2>1, <2>2 DEF FreshInv
  <1>6. /\ Len(Records) = Size
        /\ \A k \in 1..Size :
              heap[Base + k] = IF k <= start THEN Clean(Input[k]).row ELSE Input[k]
        /\ processed = Cardinality(Kept(IF start < Size THEN start ELSE Size))
        /\ \A k \in 1..Size : k > start => Records[k] = Base + k
        /\ AllKept(LastChunk) =>
              \A k \in 1..Size : k <= start /\ Survives(Input[k]) =>
                  Records[Cardinality(Kept(k))] = Base + k
    BY <1>1, <1>5 DEF FreshInv
  <1>7. PICK q \in Nat : start = q * ChunkSize
    BY <1>1, <1>5 DEF FreshInv
  <1>8. /\ start \in Nat /\ Size \in Nat /\ ChunkEnd \in Nat /\ ChunkSize \in Nat \ {0}
        /\ start < ChunkEnd /\ ChunkEnd <= Size /\ ChunkEnd <= start + ChunkSize
        /\ ChunkEnd = start + ChunkSize \/ ChunkEnd = Size
        /\ start' = start + ChunkSize
    <2>1. Size \in Nat
      BY SourceType DEF BaseInv, TypeInv
    <2>2. start' = start + ChunkSize
      BY DEF Chunk
    <2>3. QED
      BY <1>1, <1>6, <2>1, <2>2, EndBounds, SizesAssumption DEF BaseInv, TypeInv
  <1>9. SweepFresh(ChunkEnd)
    <2>1. ChunkEnd \in start..ChunkEnd
      BY <1>8
    <2>2. QED
      BY <1>1, <1>5, <2>1, SweepFreshHolds
  <1>10. /\ Len(kept) = Cardinality(Kept(ChunkEnd)) - before
         /\ \A j \in (start + 1)..ChunkEnd : Survives(Input[j]) =>
               kept[Cardinality(Kept(j)) - before] = Base + j
         /\ \A j \in 1..Size :
               heap'[Base + j] = IF start < j /\ j <= ChunkEnd THEN Clean(Input[j]).row
                                 ELSE heap[Base + j]
    BY <1>1, <1>9 DEF SweepFresh
  <1>11. before \in Nat /\ Cardinality(Kept(ChunkEnd)) \in Nat /\ processed = before
    BY <1>1, <1>6, <1>8, KeptFinite
  <1>12. next = ChunkEnd
    BY <1>8
  <1>13. \A k \in 1..Size : k <= start' <=> k <= ChunkEnd
    BY <1>8
  <1>14. Len(kept) <= ChunkEnd - start /\ Len(kept) \in Nat
         /\ processed' = processed + Len(kept)
    BY ChunkEffect, ChunkCounted DEF BaseInv
  <1> HIDE DEF kept, before, next
  <1>15. \E p \in Nat : start' = p * ChunkSize
    <2>1. (q + 1) * ChunkSize = q * ChunkSize + ChunkSize /\ q + 1 \in Nat
      BY <1>8
    <2>2. QED
      BY <1>7, <1>8, <2>1
  <1>16. ASSUME NEW k \in 1..Size
         PROVE  heap'[Base + k] = IF k <= start' THEN Clean(Input[k]).row ELSE Input[k]
    <2>1. CASE k <= start
      BY <1>6, <1>8, <1>10, <1>13, <2>1
    <2>2. CASE start < k /\ k <= ChunkEnd
      BY <1>10, <1>13, <2>2
    <2>3. CASE ChunkEnd < k
      <3>1. ~(k <= start) /\ ~(k <= ChunkEnd)
        BY <1>8, <2>3
      <3>2. QED
        BY <1>6, <1>10, <1>13, <3>1
    <2>4. QED
      BY <1>8, <2>1, <2>2, <2>3
  <1>17. processed' = Cardinality(Kept(next))
    BY <1>10, <1>11, <1>12, <1>14
  <1>18. ASSUME NEW k \in 1..Size, k > start'
         PROVE  Records'[k] = Base + k
    <2>1. k > start /\ k - start \notin 1..Len(kept)
      BY <1>8, <1>14, <1>18
    <2>2. QED
      BY <1>1, <1>6, <2>1
  <1>19. ASSUME AllKept(LastChunk), NEW k \in 1..Size, k <= start', Survives(Input[k])
         PROVE  Records'[Cardinality(Kept(k))] = Base + k
    <2> DEFINE i == Cardinality(Kept(k))
    <2>1. start <= LastChunk
      BY <1>1, <1>6, <1>7, <1>8, ChunkStarts DEF LastChunk
    <2>2. AllKept(start)
      <3>1. LastChunk \in Int
        <4>1. \A x \in Int, m \in Nat \ {0} : x \div m \in Int
          BY Z3
        <4>2. Size - 1 \in Int
          BY <1>8
        <4>3. (Size - 1) \div ChunkSize \in Int
          BY <1>8, <4>1, <4>2
        <4>4. QED
          BY <1>8, <4>3 DEF LastChunk
      <3>2. \A m \in 1..start : m \in 1..LastChunk
        BY <1>8, <2>1, <3>1
      <3>3. QED
        BY <1>19, <3>2 DEF AllKept
    <2>3. before = start /\ \A m \in 0..start : Cardinality(Kept(m)) = m
      BY <1>8, <2>2, KeptAll DEF before
    <2>4. CASE k <= start
      <3>1. k \in 0..start /\ i = k
        BY <1>8, <2>3, <2>4
      <3>2. k - start \notin 1..Len(kept)
        BY <1>8, <1>14, <2>4
      <3>3. Records'[k] = Records[k]
        BY <1>1, <1>6, <3>2
      <3>4. Records[i] = Base + k
        BY <1>6, <1>19, <2>4
      <3>5. QED
        BY <3>1, <3>3, <3>4
    <2>5. CASE start < k
      <3>1. k \in (start + 1)..ChunkEnd /\ k \in Nat \ {0} /\ k - 1 \in Nat /\ start <= k - 1
            /\ k <= ChunkEnd
        BY <1>8, <1>13, <1>19, <2>5
      <3>2. i = Cardinality(Kept(k - 1)) + 1 /\ Cardinality(Kept(k - 1)) \in Nat
        BY <1>19, <3>1, KeptStep, KeptFinite
      <3>3. before <= Cardinality(Kept(k - 1))
        BY <1>8, <3>1, KeptGrows DEF before
      <3>4. i <= Cardinality(Kept(ChunkEnd)) /\ i <= k
        BY <1>8, <3>1, KeptGrows, KeptFinite
      <3>5. kept[i - before] = Base + k
        BY <1>10, <1>19, <3>1
      <3> HIDE DEF i
      <3>6. i - start \in 1..Len(kept) /\ i \in 1..Size
        BY <1>8, <1>10, <1>11, <2>3, <3>1, <3>2, <3>3, <3>4
      <3>7. Records'[i] = kept[i - start]
        BY <1>1, <1>6, <3>6
      <3>8. QED
        BY <2>3, <3>5, <3>7 DEF i
    <2>6. QED
      BY <1>8, <2>4, <2>5
  <1>20. QED
    BY <1>1, <1>6, <1>15, <1>16, <1>17, <1>18, <1>19

LEMMA FreshInvNext ==
  ASSUME BaseInv, SourceInv, FreshInv, [Next]_vars
  PROVE  FreshInv'
  <1>1. CASE Begin
    BY <1>1, FreshInvBegin
  <1>2. CASE Chunk
    BY <1>2, FreshInvChunk
  <1>3. CASE Finish
    <2>1. pc = "cleaning" /\ pc' = "done" /\ attempt' = attempt
      BY <1>3, FinishEffect
    <2>2. QED
      BY <2>1 DEF FreshInv
  <1>4. CASE Cancel
    BY <1>4 DEF Cancel, FreshInv
  <1>5. CASE Retry
    BY <1>5 DEF Retry, FreshInv
  <1>6. CASE UNCHANGED vars
    <2>1. /\ UNCHANGED <<params, modes>> /\ Work.columns' = Work.columns /\ Records' = Records
          /\ pc' = pc /\ start' = start /\ processed' = processed /\ heap' = heap
          /\ attempt' = attempt /\ data' = data /\ (Fresh' <=> Fresh) /\ original' = original
      BY <1>6 DEF vars, params, Records, Work, Target, Fresh
    <2>2. /\ Input' = Input /\ Size' = Size /\ Base' = Base /\ LastChunk' = LastChunk
          /\ \A row : Clean(row)' = Clean(row)
          /\ \A row : Survives(row)' <=> Survives(row)
          /\ \A m : Kept(m)' = Kept(m) /\ (AllKept(m)' <=> AllKept(m))
      BY <2>1, FreshStays
    <2>3. QED
      BY <2>1, <2>2 DEF FreshInv
  <1>7. QED
    BY <1>1, <1>2, <1>3, <1>4, <1>5, <1>6 DEF Next

\* The records are cut to the survivors.
LEMMA FinishCleaned ==
  ASSUME BaseInv, FreshInv, Finish
  PROVE  CleanedUpToLastChunk'
  <1>1. /\ pc = "cleaning" /\ Len(Records) <= start /\ heap' = heap /\ processed' = processed
        /\ Work.columns' = Work.columns /\ UNCHANGED <<params, modes>> /\ attempt' = attempt
        /\ processed + skipped = Len(Records)
        /\ Len(Records') = (IF skipped = 0 THEN Len(Records)
                            ELSE IF processed > 0 THEN processed ELSE 1)
        /\ \A k \in 1..Len(Records') : Records'[k] = Records[k]
    BY FinishEffect
  <1>2. /\ Input' = Input /\ Size' = Size /\ LastChunk' = LastChunk
        /\ \A row : Clean(row)' = Clean(row)
        /\ \A row : Survives(row)' <=> Survives(row)
        /\ \A m : Kept(m)' = Kept(m) /\ (AllKept(m)' <=> AllKept(m))
    BY <1>1, FreshStays
  <1>3. SUFFICES ASSUME Fresh, processed > 0, AllKept(LastChunk)
                 PROVE  /\ Len(Result') = Cardinality(Kept(Size))
                        /\ \A k \in Kept(Size) :
                              Result'[Cardinality(Kept(k))] = Clean(Input[k]).row
    <2>1. Fresh' => Fresh
      BY <1>1 DEF Fresh, params
    <2>2. AllKept(LastChunk)' <=> AllKept(LastChunk)
      BY <1>2
    <2>3. CleanedUpToLastChunk' <=>
             (pc' = "done" /\ Fresh' /\ processed' > 0 /\ AllKept(LastChunk)'
              => /\ Len(Result') = Cardinality(Kept(Size)')
                 /\ \A k \in Kept(Size)' :
                       Result'[Cardinality(Kept(k)')] = Clean(Input[k])'.row)
      BY DEF CleanedUpToLastChunk, AllKept, LastChunk
    <2>4. QED
      BY <1>1, <1>2, <1>3, <2>1, <2>2, <2>3
  <1>4. /\ Len(Records) = Size /\ Size \in Nat /\ start \in Nat
        /\ processed \in Nat /\ skipped \in Nat
        /\ processed = Cardinality(Kept(IF start < Size THEN start ELSE Size))
        /\ \A k \in 1..Size :
              heap[Base + k] = IF k <= start THEN Clean(Input[k]).row ELSE Input[k]
        /\ \A k \in 1..Size : k <= start /\ Survives(Input[k]) =>
              Records[Cardinality(Kept(k))] = Base + k
    <2>1. /\ start \in Nat /\ processed \in Nat /\ skipped \in Nat /\ Size \in Nat
      BY SourceType DEF BaseInv, TypeInv
    <2>2. QED
      BY <1>1, <1>3, <2>1 DEF FreshInv
  <1>5. processed = Cardinality(Kept(Size)) /\ \A k \in 1..Size : k <= start
    BY <1>1, <1>4
  <1>6. Len(Records') = processed
    BY <1>1, <1>3, <1>4
  <1>7. DOMAIN Records' = 1..processed /\ Records' \in Seq(RowIds)
    <2>1. Records' \in Seq(RowIds)
      <3>1. data' \in [{"src", "clone"} -> [columns : SUBSET Columns, records : Seq(RowIds)]]
        BY FinishEffect
      <3>2. Target' \in {"src", "clone"}
        BY DEF Target
      <3>3. QED
        BY <3>1, <3>2 DEF Records, Work
    <2>2. QED
      BY <1>6, <2>1
  <1>8. Result' = [i \in 1..processed |-> heap[Records'[i]]]
    BY <1>1, <1>7 DEF Result, Deref
  <1>9. Len(Result') = processed
    BY <1>4, <1>8
  <1>10. ASSUME NEW k \in Kept(Size)
         PROVE  Result'[Cardinality(Kept(k))] = Clean(Input[k]).row
    <2> DEFINE i == Cardinality(Kept(k))
    <2>1. k \in 1..Size /\ Survives(Input[k]) /\ k \in Nat \ {0} /\ k - 1 \in Nat /\ k <= Size
      BY <1>4 DEF Kept
    <2>2. i = Cardinality(Kept(k - 1)) + 1 /\ Cardinality(Kept(k - 1)) \in Nat
      BY <2>1, KeptStep, KeptFinite
    <2>3. i <= processed
      BY <1>4, <1>5, <2>1, KeptGrows
    <2>4. Records[i] = Base + k /\ heap[Base + k] = Clean(Input[k]).row
      BY <1>4, <1>5, <2>1
    <2> HIDE DEF i
    <2>5. i \in 1..processed
      BY <1>4, <2>2, <2>3
    <2>6. Records'[i] = Records[i]
      BY <1>1, <1>6, <2>5
    <2>7. Result'[i] = Clean(Input[k]).row
      BY <1>8, <2>4, <2>5, <2>6
    <2>8. QED
      BY <2>7 DEF i
  <1>11. QED
    BY <1>5, <1>9, <1>10

LEMMA CleanedNext ==
  ASSUME BaseInv, FreshInv, CleanedUpToLastChunk, [Next]_vars
  PROVE  CleanedUpToLastChunk'
  <1>1. CASE Finish
    BY <1>1, FinishCleaned
  <1>2. CASE Begin \/ Chunk \/ Cancel \/ Retry
    <2>1. pc' # "done"
      BY <1>2 DEF Begin, Chunk, Cancel, Retry
    <2>2. QED
      BY <2>1 DEF CleanedUpToLastChunk
  <1>3. CASE UNCHANGED vars
    <2>1. /\ UNCHANGED <<params, modes>> /\ Work.columns' = Work.columns /\ Result' = Result
          /\ pc' = pc /\ processed' = processed /\ (Fresh' <=> Fresh)
      BY <1>3 DEF vars, params, Result, Deref, Records, Work, Target, Fresh
    <2>2. /\ Input' = Input /\ Size' = Size
          /\ \A row : Clean(row)' = Clean(row)
          /\ \A row : Survives(row)' <=> Survives(row)
          /\ \A m : Kept(m)' = Kept(m)
      BY <2>1, FreshStays
    <2>3. QED
      BY <2>1, <2>2 DEF CleanedUpToLastChunk
  <1>4. QED
    BY <1>1, <1>2, <1>3 DEF Next

\* A fresh run that drops no row before its last chunk, and not all of them, leaves
\* the rows that survive, cleaned, in their order and none other
\* (etl_clean.go:296-648), for any number of rows and any size of a chunk.
THEOREM FreshRunsClean == Spec => []CleanedUpToLastChunk
  <1>1. Init => CleanedUpToLastChunk
    BY DEF Init, CleanedUpToLastChunk
  <1>2. Spec => []SourceInv
    BY TypesHold, SourceInvInit, SourceInvNext, PTL DEF Spec
  <1>3. Spec => []FreshInv
    BY <1>2, TypesHold, FreshInvInit, FreshInvNext, PTL DEF Spec
  <1>4. QED
    BY <1>1, <1>3, TypesHold, CleanedNext, PTL DEF Spec
=============================================================================
