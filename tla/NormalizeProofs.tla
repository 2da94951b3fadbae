-------------------------- MODULE NormalizeProofs --------------------------
(***************************************************************************)
(* The decomposition of Normalize loses nothing, whatever the dataset, the *)
(* categories and the order in which dependencies are extracted.           *)
(***************************************************************************)
EXTENDS Normalize, SequenceTheorems, FiniteSetTheorems, WellFoundedInduction, TLAPS

IsTable(t) == /\ DOMAIN t = 1..Len(t) /\ Len(t) \in Nat
              /\ \A i \in DOMAIN t : DOMAIN t[i] = Column

LEMMA LeastExists ==
  ASSUME NEW S \in SUBSET Nat, S # {}
  PROVE  \E x \in S : \A y \in S : x <= y
  <1>1. PICK x \in S : \A y \in S : ~ (<<y, x>> \in OpToRel(<, Nat))
    BY NatLessThanWellFounded, WFMin, Zenon
  <1>2. \A y \in S : ~ (y < x)
    BY <1>1 DEF OpToRel
  <1>3. QED
    BY <1>2

\* Every value has a first place.
LEMMA FirstPlace ==
  ASSUME IsTable(rows), NEW c, NEW v \in CellsOf(rows, c)
  PROVE  /\ FirstAt(c, v) \in DOMAIN rows
         /\ rows[FirstAt(c, v)][c] = v
         /\ \A j \in 1..(FirstAt(c, v) - 1) : rows[j][c] # v
  <1> DEFINE S == {i \in DOMAIN rows : rows[i][c] = v}
  <1>1. S \in SUBSET Nat /\ S # {}
    BY DEF CellsOf, IsTable
  <1>2. PICK x \in S : \A y \in S : x <= y
    BY <1>1, LeastExists
  <1>3. x \in DOMAIN rows /\ rows[x][c] = v /\ \A j \in 1..(x - 1) : rows[j][c] # v
    BY <1>2 DEF IsTable
  <1>4. QED
    BY <1>3 DEF FirstAt

ValuesTo(c, n) == {rows[j][c] : j \in 1..n}

LEMMA ValuesToFinite ==
  ASSUME NEW c, NEW n \in Nat
  PROVE  IsFiniteSet(ValuesTo(c, n))
  <1> DEFINE f == [j \in 1..n |-> rows[j][c]]
  <1>1. f \in Surjection(1..n, ValuesTo(c, n))
    BY DEF Surjection, ValuesTo
  <1>2. IsFiniteSet(1..n)
    BY FS_Interval
  <1>3. QED
    BY <1>1, <1>2, FS_Surjection

\* The value that comes later has the higher number.
LEMMA NumbersGrow ==
  ASSUME IsTable(rows), NEW c, NEW v \in CellsOf(rows, c), NEW w \in CellsOf(rows, c),
         FirstAt(c, v) < FirstAt(c, w)
  PROVE  NumberOf(c, v) # NumberOf(c, w)
  <1> DEFINE m == FirstAt(c, v)
             n == FirstAt(c, w)
             A == ValuesTo(c, m)
             B == ValuesTo(c, n)
  <1>1. /\ m \in Nat /\ n \in Nat /\ m < n /\ 1 <= n
        /\ rows[n][c] = w /\ \A j \in 1..(n - 1) : rows[j][c] # w
    BY FirstPlace DEF IsTable
  <1> HIDE DEF m, n
  <1>2. A \subseteq B /\ w \in B /\ w \notin A
    BY <1>1 DEF ValuesTo
  <1>3. IsFiniteSet(B)
    BY <1>1, ValuesToFinite
  <1>4. Cardinality(A) # Cardinality(B)
    BY <1>2, <1>3, FS_Subset
  <1>5. QED
    BY <1>4 DEF NumberOf, ValuesTo, m, n

\* No two values have the same identifier.
LEMMA NumbersDiffer ==
  ASSUME IsTable(rows), NEW c, NEW v \in CellsOf(rows, c), NEW w \in CellsOf(rows, c),
         NumberOf(c, v) = NumberOf(c, w)
  PROVE  v = w
  <1>1. FirstAt(c, v) \in Nat /\ FirstAt(c, w) \in Nat
    BY FirstPlace DEF IsTable
  <1>2. ~(FirstAt(c, v) < FirstAt(c, w)) /\ ~(FirstAt(c, w) < FirstAt(c, v))
    BY NumbersGrow
  <1>3. FirstAt(c, v) = FirstAt(c, w)
    BY <1>1, <1>2
  <1>4. QED
    BY <1>3, FirstPlace

\* b depends on a, the empty value of a included.
Determines(a, b) ==
    \A i, j \in DOMAIN rows : rows[i][a] = rows[j][a] => rows[i][b] = rows[j][b]

\* Splitting a table off and joining it again gives the rows that were there.
LEMMA ExtractRestores ==
  ASSUME IsTable(rows), columns \subseteq Column,
         NEW c \in Named \cap columns, NEW deps \in SUBSET (columns \ {c}), Extract(c, deps),
         IdOf[c] \notin columns, \A d \in deps : Determines(c, d),
         NEW i \in DOMAIN rows
  PROVE  Restores(rows'[i], Lookup(c, deps), rows[i])
  <1> DEFINE id == IdOf[c]
             l == Lookup(c, deps)
             v == rows[i][c]
  <1>1. id \in Column /\ id # c /\ id \notin deps /\ c \notin deps
    BY NamesAssumption
  <1>2. /\ rows'[i][id] = IdCell(NumberOf(c, v))
        /\ \A d \in Column \ (deps \cup {c, id}) : rows'[i][d] = rows[i][d]
    BY <1>1 DEF Extract
  <1>3. v \in CellsOf(rows, c)
    BY DEF CellsOf
  <1>4. l.det = c /\ l.columns = {id, c} \cup deps
        /\ l.rows = {LookupRow(c, deps, u) : u \in CellsOf(rows, c)}
    BY DEF Lookup
  <1>5. \A u : LookupRow(c, deps, u)[id] = IdCell(NumberOf(c, u))
    BY <1>1 DEF LookupRow
  <1>6. \A m, n : IdCell(m) = IdCell(n) => m = n
    BY DEF IdCell
  <1>7. ASSUME NEW s \in l.rows, s[id] = rows'[i][id]
        PROVE  s = LookupRow(c, deps, v)
    <2>1. PICK u \in CellsOf(rows, c) : s = LookupRow(c, deps, u)
      BY <1>4
    <2>2. NumberOf(c, u) = NumberOf(c, v)
      BY <1>2, <1>5, <1>6, <1>7, <2>1
    <2>3. u = v
      BY <1>3, <2>2, NumbersDiffer
    <2>4. QED
      BY <2>1, <2>3
  <1>8. LookupRow(c, deps, v) \in l.rows /\ LookupRow(c, deps, v)[id] = rows'[i][id]
    BY <1>2, <1>3, <1>4, <1>5
  <1>9. FirstAt(c, v) \in DOMAIN rows /\ rows[FirstAt(c, v)][c] = v
    BY <1>3, FirstPlace
  <1>10. ASSUME NEW d \in columns
         PROVE  (IF d \in l.columns THEN LookupRow(c, deps, v)[d] ELSE rows'[i][d]) = rows[i][d]
    <2>1. CASE d \in deps
      <3>1. rows[FirstAt(c, v)][d] = rows[i][d]
        BY <1>9, <2>1 DEF Determines
      <3>2. LookupRow(c, deps, v)[d] = rows[FirstAt(c, v)][d]
        BY <2>1 DEF LookupRow
      <3>3. QED
        BY <1>4, <2>1, <3>1, <3>2
    <2>2. CASE d = c
      BY <1>1, <1>4, <2>2 DEF LookupRow
    <2>3. CASE d \notin deps \cup {c}
      BY <1>2, <1>4, <2>3
    <2>4. QED
      BY <2>1, <2>2, <2>3
  <1>11. QED
    BY <1>4, <1>7, <1>8, <1>10 DEF Restores

-----------------------------------------------------------------------------
(* The invariant: rows are a sequence of rows, and what 3NF has found stays *)
(* true of the main table until it is extracted.                            *)

IsRows(t) == \E S : t \in Seq(S) /\ \A r \in S : DOMAIN r = Column

LEMMA MadeOfRows ==
  ASSUME NEW t, NEW n \in Nat, t = [i \in 1..n |-> t[i]], \A i \in 1..n : DOMAIN t[i] = Column
  PROVE  IsRows(t)
  <1> DEFINE S == {t[i] : i \in 1..n}
  <1>1. t \in Seq(S)
    BY SeqDef
  <1>2. \A r \in S : DOMAIN r = Column
    OBVIOUS
  <1> HIDE DEF S
  <1>3. QED
    BY <1>1, <1>2 DEF IsRows

LEMMA RowsAreTable == \A t : IsRows(t) => IsTable(t)
  BY DEF IsRows, IsTable

Group(t) == {t.det} \cup t.deps

FoundStands ==
    /\ pc # "3NF" => found = {}
    /\ \A t \in found :
          /\ t.det \in Plain \cap columns
          /\ t.deps \in SUBSET ((Plain \cap columns) \ {t.det})
          /\ \A d \in t.deps : IsFunctionalDependency(t.det, d)
    /\ \A t, u \in found : t # u => Group(t) \cap Group(u) = {}

IndInv ==
    /\ job \in Inputs
    /\ columns \subseteq Column
    /\ next \in Nat \ {0}
    /\ IsRows(rows) /\ IsRows(expanded)
    /\ \E S : lookups \in Seq(S)
    /\ FoundStands

LEMMA IndInvInit == Init => IndInv
  <1> SUFFICES ASSUME Init PROVE IndInv
    OBVIOUS
  <1>1. job \in Inputs /\ columns \subseteq Column /\ next \in Nat \ {0}
    BY InputsAssumption DEF Init, RangeOf
  <1>2. IsRows(rows)
    <2>1. rows \in [1..job.size -> job.records]
      BY DEF Init
    <2>2. job.size \in Nat /\ \A i \in 1..job.size : DOMAIN rows[i] = Column
      BY <1>1, <2>1, InputsAssumption
    <2>3. rows = [i \in 1..job.size |-> rows[i]]
      BY <2>1
    <2>4. QED
      BY <2>2, <2>3, MadeOfRows
  <1>3. IsRows(expanded) /\ \E S : lookups \in Seq(S)
    <2>1. <<>> \in Seq({})
      OBVIOUS
    <2>2. QED
      BY <2>1 DEF Init, IsRows
  <1>4. FoundStands
    BY DEF Init, FoundStands
  <1>5. QED
    BY <1>1, <1>2, <1>3, <1>4 DEF IndInv

\* Splitting a table off leaves rows, and a sequence of tables with one more.
LEMMA ExtractShape ==
  ASSUME IndInv, NEW c \in Named, NEW deps, Extract(c, deps)
  PROVE  /\ IsRows(rows)' /\ columns' \subseteq Column /\ (\E S : lookups \in Seq(S))'
         /\ DOMAIN rows' = DOMAIN rows
         /\ Len(lookups') > Len(lookups) /\ lookups'[Len(lookups')] = Lookup(c, deps)
  <1>1. IsTable(rows)
    BY RowsAreTable DEF IndInv
  <1>2. IsRows(rows)'
    <2> DEFINE n == Len(rows)
    <2>1. n \in Nat /\ rows' = [i \in 1..n |-> rows'[i]] /\ \A i \in 1..n : DOMAIN rows'[i] = Column
      BY <1>1 DEF Extract, IsTable
    <2>2. QED
      BY <2>1, MadeOfRows
  <1>3. columns' \subseteq Column
    BY NamesAssumption DEF Extract, IndInv
  <1>4. PICK S : lookups \in Seq(S)
    BY DEF IndInv
  <1> DEFINE T == S \cup {Lookup(c, deps)}
  <1>5. lookups \in Seq(T) /\ Lookup(c, deps) \in T
    <2>1. S \subseteq T
      OBVIOUS
    <2>2. QED
      BY <1>4, <2>1
  <1> HIDE DEF T
  <1>6. /\ lookups' \in Seq(T) /\ Len(lookups') = Len(lookups) + 1
        /\ lookups'[Len(lookups) + 1] = Lookup(c, deps) /\ Len(lookups) \in Nat
    BY <1>5 DEF Extract
  <1>7. QED
    BY <1>1, <1>2, <1>3, <1>6 DEF Extract, IsTable

\* The other dependencies are about columns that were left alone.
LEMMA OthersStand ==
  ASSUME IndInv, NEW t \in found, Extract(t.det, t.deps), found' = found \ {t}, pc' = pc
  PROVE  FoundStands'
  <1>1. t.det \in Plain /\ IdOf[t.det] \in IdColumns
    BY NamesAssumption DEF IndInv, FoundStands
  <1>2. ASSUME NEW u \in found, u # t, NEW d \in Group(u)
        PROVE  d \notin Group(t) /\ d # IdOf[t.det] /\ d \in Column /\ d \in columns
    BY <1>1, <1>2 DEF IndInv, FoundStands, Group, Plain
  <1>3. ASSUME NEW u \in found, u # t, NEW d \in Group(u), NEW i \in DOMAIN rows
        PROVE  rows'[i][d] = rows[i][d]
    BY <1>2, <1>3 DEF Extract, Group
  <1>4. DOMAIN rows' = DOMAIN rows
    BY DEF Extract
  <1>5. ASSUME NEW u \in found'
        PROVE  /\ u.det \in Plain \cap columns'
               /\ u.deps \in SUBSET ((Plain \cap columns') \ {u.det})
               /\ \A d \in u.deps : IsFunctionalDependency(u.det, d)'
    <2>1. u \in found /\ u # t
      BY <1>5
    <2>2. /\ u.det \in Plain \cap columns
          /\ u.deps \in SUBSET ((Plain \cap columns) \ {u.det})
          /\ \A d \in u.deps : IsFunctionalDependency(u.det, d)
      BY <2>1 DEF IndInv, FoundStands
    <2>3. \A d \in Group(u) : d \in columns'
      BY <1>2, <2>1 DEF Extract, Group
    <2>4. \A d \in Group(u) : \A i \in DOMAIN rows : rows'[i][d] = rows[i][d]
      BY <1>3, <2>1
    <2>5. ASSUME NEW d \in u.deps
          PROVE  IsFunctionalDependency(u.det, d)'
      <3>1. \A i \in DOMAIN rows : rows'[i][d] = rows[i][d] /\ rows'[i][u.det] = rows[i][u.det]
        BY <2>4 DEF Group
      <3>2. IsFunctionalDependency(u.det, d)
        BY <2>2
      <3>3. QED
        BY <1>4, <3>1, <3>2 DEF IsFunctionalDependency
    <2>6. QED
      BY <2>2, <2>3, <2>5 DEF Group
  <1>6. \A u, w \in found' : u # w => Group(u) \cap Group(w) = {}
    BY DEF IndInv, FoundStands
  <1>7. pc' # "3NF" => found' = {}
    BY DEF IndInv, FoundStands
  <1>8. QED
    BY <1>5, <1>6, <1>7 DEF FoundStands, Group

\* The scan adds a dependency between columns that no other one has.
LEMMA ScanStands ==
  ASSUME IndInv, ScanColumn
  PROVE  FoundStands'
  <1> DEFINE a == job.order[next]
             new == [det |-> a, deps |-> Dependents(a)]
  <1>1. /\ pc' = pc /\ pc = "3NF" /\ rows' = rows /\ columns' = columns
        /\ found' = found \/ (found' = found \cup {new} /\ a \in NonKey \ Extracted)
    BY DEF ScanColumn
  <1>2. CASE found' = found
    BY <1>1, <1>2 DEF IndInv, FoundStands, IsFunctionalDependency, Group
  <1>3. CASE found' = found \cup {new} /\ a \in NonKey \ Extracted
    <2>1. NonKey \subseteq Plain \cap columns
      BY DEF NonKey, IndInv, Plain
    <2>2. /\ new.det \in Plain \cap columns
          /\ new.deps \in SUBSET ((Plain \cap columns) \ {new.det})
          /\ \A d \in new.deps : IsFunctionalDependency(new.det, d)
          /\ Group(new) \cap Extracted = {}
      BY <1>3, <2>1 DEF Dependents, Group
    <2>3. \A u \in found : Group(u) \subseteq Extracted
      BY DEF Extracted, Group
    <2> HIDE DEF new
    <2>4. \A u \in found : Group(u) \cap Group(new) = {}
      BY <2>2, <2>3
    <2>5. \A u, w \in found' : u # w => Group(u) \cap Group(w) = {}
      BY <1>3, <2>4 DEF IndInv, FoundStands
    <2>6. \A u \in found' : /\ u.det \in Plain \cap columns
                            /\ u.deps \in SUBSET ((Plain \cap columns) \ {u.det})
                            /\ \A d \in u.deps : IsFunctionalDependency(u.det, d)
      BY <1>3, <2>2 DEF IndInv, FoundStands
    <2>7. QED
      BY <1>1, <2>5, <2>6 DEF FoundStands, IsFunctionalDependency, Group
  <1>4. QED
    BY <1>1, <1>2, <1>3

\* The rows that 1NF makes of a row.
LEMMA SplitMakesRows ==
  ASSUME NEW row, DOMAIN row = Column, NEW c
  PROVE  IsRows(Split(row, c))
  <1> DEFINE v == row[c]
  <1>1. CASE v \in Separated /\ Len(Atoms[v]) > 1
    <2>1. Atoms[v] \in Seq(Text)
      BY <1>1, TextAssumption
    <2> DEFINE n == Len(Atoms[v])
    <2>2. n \in Nat /\ DOMAIN Atoms[v] = 1..n
      BY <2>1
    <2>3. Split(row, c) = [k \in 1..n |-> [row EXCEPT ![c] = Atoms[v][k]]]
      BY <1>1, <2>2 DEF Split
    <2>4. /\ Split(row, c) = [k \in 1..n |-> Split(row, c)[k]]
          /\ \A k \in 1..n : DOMAIN Split(row, c)[k] = Column
      BY <2>3
    <2>5. QED
      BY <2>2, <2>4, MadeOfRows
  <1>2. CASE ~(v \in Separated /\ Len(Atoms[v]) > 1)
    <2> DEFINE S == {row}
    <2>1. Split(row, c) = <<row>>
      BY <1>2 DEF Split
    <2>2. <<row>> \in Seq(S) /\ \A r \in S : DOMAIN r = Column
      OBVIOUS
    <2> HIDE DEF S
    <2>3. QED
      BY <2>1, <2>2 DEF IsRows
  <1>3. QED
    BY <1>1, <1>2

LEMMA SeqGrows == ASSUME NEW S, NEW T, S \subseteq T PROVE Seq(S) \subseteq Seq(T)
  BY SeqDef

LEMMA ExpandRows ==
  ASSUME IndInv, Expand
  PROVE  IsRows(rows)' /\ IsRows(expanded)'
  <1> DEFINE c == job.order[next]
  <1>1. CASE c \in splits /\ rows # <<>>
    <2>1. PICK S : rows \in Seq(S) /\ \A r \in S : DOMAIN r = Column
      BY DEF IndInv, IsRows
    <2>2. rows' \in Seq(S) /\ DOMAIN Head(rows) = Column
      <3>1. rows' = Tail(rows)
        BY <1>1 DEF Expand
      <3>2. QED
        BY <1>1, <2>1, <3>1, HeadTailProperties
    <2>3. PICK U : Split(Head(rows), c) \in Seq(U) /\ \A r \in U : DOMAIN r = Column
      BY <2>2, SplitMakesRows DEF IsRows
    <2>4. PICK V : expanded \in Seq(V) /\ \A r \in V : DOMAIN r = Column
      BY DEF IndInv, IsRows
    <2> DEFINE W == U \cup V
    <2>5. Split(Head(rows), c) \in Seq(W) /\ expanded \in Seq(W) /\ \A r \in W : DOMAIN r = Column
      <3>1. U \subseteq W /\ V \subseteq W
        OBVIOUS
      <3>2. \A r \in W : DOMAIN r = Column
        BY <2>3, <2>4
      <3>3. Seq(U) \subseteq Seq(W) /\ Seq(V) \subseteq Seq(W)
        BY <3>1, SeqGrows
      <3>4. QED
        BY <2>3, <2>4, <3>2, <3>3
    <2> HIDE DEF W
    <2>6. expanded' \in Seq(W)
      <3>1. expanded' = expanded \o Split(Head(rows), c)
        BY <1>1 DEF Expand
      <3>2. QED
        BY <2>5, <3>1, ConcatProperties
    <2>7. QED
      BY <2>1, <2>2, <2>5, <2>6 DEF IsRows
  <1>2. CASE ~(c \in splits /\ rows # <<>>)
    <2>1. /\ rows' = rows \/ rows' = expanded
          /\ expanded' = <<>>
      BY <1>2 DEF Expand
    <2>2. IsRows(<<>>)
      <3> DEFINE S == {}
      <3>1. <<>> \in Seq(S) /\ \A r \in S : DOMAIN r = Column
        OBVIOUS
      <3> HIDE DEF S
      <3>2. QED
        BY <3>1 DEF IsRows
    <2>3. IsRows(rows') /\ IsRows(expanded')
      BY <2>1, <2>2 DEF IndInv
    <2>4. QED
      BY <2>3 DEF IsRows
  <1>3. QED
    BY <1>1, <1>2

LEMMA IndInvNext ==
  ASSUME IndInv, [Next]_vars
  PROVE  IndInv'
  <1>1. CASE Analyze \/ DetectSplits \/ EndExpand \/ EndCategories \/ EndTransitive \/ Store
             \/ UNCHANGED vars
    <2>1. /\ job' = job /\ columns' = columns /\ rows' = rows /\ expanded' = expanded
          /\ next' \in Nat \ {0} /\ found' = found /\ (lookups' = lookups)
          /\ pc' # "3NF" => found = {}
          /\ IndInv
      BY <1>1 DEF Analyze, DetectSplits, EndExpand, EndCategories, EndTransitive, Store, vars,
                  Goto, derived, tables, IndInv, FoundStands
    <2>2. FoundStands'
      BY <2>1 DEF IndInv, FoundStands, IsFunctionalDependency, Group
    <2>3. QED
      BY <2>1, <2>2 DEF IndInv, IsRows
  <1>2. CASE ApplyRule
    <2>1. /\ job' = job /\ columns' = columns /\ expanded' = expanded /\ pc' = "rules"
          /\ next' \in Nat \ {0} /\ found' = found /\ lookups' = lookups /\ found = {}
      BY <1>2 DEF ApplyRule, derived, tables, IndInv, FoundStands
    <2>2. IsTable(rows)
      BY RowsAreTable DEF IndInv
    <2>3. IsRows(rows')
      <3> DEFINE n == Len(rows)
      <3>1. n \in Nat /\ rows' = [i \in 1..n |-> rows'[i]] /\ \A i \in 1..n : DOMAIN rows'[i] = Column
        BY <1>2, <2>2 DEF ApplyRule, IsTable
      <3>2. QED
        BY <3>1, MadeOfRows
    <2>4. FoundStands'
      BY <2>1 DEF FoundStands
    <2>5. QED
      BY <2>1, <2>3, <2>4 DEF IndInv, IsRows
  <1>3. CASE Expand
    <2>1. /\ job' = job /\ columns' = columns /\ next' \in Nat \ {0} /\ found' = {}
          /\ lookups' = lookups
      BY <1>3 DEF Expand, derived, tables, IndInv, FoundStands
    <2>2. FoundStands'
      BY <2>1 DEF FoundStands
    <2>3. QED
      BY <1>3, <2>1, <2>2, ExpandRows DEF IndInv
  <1>4. CASE ExtractCategory
    <2>1. /\ job' = job /\ expanded' = expanded /\ next' \in Nat \ {0} /\ found' = {}
      BY <1>4 DEF ExtractCategory, derived, IndInv, FoundStands
    <2>2. FoundStands'
      BY <2>1 DEF FoundStands
    <2>3. CASE UNCHANGED <<lookups, rows, columns>>
      BY <2>1, <2>2, <2>3 DEF IndInv, IsRows
    <2>4. CASE \E deps : Extract(job.cats[next], deps)
      <3>1. job.cats[next] \in Named
        BY <1>4, InputsAssumption DEF ExtractCategory, IndInv
      <3>2. QED
        BY <2>1, <2>2, <2>4, <3>1, ExtractShape DEF IndInv, IsRows
    <2>5. QED
      BY <1>4, <2>3, <2>4 DEF ExtractCategory
  <1>5. CASE ScanColumn
    <2>1. /\ job' = job /\ columns' = columns /\ rows' = rows /\ expanded' = expanded
          /\ next' \in Nat \ {0} /\ lookups' = lookups
      BY <1>5 DEF ScanColumn, derived, IndInv
    <2>2. QED
      BY <1>5, <2>1, ScanStands DEF IndInv, IsRows
  <1>6. CASE ExtractTransitive
    <2>1. PICK t \in found : Extract(t.det, t.deps) /\ found' = found \ {t}
      BY <1>6 DEF ExtractTransitive
    <2>2. pc' = pc /\ job' = job /\ expanded' = expanded /\ next' = next
      BY <1>6 DEF ExtractTransitive, derived
    <2>3. t.det \in Named
      BY <2>1, NamesAssumption DEF IndInv, FoundStands
    <2>4. QED
      BY <2>1, <2>2, <2>3, ExtractShape, OthersStand DEF IndInv, IsRows
  <1>7. QED
    BY <1>1, <1>2, <1>3, <1>4, <1>5, <1>6 DEF Next

LEMMA IndInvHolds == Spec => []IndInv
  BY IndInvInit, IndInvNext, PTL DEF Spec

\* Between values that are not empty, a dependency the code detects is one.
LEMMA DetectedIsReal ==
  ASSUME NEW a, NEW b, IsFunctionalDependency(a, b), \A i \in DOMAIN rows : rows[i][a] # Empty
  PROVE  Determines(a, b)
  BY DEF IsFunctionalDependency, Determines

\* Each table that 2NF or 3NF splits off (apply2NF, apply3NF, lines 653-735 and
\* 823-904) can be joined to what is left without loss, in whatever order the
\* dependencies found are extracted.
THEOREM DecompositionLosesNothing == Spec => NothingLost
  <1> DEFINE l == lookups'[Len(lookups')]
             Lossless == Len(lookups') > Len(lookups) /\ IdOf[l.det] \notin columns
                             /\ (\A i \in DOMAIN rows : rows[i][l.det] # Empty) =>
                          /\ DOMAIN rows' = DOMAIN rows
                          /\ \A i \in DOMAIN rows : Restores(rows'[i], l, rows[i])
  <1>1. ASSUME IndInv, [Next]_vars
        PROVE  Lossless
    <2>1. ASSUME NEW c \in Named \cap columns, NEW deps \in SUBSET (columns \ {c}),
                 Extract(c, deps), \A d \in deps : IsFunctionalDependency(c, d)
          PROVE  Lossless
      <3>1. l = Lookup(c, deps) /\ l.det = c /\ DOMAIN rows' = DOMAIN rows
        BY <1>1, <2>1, ExtractShape DEF Lookup
      <3>2. SUFFICES ASSUME IdOf[c] \notin columns, \A i \in DOMAIN rows : rows[i][c] # Empty,
                            NEW i \in DOMAIN rows
                     PROVE  Restores(rows'[i], l, rows[i])
        BY <3>1
      <3>3. \A d \in deps : Determines(c, d)
        BY <2>1, <3>2, DetectedIsReal
      <3>4. IsTable(rows) /\ columns \subseteq Column
        BY <1>1, RowsAreTable DEF IndInv
      <3>5. QED
        BY <2>1, <3>1, <3>2, <3>3, <3>4, ExtractRestores
    <2>2. CASE ExtractCategory /\ job.cats[next] \in columns
      <3> DEFINE c == job.cats[next]
                 deps == {d \in columns \ {c, job.pk} : IsFunctionalDependency(c, d)}
      <3>1. c \in Named \cap columns /\ Extract(c, deps)
        BY <1>1, <2>2, InputsAssumption DEF ExtractCategory, IndInv
      <3>2. deps \in SUBSET (columns \ {c}) /\ \A d \in deps : IsFunctionalDependency(c, d)
        OBVIOUS
      <3> HIDE DEF c, deps, Lossless
      <3>3. QED
        BY <2>1, <3>1, <3>2
    <2>3. CASE ExtractTransitive
      <3>1. PICK t \in found : Extract(t.det, t.deps)
        BY <2>3 DEF ExtractTransitive
      <3>2. /\ t.det \in Named \cap columns /\ t.deps \in SUBSET (columns \ {t.det})
            /\ \A d \in t.deps : IsFunctionalDependency(t.det, d)
        BY <1>1, NamesAssumption DEF IndInv, FoundStands
      <3> HIDE DEF Lossless
      <3>3. QED
        BY <2>1, <3>1, <3>2
    <2>4. CASE lookups' = lookups
      <3>1. Len(lookups) \in Nat
        BY <1>1 DEF IndInv
      <3>2. QED
        BY <2>4, <3>1
    <2>5. QED
      BY <1>1, <2>2, <2>3, <2>4
      DEF Next, vars, Analyze, ApplyRule, DetectSplits, Expand, EndExpand, ExtractCategory,
          EndCategories, ScanColumn, EndTransitive, Store, tables
  <1>2. QED
    BY <1>1, IndInvHolds, PTL DEF Spec, NothingLost
-----------------------------------------------------------------------------
(* 1NF.                                                                    *)

IsRow(r) == r = [c \in Column |-> r[c]]

\* r is what old becomes when one of the values of each column of D is chosen.
MadeOf(r, old, D) ==
    /\ IsRow(r)
    /\ \A c \in Column : IF c \in D THEN r[c] \in Several(old[c]) ELSE r[c] = old[c]

\* The columns that are split before position n of the header.
SplitBefore(n) == {c \in splits : \E j \in DOMAIN job.order : j < n /\ job.order[j] = c}

AtSplit == next <= Len(job.order) /\ job.order[next] \in splits

\* Each row comes of a row that was there, and each choice of values is in a
\* row, or what the column at hand makes of it already is.
HalfSplit ==
    /\ ~AtSplit => expanded = <<>>
    /\ \A i \in DOMAIN rows : \E k \in DOMAIN before :
          MadeOf(rows[i], before[k], SplitBefore(next))
    /\ \A i \in DOMAIN expanded : \E k \in DOMAIN before :
          MadeOf(expanded[i], before[k], SplitBefore(next + 1))
    /\ \A k \in DOMAIN before : \A r : MadeOf(r, before[k], SplitBefore(next)) =>
          \/ r \in RangeOf(rows)
          \/ AtSplit /\ \A s : MadeOf(s, r, {job.order[next]}) => s \in RangeOf(expanded)

SplitInv ==
    /\ pc \in {"start", "rules"} => expanded = <<>> /\ \A i \in DOMAIN rows : IsRow(rows[i])
    /\ pc \in {"start", "rules", "1NF"} => columns = RangeOf(job.order)
    /\ pc = "1NF" => splits \subseteq RangeOf(job.order)
    /\ pc = "1NF" /\ HeaderDistinct => HalfSplit

LEMMA SplitInvInit == Init => SplitInv
  <1> SUFFICES ASSUME Init PROVE SplitInv
    OBVIOUS
  <1>1. rows \in [1..job.size -> job.records]
    BY DEF Init
  <1>2. job \in Inputs /\ job.records \subseteq [Column -> Cell]
    BY InputsAssumption DEF Init
  <1>3. \A i \in DOMAIN rows : IsRow(rows[i])
    BY <1>1, <1>2 DEF IsRow
  <1>4. QED
    BY <1>3 DEF Init, SplitInv

\* The rows that come of one row are the ones with one of the values.
LEMMA SplitChooses ==
  ASSUME NEW row, IsRow(row), NEW c \in Column
  PROVE  \A s : MadeOf(s, row, {c}) <=> s \in RangeOf(Split(row, c))
  <1> DEFINE v == row[c]
  <1>1. CASE v \in Separated /\ Len(Atoms[v]) > 1
    <2>1. /\ Several(v) = {Atoms[v][k] : k \in DOMAIN Atoms[v]}
          /\ RangeOf(Split(row, c)) = {[row EXCEPT ![c] = Atoms[v][k]] : k \in DOMAIN Atoms[v]}
      BY <1>1 DEF Several, Split, RangeOf
    <2>2. ASSUME NEW s, MadeOf(s, row, {c})
          PROVE  s \in RangeOf(Split(row, c))
      <3>1. PICK k \in DOMAIN Atoms[v] : s[c] = Atoms[v][k]
        BY <2>1, <2>2 DEF MadeOf
      <3>2. s = [row EXCEPT ![c] = Atoms[v][k]]
        BY <2>2, <3>1 DEF MadeOf, IsRow
      <3>3. QED
        BY <2>1, <3>2
    <2>3. ASSUME NEW k \in DOMAIN Atoms[v]
          PROVE  MadeOf([row EXCEPT ![c] = Atoms[v][k]], row, {c})
      <3> DEFINE s == [row EXCEPT ![c] = Atoms[v][k]]
      <3>1. s = [d \in Column |-> IF d = c THEN Atoms[v][k] ELSE row[d]]
        BY DEF IsRow
      <3>2. Atoms[v][k] \in Several(v)
        BY <2>1
      <3> HIDE DEF s
      <3>3. IsRow(s) /\ s[c] \in Several(v) /\ \A d \in Column \ {c} : s[d] = row[d]
        BY <3>1, <3>2 DEF IsRow
      <3>4. MadeOf(s, row, {c})
        BY <3>3 DEF MadeOf
      <3>5. QED
        BY <3>4 DEF s
    <2>4. QED
      BY <2>1, <2>2, <2>3
  <1>2. CASE ~(v \in Separated /\ Len(Atoms[v]) > 1)
    <2>1. Several(v) = {v} /\ RangeOf(Split(row, c)) = {row}
      <3>1. Several(v) = {v} /\ Split(row, c) = <<row>>
        BY <1>2 DEF Several, Split
      <3>2. DOMAIN <<row>> = {1} /\ <<row>>[1] = row
        OBVIOUS
      <3>3. RangeOf(<<row>>) = {row}
        BY <3>2 DEF RangeOf
      <3>4. QED
        BY <3>1, <3>3
    <2>2. ASSUME NEW s, MadeOf(s, row, {c})
          PROVE  s = row
      BY <2>1, <2>2 DEF MadeOf, IsRow
    <2>3. MadeOf(row, row, {c})
      BY <2>1 DEF MadeOf
    <2>4. QED
      BY <2>1, <2>2, <2>3
  <1>3. QED
    BY <1>1, <1>2

\* Choosing in one more column, ...
LEMMA ChooseOneMore ==
  ASSUME NEW old, NEW r, NEW s, NEW D, NEW c, c \notin D, MadeOf(r, old, D), MadeOf(s, r, {c})
  PROVE  MadeOf(s, old, D \cup {c})
  BY DEF MadeOf

\* ... and leaving that choice out.
LEMMA ChooseOneLess ==
  ASSUME NEW old, NEW s, NEW D, NEW c \in Column, c \notin D, MadeOf(s, old, D \cup {c})
  PROVE  \E r : MadeOf(r, old, D) /\ MadeOf(s, r, {c})
  <1> DEFINE r == [d \in Column |-> IF d = c THEN old[c] ELSE s[d]]
  <1>1. IsRow(r) /\ r[c] = old[c] /\ \A d \in Column \ {c} : r[d] = s[d]
    BY DEF IsRow
  <1> HIDE DEF r
  <1>2. MadeOf(r, old, D) /\ MadeOf(s, r, {c})
    BY <1>1 DEF MadeOf
  <1>3. QED
    BY <1>2

LEMMA RangeOfTail ==
  ASSUME NEW S, NEW t \in Seq(S), t # <<>>
  PROVE  RangeOf(t) = {Head(t)} \cup RangeOf(Tail(t))
  <1>1. /\ Len(t) \in Nat \ {0} /\ DOMAIN t = 1..Len(t) /\ Head(t) = t[1]
        /\ DOMAIN Tail(t) = 1..(Len(t) - 1) /\ \A i \in 1..(Len(t) - 1) : Tail(t)[i] = t[i + 1]
    <2>1. Tail(t) \in Seq(S) /\ Len(Tail(t)) = Len(t) - 1 /\ \A i \in 1..Len(Tail(t)) : Tail(t)[i] = t[i + 1]
      BY HeadTailProperties
    <2>2. QED
      BY <2>1
  <1>2. \A i \in DOMAIN t : i = 1 \/ i - 1 \in DOMAIN Tail(t)
    BY <1>1
  <1>3. QED
    BY <1>1, <1>2 DEF RangeOf

LEMMA RangeOfConcat ==
  ASSUME NEW S, NEW t \in Seq(S), NEW u \in Seq(S)
  PROVE  RangeOf(t \o u) = RangeOf(t) \cup RangeOf(u)
  <1>1. /\ Len(t) \in Nat /\ Len(u) \in Nat /\ DOMAIN t = 1..Len(t) /\ DOMAIN u = 1..Len(u)
        /\ DOMAIN (t \o u) = 1..(Len(t) + Len(u))
        /\ \A i \in 1..(Len(t) + Len(u)) :
              (t \o u)[i] = IF i <= Len(t) THEN t[i] ELSE u[i - Len(t)]
    BY ConcatProperties
  <1> DEFINE w == t \o u
  <1>2. \A i \in DOMAIN u : i + Len(t) \in DOMAIN w /\ w[i + Len(t)] = u[i]
    BY <1>1
  <1>3. \A i \in DOMAIN t : i \in DOMAIN w /\ w[i] = t[i]
    BY <1>1
  <1>4. \A i \in DOMAIN w : \/ i \in DOMAIN t /\ w[i] = t[i]
                            \/ i - Len(t) \in DOMAIN u /\ w[i] = u[i - Len(t)]
    BY <1>1
  <1> HIDE DEF w
  <1>5. RangeOf(w) = RangeOf(t) \cup RangeOf(u)
    BY <1>2, <1>3, <1>4 DEF RangeOf
  <1>6. QED
    BY <1>5 DEF w

\* A row of the column at hand is split.
LEMMA SplitRow ==
  ASSUME IndInv, HalfSplit, HeaderDistinct, AtSplit, rows # <<>>, Expand
  PROVE  HalfSplit'
  <1> DEFINE c == job.order[next]
             h == Head(rows)
             D == SplitBefore(next)
  <1>1. /\ rows' = Tail(rows) /\ expanded' = expanded \o Split(h, c) /\ next' = next
        /\ before' = before /\ splits' = splits /\ job' = job
    BY DEF Expand, AtSplit
  <1>2. next \in DOMAIN job.order /\ c \in Column
    BY InputsAssumption DEF IndInv, AtSplit
  <1>3. c \notin D /\ SplitBefore(next + 1) = D \cup {c}
    <2>1. /\ \A j \in DOMAIN job.order : j \in Int /\ (j < next + 1 <=> j < next \/ j = next)
          /\ next \in Int /\ c \in splits
      BY <1>2, InputsAssumption DEF IndInv, AtSplit
    <2>2. \A j \in DOMAIN job.order : job.order[j] = c => j = next
      BY <1>2 DEF HeaderDistinct
    <2>3. QED
      BY <1>2, <2>1, <2>2 DEF SplitBefore
  <1>4. /\ RangeOf(rows) = {h} \cup RangeOf(rows')
        /\ RangeOf(expanded') = RangeOf(expanded) \cup RangeOf(Split(h, c))
    <2>1. PICK S : rows \in Seq(S) /\ \A r \in S : DOMAIN r = Column
      BY DEF IndInv, IsRows
    <2>2. RangeOf(rows) = {h} \cup RangeOf(rows')
      BY <1>1, <2>1, RangeOfTail
    <2>3. DOMAIN h = Column
      BY <2>1, HeadTailProperties
    <2>4. PICK U : Split(h, c) \in Seq(U)
      BY <2>3, SplitMakesRows DEF IsRows
    <2>5. PICK V : expanded \in Seq(V)
      BY DEF IndInv, IsRows
    <2> DEFINE W == U \cup V
    <2>6. Split(h, c) \in Seq(W) /\ expanded \in Seq(W)
      <3>1. U \subseteq W /\ V \subseteq W
        OBVIOUS
      <3>2. QED
        BY <2>4, <2>5, <3>1, SeqGrows
    <2> HIDE DEF W
    <2>7. QED
      BY <1>1, <2>2, <2>6, RangeOfConcat
  <1>5. PICK k0 \in DOMAIN before : MadeOf(h, before[k0], D)
    <2>1. h \in RangeOf(rows)
      BY <1>4
    <2>2. PICK i \in DOMAIN rows : h = rows[i]
      BY <2>1 DEF RangeOf
    <2>3. QED
      BY <2>2 DEF HalfSplit
  <1>6. \A s : MadeOf(s, h, {c}) <=> s \in RangeOf(Split(h, c))
    BY <1>2, <1>5, SplitChooses DEF MadeOf
  <1>7. \A r \in RangeOf(rows') : \E k \in DOMAIN before : MadeOf(r, before[k], D)
    BY <1>4 DEF HalfSplit, RangeOf
  <1>8. \A r \in RangeOf(expanded') : \E k \in DOMAIN before : MadeOf(r, before[k], D \cup {c})
    <2>1. ASSUME NEW r \in RangeOf(expanded)
          PROVE  \E k \in DOMAIN before : MadeOf(r, before[k], D \cup {c})
      BY <1>3 DEF HalfSplit, RangeOf
    <2>2. ASSUME NEW r \in RangeOf(Split(h, c))
          PROVE  MadeOf(r, before[k0], D \cup {c})
      BY <1>3, <1>5, <1>6, ChooseOneMore
    <2>3. QED
      BY <1>4, <2>1, <2>2
  <1>9. ASSUME NEW k \in DOMAIN before, NEW r, MadeOf(r, before[k], D)
        PROVE  r \in RangeOf(rows') \/ \A s : MadeOf(s, r, {c}) => s \in RangeOf(expanded')
    BY <1>4, <1>6, <1>9 DEF HalfSplit
  <1>10. SplitBefore(next)' = D /\ SplitBefore(next + 1)' = D \cup {c} /\ AtSplit' /\ job.order'[next'] = c
    <2>1. SplitBefore(next)' = SplitBefore(next) /\ SplitBefore(next + 1)' = SplitBefore(next + 1)
      BY <1>1 DEF SplitBefore
    <2>2. QED
      BY <1>1, <1>3, <2>1 DEF AtSplit
  <1> HIDE DEF c, h, D
  <1>11. \A i \in DOMAIN rows' : \E k \in DOMAIN before' : MadeOf(rows'[i], before'[k], D)
    BY <1>1, <1>7 DEF RangeOf
  <1>12. \A i \in DOMAIN expanded' : \E k \in DOMAIN before' :
            MadeOf(expanded'[i], before'[k], D \cup {c})
    BY <1>1, <1>8 DEF RangeOf
  <1>13. \A k \in DOMAIN before' : \A r : MadeOf(r, before'[k], D) =>
            \/ r \in RangeOf(rows')
            \/ \A s : MadeOf(s, r, {c}) => s \in RangeOf(expanded')
    BY <1>1, <1>9
  <1>14. QED
    BY <1>10, <1>11, <1>12, <1>13 DEF HalfSplit, RangeOf

\* On to the next column.
LEMMA SplitColumn ==
  ASSUME IndInv, HalfSplit, HeaderDistinct, ~(AtSplit /\ rows # <<>>), Expand
  PROVE  HalfSplit'
  <1> DEFINE c == job.order[next]
             D == SplitBefore(next)
             E == SplitBefore(next + 1)
  <1>1. /\ next \in DOMAIN job.order /\ c \in Column /\ next <= Len(job.order)
        /\ next' = next + 1 /\ before' = before /\ splits' = splits /\ job' = job
        /\ expanded' = <<>>
        /\ rows' = IF c \in splits THEN expanded ELSE rows
    BY InputsAssumption DEF IndInv, Expand, AtSplit
  <1>2. c \notin D /\ E = IF c \in splits THEN D \cup {c} ELSE D
    BY <1>1, InputsAssumption DEF IndInv, SplitBefore, HeaderDistinct
  <1>3. \A r \in RangeOf(rows') : \E k \in DOMAIN before : MadeOf(r, before[k], E)
    BY <1>1, <1>2 DEF HalfSplit, RangeOf
  <1>4. ASSUME NEW k \in DOMAIN before, NEW r, MadeOf(r, before[k], E)
        PROVE  r \in RangeOf(rows')
    <2>1. CASE c \in splits
      <3>1. rows = <<>> /\ RangeOf(rows) = {}
        BY <1>1, <2>1 DEF AtSplit, RangeOf
      <3>2. PICK q : MadeOf(q, before[k], D) /\ MadeOf(r, q, {c})
        BY <1>1, <1>2, <1>4, <2>1, ChooseOneLess
      <3>3. q \in RangeOf(rows) \/ \A s : MadeOf(s, q, {c}) => s \in RangeOf(expanded)
        BY <3>2 DEF HalfSplit
      <3>4. QED
        BY <1>1, <2>1, <3>1, <3>2, <3>3
    <2>2. CASE c \notin splits
      <3>1. ~AtSplit
        BY <2>2 DEF AtSplit
      <3>2. QED
        BY <1>1, <1>2, <1>4, <2>2, <3>1 DEF HalfSplit
    <2>3. QED
      BY <2>1, <2>2
  <1>5. SplitBefore(next)' = E
    BY <1>1 DEF SplitBefore
  <1> HIDE DEF c, D, E
  <1>6. \A i \in DOMAIN rows' : \E k \in DOMAIN before' : MadeOf(rows'[i], before'[k], E)
    <2> SUFFICES ASSUME NEW i \in DOMAIN rows'
                 PROVE  \E k \in DOMAIN before : MadeOf(rows'[i], before[k], E)
      BY <1>1
    <2>1. rows'[i] \in RangeOf(rows')
      BY DEF RangeOf
    <2>2. QED
      BY <1>3, <2>1
  <1>7. \A k \in DOMAIN before' : \A r : MadeOf(r, before'[k], E) => r \in RangeOf(rows')
    BY <1>1, <1>4
  <1>8. expanded' = <<>> /\ DOMAIN expanded' = {}
    BY <1>1
  <1>9. QED
    BY <1>5, <1>6, <1>7, <1>8 DEF HalfSplit, RangeOf

LEMMA SplitInvNext ==
  ASSUME IndInv, SplitInv, [Next]_vars
  PROVE  SplitInv'
  <1>1. CASE Expand
    <2>1. pc = "1NF" /\ pc' = "1NF" /\ columns' = columns /\ job' = job /\ splits' = splits
      BY <1>1 DEF Expand
    <2>2. ASSUME HeaderDistinct PROVE HalfSplit'
      BY <1>1, <2>1, <2>2, SplitRow, SplitColumn DEF SplitInv
    <2>3. QED
      BY <2>1, <2>2 DEF SplitInv, HeaderDistinct, RangeOf
  <1>2. CASE DetectSplits
    <2>1. /\ pc = "rules" /\ pc' \in {"1NF", "store"} /\ columns' = columns /\ job' = job
          /\ rows' = rows /\ expanded' = expanded /\ before' = rows /\ next' = 1
          /\ splits' \subseteq columns
      BY <1>2 DEF DetectSplits, Goto
    <2>2. /\ expanded = <<>> /\ columns = RangeOf(job.order)
          /\ \A i \in DOMAIN rows : IsRow(rows[i])
      BY <2>1 DEF SplitInv
    <2>3. SplitBefore(next)' = {}
      BY <2>1, InputsAssumption DEF SplitBefore, IndInv
    <2>4. ASSUME NEW i \in DOMAIN rows PROVE MadeOf(rows[i], rows[i], {})
      BY <2>2 DEF MadeOf
    <2>5. ASSUME NEW i \in DOMAIN rows, NEW r, MadeOf(r, rows[i], {}) PROVE r = rows[i]
      BY <2>2, <2>5 DEF MadeOf, IsRow
    <2>6. HalfSplit'
      <3>1. \A i \in DOMAIN rows' : \E k \in DOMAIN before' : MadeOf(rows'[i], before'[k], {})
        BY <2>1, <2>4
      <3>2. \A k \in DOMAIN before' : \A r : MadeOf(r, before'[k], {}) => r \in RangeOf(rows')
        BY <2>1, <2>5 DEF RangeOf
      <3>3. QED
        <4>1. expanded' = <<>> /\ DOMAIN expanded' = {}
          BY <2>1, <2>2
        <4>2. QED
          BY <2>3, <3>1, <3>2, <4>1 DEF HalfSplit, RangeOf
    <2>7. QED
      BY <2>1, <2>2, <2>6 DEF SplitInv, RangeOf
  <1>3. CASE ApplyRule
    <2>1. /\ pc = "rules" /\ pc' = pc /\ columns' = columns /\ job' = job /\ expanded' = expanded
      BY <1>3 DEF ApplyRule
    <2>2. \A i \in DOMAIN rows' : IsRow(rows'[i])
      <3>1. IsTable(rows)
        BY RowsAreTable DEF IndInv
      <3>2. QED
        BY <1>3, <3>1 DEF ApplyRule, IsTable, IsRow
    <2>3. QED
      BY <2>1, <2>2 DEF SplitInv, RangeOf
  <1>4. CASE Analyze \/ UNCHANGED vars
    <2>1. /\ rows' = rows /\ expanded' = expanded /\ columns' = columns /\ job' = job
          /\ splits' = splits /\ before' = before
          /\ (pc' = pc /\ next' = next) \/ (pc = "start" /\ pc' = "rules")
      BY <1>4 DEF Analyze, vars, Goto, tables
    <2>2. CASE pc' = pc /\ next' = next
      <3>1. AtSplit' = AtSplit /\ (HeaderDistinct' <=> HeaderDistinct)
            /\ SplitBefore(next)' = SplitBefore(next) /\ SplitBefore(next + 1)' = SplitBefore(next + 1)
        BY <2>1, <2>2 DEF AtSplit, HeaderDistinct, SplitBefore
      <3>2. HalfSplit => HalfSplit'
        <4>1. RangeOf(rows)' = RangeOf(rows) /\ RangeOf(expanded)' = RangeOf(expanded)
              /\ (job.order[next])' = job.order[next]
          BY <2>1, <2>2
        <4>2. QED
          BY <2>1, <3>1, <4>1 DEF HalfSplit
      <3>3. QED
        BY <2>1, <2>2, <3>1, <3>2 DEF SplitInv, RangeOf
    <2>3. CASE pc = "start" /\ pc' = "rules"
      BY <2>1, <2>3 DEF SplitInv, RangeOf
    <2>4. QED
      BY <2>1, <2>2, <2>3
  <1>5. CASE \/ EndExpand \/ ExtractCategory \/ EndCategories \/ ScanColumn \/ ExtractTransitive
             \/ EndTransitive \/ Store
    <2>1. pc' \in {"2NF", "3NF", "store", "done"}
      BY <1>5 DEF EndExpand, ExtractCategory, EndCategories, ScanColumn, ExtractTransitive,
                  EndTransitive, Store, Goto
    <2>2. QED
      BY <2>1 DEF SplitInv
  <1>6. QED
    BY <1>1, <1>2, <1>3, <1>4, <1>5 DEF Next

\* Once the last column of the header is split, the rows are exactly the
\* combinations of the values of the rows before (lines 568-609), however many
\* columns are split and however long their lists are.
THEOREM FirstNormalFormKeepsCombinations == Spec => []CombinationsKept
  <1>1. ASSUME IndInv, SplitInv PROVE CombinationsKept
    <2> SUFFICES ASSUME pc = "1NF", next > Len(job.order), HeaderDistinct
                 PROVE  RangeOf(rows) =
                          UNION {{[c \in Column |-> IF c \in splits THEN f[c] ELSE before[i][c]] :
                                     f \in Choices(before[i])} : i \in DOMAIN before}
      BY DEF CombinationsKept
    <2> DEFINE Row(i, f) == [c \in Column |-> IF c \in splits THEN f[c] ELSE before[i][c]]
    <2>1. SplitBefore(next) = splits /\ splits \subseteq Column /\ ~AtSplit
      BY <1>1, InputsAssumption DEF IndInv, SplitInv, SplitBefore, RangeOf, AtSplit
    <2>2. ASSUME NEW i \in DOMAIN before, NEW f \in Choices(before[i])
          PROVE  Row(i, f) \in RangeOf(rows)
      <3>1. IsRow(Row(i, f))
        BY DEF IsRow
      <3>2. \A c \in splits : f[c] \in Several(before[i][c])
        BY DEF Choices
      <3>3. MadeOf(Row(i, f), before[i], splits)
        BY <3>1, <3>2 DEF MadeOf
      <3> HIDE DEF Row
      <3>4. QED
        BY <1>1, <2>1, <3>3 DEF SplitInv, HalfSplit
    <2>3. ASSUME NEW r \in RangeOf(rows)
          PROVE  \E i \in DOMAIN before : \E f \in Choices(before[i]) : r = Row(i, f)
      <3>1. PICK i \in DOMAIN before : MadeOf(r, before[i], splits)
        BY <1>1, <2>1 DEF SplitInv, HalfSplit, RangeOf
      <3> DEFINE f == [c \in splits |-> r[c]]
      <3>2. \A c \in splits : f[c] \in Several(before[i][c])
        BY <2>1, <3>1 DEF MadeOf
      <3>3. f \in [splits -> UNION {Several(before[i][c]) : c \in splits}]
        BY <3>2
      <3>4. f \in Choices(before[i])
        BY <3>2, <3>3 DEF Choices
      <3>5. r = Row(i, f)
        BY <3>1 DEF MadeOf, IsRow
      <3>6. QED
        BY <3>4, <3>5
    <2> HIDE DEF Row
    <2>4. RangeOf(rows) = UNION {{Row(i, f) : f \in Choices(before[i])} : i \in DOMAIN before}
      BY <2>2, <2>3
    <2>5. QED
      BY <2>4 DEF Row
  <1>2. QED
    BY <1>1, SplitInvInit, SplitInvNext, IndInvHolds, PTL DEF Spec
-----------------------------------------------------------------------------
(* The rules.                                                              *)

\* In a finite set something has the largest number: what fewest exceed.
LEMMA LargestExists ==
  ASSUME NEW S, S # {}, IsFiniteSet(S), NEW f \in [S -> Int]
  PROVE  \E x \in S : \A y \in S : f[y] <= f[x]
  <1> DEFINE Above(x) == {y \in S : f[y] > f[x]}
             N == {Cardinality(Above(x)) : x \in S}
  <1>1. ASSUME NEW x \in S PROVE IsFiniteSet(Above(x)) /\ Cardinality(Above(x)) \in Nat
    <2>1. Above(x) \subseteq S
      OBVIOUS
    <2>2. QED
      BY <2>1, FS_Subset, FS_CardinalityType
  <1>2. N \in SUBSET Nat /\ N # {}
    <2>1. PICK x \in S : TRUE
      OBVIOUS
    <2>2. Cardinality(Above(x)) \in N
      OBVIOUS
    <2>3. QED
      BY <1>1, <2>2
  <1>3. PICK n \in N : \A m \in N : n <= m
    BY <1>2, LeastExists
  <1>4. PICK x \in S : n = Cardinality(Above(x))
    BY <1>3
  <1>5. ASSUME NEW y \in S, ~(f[y] <= f[x]) PROVE FALSE
    <2>1. Above(y) \subseteq Above(x) /\ y \in Above(x) /\ y \notin Above(y)
      BY <1>4, <1>5
    <2>2. Cardinality(Above(y)) <= Cardinality(Above(x)) /\ Cardinality(Above(y)) # Cardinality(Above(x))
      BY <1>1, <1>4, <2>1, FS_Subset
    <2>3. Cardinality(Above(x)) <= Cardinality(Above(y))
      <3>1. Cardinality(Above(y)) \in N
        BY <1>5
      <3> HIDE DEF N
      <3>2. QED
        BY <1>3, <1>4, <3>1
    <2>4. Cardinality(Above(x)) \in Nat /\ Cardinality(Above(y)) \in Nat
      BY <1>1, <1>4, <1>5
    <2>5. QED
      BY <2>2, <2>3, <2>4
  <1>6. QED
    BY <1>5

LEMMA SmallestExists ==
  ASSUME NEW S, S # {}, IsFiniteSet(S), NEW f \in [S -> Int]
  PROVE  \E x \in S : \A y \in S : f[x] <= f[y]
  <1> DEFINE g == [x \in S |-> 0 - f[x]]
  <1>1. g \in [S -> Int]
    OBVIOUS
  <1>2. PICK x \in S : \A y \in S : g[y] <= g[x]
    BY <1>1, LargestExists
  <1>3. QED
    BY <1>2

LEMMA BoundsExist ==
  ASSUME NEW S \in SUBSET (Number \ {NaN}), S # {}, IsFiniteSet(S)
  PROVE  /\ \E x \in S : \A y \in S : AtMost(x, y)
         /\ \E x \in S : \A y \in S : AtMost(y, x)
  <1> DEFINE F == {x \in S : x[1] = "num"}
             f == [x \in F |-> x[2]]
  <1>1. \A x \in S : x = NegInf \/ x = PosInf \/ (x[1] = "num" /\ x[2] \in Int)
    BY DEF Number, NegInf, PosInf, NaN
  <1>2. IsFiniteSet(F) /\ f \in [F -> Int]
    BY <1>1, FS_Subset DEF NegInf, PosInf
  <1>3. CASE F = {}
    <2>1. \A x \in S : x = NegInf \/ x = PosInf
      BY <1>1, <1>3
    <2>2. QED
      BY <2>1 DEF AtMost
  <1>4. CASE F # {}
    <2>1. PICK x \in F : \A y \in F : f[x] <= f[y]
      BY <1>2, <1>4, SmallestExists
    <2>2. PICK z \in F : \A y \in F : f[y] <= f[z]
      BY <1>2, <1>4, LargestExists
    <2>3. \A y \in S : y = NegInf \/ AtMost(x, y)
      BY <1>1, <2>1 DEF AtMost
    <2>4. \A y \in S : y = PosInf \/ AtMost(y, z)
      BY <1>1, <2>2 DEF AtMost
    <2>5. \A y \in S : AtMost(NegInf, y) /\ AtMost(y, PosInf)
      BY DEF AtMost
    <2>6. QED
      BY <2>3, <2>4, <2>5
  <1>5. QED
    BY <1>3, <1>4

LEMMA CellsFinite ==
  ASSUME IsTable(rows), NEW c
  PROVE  IsFiniteSet(CellsOf(rows, c))
  <1> DEFINE f == [i \in DOMAIN rows |-> rows[i][c]]
  <1>1. f \in Surjection(DOMAIN rows, CellsOf(rows, c))
    BY DEF Surjection, CellsOf
  <1>2. IsFiniteSet(DOMAIN rows)
    BY FS_Interval DEF IsTable
  <1>3. QED
    BY <1>1, <1>2, FS_Surjection

LEMMA CountType ==
  ASSUME IsTable(rows), NEW c, NEW v
  PROVE  Count(rows, c, v) \in Nat
  <1>1. IsFiniteSet(DOMAIN rows)
    BY FS_Interval DEF IsTable
  <1>2. QED
    BY <1>1, FS_Subset, FS_CardinalityType DEF Count

\* The canonical form of a value is one of those it is alike to.
LEMMA CanonicalIsAlike ==
  ASSUME IsTable(rows), NEW c, CellsOf(rows, c) \subseteq Cell,
         NEW v \in CellsOf(rows, c), v # Empty
  PROVE  Canonical(rows, c, v) # Empty /\ Fold(Canonical(rows, c, v)) = Fold(v)
  <1> DEFINE group == {u \in CellsOf(rows, c) : u # Empty /\ Fold(u) = Fold(v)}
             most == {u \in group : \A w \in group : Count(rows, c, w) <= Count(rows, c, u)}
             times == [u \in group |-> Count(rows, c, u)]
             text == [u \in most |-> u[2]]
  <1>1. v \in group /\ IsFiniteSet(group)
    BY CellsFinite, FS_Subset
  <1>2. times \in [group -> Int]
    BY CountType
  <1>3. PICK x \in group : \A y \in group : times[y] <= times[x]
    BY <1>1, <1>2, LargestExists
  <1>4. x \in most /\ IsFiniteSet(most)
    BY <1>1, <1>3, FS_Subset
  <1>5. text \in [most -> Int]
    <2>1. \A u \in Cell : u[2] \in Int
      BY TextAssumption DEF Cell, Number, NaN, PosInf, NegInf
    <2>2. QED
      BY <2>1
  <1>6. \E u \in most : \A w \in most : text[u] <= text[w]
    BY <1>4, <1>5, SmallestExists
  <1>7. \E u \in most : \A w \in most : u[2] <= w[2]
    BY <1>6
  <1>8. Canonical(rows, c, v) = CHOOSE u \in most : \A w \in most : u[2] <= w[2]
    BY DEF Canonical
  <1>9. Canonical(rows, c, v) \in most
    <2> HIDE DEF most
    <2>1. QED
      BY <1>7, <1>8
  <1>10. QED
    BY <1>9

\* Values that are alike have the same canonical form.
LEMMA AlikeHaveOneForm ==
  ASSUME NEW c, NEW v, NEW w, v # Empty, w # Empty, Fold(v) = Fold(w)
  PROVE  Canonical(rows, c, v) = Canonical(rows, c, w)
  BY DEF Canonical

LEMMA Quotient ==
  ASSUME NEW s \in Nat, NEW m \in Nat, NEW n \in Nat, n > 0, m <= n
  PROVE  (s * m) \div n \in 0..s
  <1> DEFINE p == s * m
             q == p \div n
  <1>1. p \in Nat /\ p <= s * n /\ s * n \in Nat
    BY SMT
  <1> HIDE DEF p
  <1>2. q \in Int /\ n * q <= p /\ p < n * q + n
    BY <1>1, SMT
  <1> HIDE DEF q
  <1>3. q >= 0
    <2> SUFFICES ASSUME q + 1 <= 0 PROVE FALSE
      BY <1>2
    <2>1. n * (q + 1) <= 0 /\ n * (q + 1) = n * q + n
      BY <1>2, SMT
    <2>2. QED
      BY <1>1, <1>2, <2>1
  <1>4. q <= s
    <2> SUFFICES ASSUME s + 1 <= q PROVE FALSE
      BY <1>2
    <2>1. n * (s + 1) <= n * q /\ n * (s + 1) = s * n + n
      BY <1>2, SMT
    <2>2. QED
      BY <1>1, <1>2, <2>1
  <1>5. QED
    BY <1>2, <1>3, <1>4 DEF q, p

\* The least number is divided to 0, the greatest to 1.
LEMMA QuotientEnds ==
  ASSUME NEW s \in Nat, NEW n \in Nat, n > 0
  PROVE  (s * 0) \div n = 0 /\ (s * n) \div n = s
  <1>1. s * 0 = 0 /\ 0 \div n = 0
    BY SMT
  <1>2. (s * n) \div n = s
    <2> DEFINE p == s * n
               q == p \div n
    <2>1. p \in Nat /\ p = n * s
      BY SMT
    <2> HIDE DEF p
    <2>2. q \in Int /\ n * q <= p /\ p < n * q + n
      BY <2>1, SMT
    <2> HIDE DEF q
    <2>3. ~(q < s)
      <3> SUFFICES ASSUME q + 1 <= s PROVE FALSE
        BY <2>2
      <3>1. n * (q + 1) <= n * s /\ n * (q + 1) = n * q + n
        BY <2>2, SMT
      <3>2. QED
        BY <2>1, <2>2, <3>1
    <2>4. ~(s < q)
      <3> SUFFICES ASSUME s + 1 <= q PROVE FALSE
        BY <2>2
      <3>1. n * (s + 1) <= n * q /\ n * (s + 1) = n * s + n
        BY <2>2, SMT
      <3>2. QED
        BY <2>1, <2>2, <3>1
    <2>5. QED
      BY <2>2, <2>3, <2>4 DEF q, p
  <1>3. QED
    BY <1>1, <1>2

\* The least and the greatest number, where they are finite, are numbers of the
\* column, and all its numbers but NaN lie between them.
LEMMA ExtremesAreBounds ==
  ASSUME IsTable(rows), NEW c, CellsOf(rows, c) \subseteq Cell, NEW s,
         s = Extremes(rows, c), Measured(s)
  PROVE  /\ s[1] \in Numbers(rows, c) /\ s[2] \in Numbers(rows, c)
         /\ s[1] = <<"num", s[1][2]>> /\ s[2] = <<"num", s[2][2]>>
         /\ s[1][2] \in Int /\ s[2][2] \in Int /\ s[1][2] < s[2][2]
         /\ \A x \in Numbers(rows, c) \ {NaN} :
               x = <<"num", x[2]>> /\ x[2] \in Int /\ s[1][2] <= x[2] /\ x[2] <= s[2][2]
  <1> DEFINE read == {i \in DOMAIN rows : Parse(rows[i][c]) \notin Text}
             first == CHOOSE i \in read : \A j \in read : i <= j
             N == Numbers(rows, c) \ {NaN}
  <1>1. s = IF read = {} THEN <<>>
            ELSE IF Parse(rows[first][c]) = NaN THEN <<NaN, NaN>>
            ELSE <<Least(N), Greatest(N)>>
    BY Zenon DEF Extremes
  <1>2. read # {}
    BY <1>1 DEF Measured
  <1>3. first \in read
    <2>1. read \in SUBSET Nat
      BY DEF IsTable
    <2>2. \E i \in read : \A j \in read : i <= j
      BY <1>2, <2>1, LeastExists
    <2> HIDE DEF read
    <2>3. QED
      BY <2>2
  <1>4. Parse(rows[first][c]) # NaN
    <2> SUFFICES ASSUME Parse(rows[first][c]) = NaN PROVE FALSE
      OBVIOUS
    <2> HIDE DEF first, read
    <2>1. s = <<NaN, NaN>>
      BY <1>1, <1>2
    <2>2. QED
      BY <2>1 DEF Measured
  <1>5. s = <<Least(N), Greatest(N)>>
    <2> HIDE DEF first, read, N
    <2>1. QED
      BY <1>1, <1>2, <1>4
  <1>6. Parse(rows[first][c]) \in N
    <2> HIDE DEF first
    <2>1. QED
      BY <1>3, <1>4 DEF Numbers, CellsOf
  <1>7. N \subseteq Number \ {NaN}
    <2>1. \A v \in Cell : Parse(v) \in Cell
      BY TextAssumption DEF Parse
    <2>2. QED
      BY <2>1 DEF Numbers, Cell
  <1>8. IsFiniteSet(N)
    <2> DEFINE V == CellsOf(rows, c)
               P == {Parse(v) : v \in V}
               f == [v \in V |-> Parse(v)]
    <2>1. IsFiniteSet(V)
      BY CellsFinite
    <2>2. f \in Surjection(V, P)
      BY DEF Surjection
    <2>3. IsFiniteSet(P)
      BY <2>1, <2>2, FS_Surjection
    <2>4. N \subseteq P
      BY DEF Numbers
    <2>5. QED
      BY <2>3, <2>4, FS_Subset
  <1> HIDE DEF N, first, read
  <1>9. /\ Least(N) \in N /\ \A y \in N : AtMost(Least(N), y)
        /\ Greatest(N) \in N /\ \A y \in N : AtMost(y, Greatest(N))
    <2>1. /\ \E x \in N : \A y \in N : AtMost(x, y)
          /\ \E x \in N : \A y \in N : AtMost(y, x)
      BY <1>6, <1>7, <1>8, BoundsExist
    <2>2. QED
      BY <2>1 DEF Least, Greatest
  <1>10. /\ s[1] \in N /\ s[2] \in N /\ s[1] # s[2] /\ s[1][1] = "num" /\ s[2][1] = "num"
         /\ \A y \in N : AtMost(s[1], y) /\ AtMost(y, s[2])
    BY <1>5, <1>9 DEF Measured
  <1>11. \A x \in N : x = NegInf \/ x = PosInf \/ (x = <<"num", x[2]>> /\ x[2] \in Int)
    BY <1>7 DEF Number
  <1>12. /\ s[1] = <<"num", s[1][2]>> /\ s[1][2] \in Int
         /\ s[2] = <<"num", s[2][2]>> /\ s[2][2] \in Int
    BY <1>10, <1>11 DEF NegInf, PosInf
  <1>13. \A x \in N : x = <<"num", x[2]>> /\ x[2] \in Int
                       /\ s[1][2] <= x[2] /\ x[2] <= s[2][2]
    <2> SUFFICES ASSUME NEW x \in N
                 PROVE  x = <<"num", x[2]>> /\ x[2] \in Int
                        /\ s[1][2] <= x[2] /\ x[2] <= s[2][2]
      OBVIOUS
    <2>1. AtMost(s[1], x) /\ AtMost(x, s[2])
      BY <1>10
    <2>2. x # NegInf /\ x # PosInf
      BY <1>10, <2>1 DEF AtMost, NegInf, PosInf
    <2>3. QED
      BY <1>10, <1>11, <2>1, <2>2 DEF AtMost, NegInf, PosInf
  <1>14. s[1][2] < s[2][2]
    BY <1>10, <1>12, <1>13
  <1>15. QED
    BY <1>10, <1>12, <1>13, <1>14 DEF N

\* What scaling makes of a cell of a column that can be measured.
LEMMA ScaledCell ==
  ASSUME NEW s, Measured(s), NEW lo \in Int, NEW hi \in Int, lo < hi,
         s[1] = <<"num", lo>>, s[2] = <<"num", hi>>, NEW v
  PROVE  /\ Parse(v) \in Text => Scaled(v, s) = v
         /\ Parse(v) = NaN /\ NaN \notin Text => Scaled(v, s) = NaN
         /\ \A m \in lo..hi : Parse(v) = <<"num", m>> /\ <<"num", m>> \notin Text =>
               Scaled(v, s) = <<"num", (Scale * (m - lo)) \div (hi - lo)>>
  <1>1. hi - lo <= MaxNumber /\ MaxNumber \in Nat /\ s # <<>> /\ s[1] # s[2]
    <2>1. s[1][2] = lo /\ s[2][2] = hi
      OBVIOUS
    <2>2. QED
      BY <2>1, BoundsAssumption DEF Measured
  <1>2. Minus(s[2], s[1]) = <<"num", hi - lo>>
    BY <1>1 DEF Minus, NaN
  <1>3. Minus(NaN, s[1]) = NaN /\ Over(NaN, Minus(s[2], s[1])) = NaN
    BY DEF Minus, Over
  <1>4. ASSUME NEW m \in lo..hi
        PROVE  Over(Minus(<<"num", m>>, s[1]), Minus(s[2], s[1]))
                  = <<"num", (Scale * (m - lo)) \div (hi - lo)>>
    <2>1. Minus(<<"num", m>>, s[1]) = <<"num", m - lo>>
      BY <1>1 DEF Minus, NaN
    <2>2. \A x, y : Over(<<"num", x>>, <<"num", y>>) = <<"num", (Scale * x) \div y>>
      BY DEF Over, NaN
    <2>3. QED
      BY <1>2, <2>1, <2>2
  <1>5. QED
    BY <1>1, <1>3, <1>4 DEF Scaled

LEMMA RulesType ==
  ASSUME job \in Inputs
  PROVE  /\ Len(job.rules) \in Nat /\ DOMAIN job.rules = 1..Len(job.rules)
         /\ \A k \in DOMAIN job.rules : job.rules[k].column \in Column
  <1> DEFINE R == [column : Column, op : STRING]
  <1>1. job.rules \in Seq(R)
    BY InputsAssumption
  <1>2. \A r \in R : r.column \in Column
    OBVIOUS
  <1> HIDE DEF R
  <1>3. QED
    BY <1>1, <1>2

Untouched(c) == \A i \in DOMAIN job.rules : i < next => job.rules[i].column # c
Lone(k) == \A i \in DOMAIN job.rules \ {k} : job.rules[i].column # job.rules[k].column

\* What a rule is for.
Goal(op, c) ==
    /\ op = "enum_map" =>
          \A u, v \in CellsOf(rows, c) \ {Empty} : Fold(u) = Fold(v) => u = v
    /\ op = "min_max_scale" /\ Measured(stats[c]) =>
          /\ {<<"num", 0>>, <<"num", Scale>>} \subseteq Numbers(rows, c)
          /\ Numbers(rows, c) \subseteq {NaN} \cup {<<"num", n>> : n \in 0..Scale}

\* A column no rule was applied to is as it was analyzed, and a rule that is
\* the only one of its column has reached its goal since it was applied.
RuleInv ==
    /\ pc = "start" => \A c \in Column : CellsOf(rows, c) \subseteq Cell
    /\ pc = "rules" =>
          /\ \A c \in Column : Untouched(c) =>
                /\ CellsOf(rows, c) \subseteq Cell
                /\ stats[c] = Extremes(rows, c)
                /\ forms[c] = [v \in CellsOf(rows, c) |-> Canonical(rows, c, v)]
          /\ \A k \in DOMAIN job.rules :
                k < next /\ Lone(k) => Goal(job.rules[k].op, job.rules[k].column)

LEMMA RuleInvInit == Init => RuleInv
  <1> SUFFICES ASSUME Init PROVE RuleInv
    OBVIOUS
  <1>1. rows \in [1..job.size -> job.records]
    BY DEF Init
  <1>2. job \in Inputs /\ job.records \subseteq [Column -> Cell]
    BY InputsAssumption DEF Init
  <1>3. \A i \in DOMAIN rows : \A c \in Column : rows[i][c] \in Cell
    BY <1>1, <1>2
  <1>4. \A c \in Column : CellsOf(rows, c) \subseteq Cell
    BY <1>3 DEF CellsOf
  <1>5. QED
    BY <1>4 DEF Init, RuleInv

\* What a rule makes of a column that was as analyzed reaches its goal.
LEMMA RuleReachesGoal ==
  ASSUME IndInv, RuleInv, ApplyRule, NEW op, NEW c,
         op = job.rules[next].op, c = job.rules[next].column, Untouched(c)
  PROVE  Goal(op, c)'
  <1> DEFINE cells == CellsOf(rows, c)
  <1>1. /\ pc = "rules" /\ next \in DOMAIN job.rules /\ c \in Column /\ IsTable(rows)
        /\ stats' = stats /\ forms' = forms /\ job' = job
    BY RulesType, RowsAreTable DEF ApplyRule, IndInv, derived
  <1>2. /\ cells \subseteq Cell /\ stats[c] = Extremes(rows, c)
        /\ forms[c] = [v \in cells |-> Canonical(rows, c, v)]
    BY <1>1 DEF RuleInv
  <1>3. CellsOf(rows', c) = {Transform(op, c, v) : v \in cells}
    <2>1. DOMAIN rows' = DOMAIN rows
          /\ \A i \in DOMAIN rows : rows'[i][c] = Transform(op, c, rows[i][c])
      BY <1>1 DEF ApplyRule, IsTable
    <2>2. QED
      BY <2>1 DEF CellsOf
  <1>4. ASSUME op = "enum_map", NEW u \in CellsOf(rows', c) \ {Empty},
               NEW v \in CellsOf(rows', c) \ {Empty}, Fold(u) = Fold(v)
        PROVE  u = v
    <2>1. \A x \in cells : Transform(op, c, x) = Canonical(rows, c, x)
      BY <1>2, <1>4 DEF Transform
    <2>2. PICK x \in cells : u = Canonical(rows, c, x)
      BY <1>3, <2>1, <1>4
    <2>3. PICK y \in cells : v = Canonical(rows, c, y)
      BY <1>3, <2>1, <1>4
    <2>4. x # Empty /\ y # Empty
      BY <1>4, <2>2, <2>3 DEF Canonical
    <2>5. Fold(u) = Fold(x) /\ Fold(v) = Fold(y)
      BY <1>1, <1>2, <2>2, <2>3, <2>4, CanonicalIsAlike
    <2>6. QED
      BY <1>4, <2>2, <2>3, <2>4, <2>5, AlikeHaveOneForm
  <1>5. ASSUME op = "min_max_scale", Measured(stats[c])
        PROVE  /\ {<<"num", 0>>, <<"num", Scale>>} \subseteq Numbers(rows', c)
               /\ Numbers(rows', c) \subseteq {NaN} \cup {<<"num", n>> : n \in 0..Scale}
    <2> DEFINE s == stats[c]
               lo == s[1][2]
               hi == s[2][2]
               At(m) == <<"num", (Scale * (m - lo)) \div (hi - lo)>>
    <2>1. /\ s[1] \in Numbers(rows, c) /\ s[2] \in Numbers(rows, c)
          /\ s[1] = <<"num", lo>> /\ s[2] = <<"num", hi>> /\ lo \in Int /\ hi \in Int /\ lo < hi
          /\ \A x \in Numbers(rows, c) \ {NaN} :
                x = <<"num", x[2]>> /\ x[2] \in Int /\ lo <= x[2] /\ x[2] <= hi
      BY <1>1, <1>2, <1>5, ExtremesAreBounds
    <2>2. \A x \in cells : Transform(op, c, x) = Scaled(x, s)
      BY <1>5 DEF Transform
    <2> HIDE DEF s, lo, hi, cells
    <2>3. NaN \notin Text /\ \A n : <<"num", n>> \notin Text
      BY TextAssumption DEF NaN
    <2>4. \A x : x \notin Text => Parse(x) = x
      BY DEF Parse
    <2>5. ASSUME NEW x \in cells
          PROVE  /\ Parse(x) \in Text => Scaled(x, s) = x
                 /\ Parse(x) = NaN => Scaled(x, s) = NaN
                 /\ \A m \in lo..hi : Parse(x) = <<"num", m>> => Scaled(x, s) = At(m)
      BY <1>5, <2>1, <2>3, ScaledCell DEF s
    <2>6. \A m \in lo..hi : (Scale * (m - lo)) \div (hi - lo) \in 0..Scale
      <3> SUFFICES ASSUME NEW m \in lo..hi
                   PROVE  (Scale * (m - lo)) \div (hi - lo) \in 0..Scale
        OBVIOUS
      <3>1. m - lo \in Nat /\ hi - lo \in Nat /\ hi - lo > 0 /\ m - lo <= hi - lo /\ Scale \in Nat
        BY <2>1, BoundsAssumption
      <3>2. QED
        BY <3>1, Quotient
    <2>7. At(lo) = <<"num", 0>> /\ At(hi) = <<"num", Scale>>
      <3>1. hi - lo \in Nat /\ hi - lo > 0 /\ lo - lo = 0 /\ Scale \in Nat
        BY <2>1, BoundsAssumption
      <3>2. (Scale * 0) \div (hi - lo) = 0 /\ (Scale * (hi - lo)) \div (hi - lo) = Scale
        BY <3>1, QuotientEnds
      <3>3. QED
        BY <3>1, <3>2
    <2>8. ASSUME NEW m \in lo..hi, <<"num", m>> \in Numbers(rows, c)
          PROVE  At(m) \in Numbers(rows', c)
      <3>1. PICK x \in cells : Parse(x) = <<"num", m>>
        BY <2>8 DEF Numbers, cells
      <3>2. At(m) \in CellsOf(rows', c)
        BY <1>3, <2>2, <2>5, <3>1 DEF cells
      <3>3. QED
        BY <2>3, <2>4, <3>2 DEF Numbers
    <2>9. ASSUME NEW y \in Numbers(rows', c), y # NaN
          PROVE  y \in {<<"num", n>> : n \in 0..Scale}
      <3>1. PICK x \in cells : y = Parse(Scaled(x, s)) /\ y \notin Text
        BY <1>3, <2>2 DEF Numbers, cells
      <3>2. Parse(x) \notin Text
        BY <2>5, <3>1
      <3>3. Parse(x) # NaN
        BY <2>3, <2>4, <2>5, <2>9, <3>1
      <3>4. Parse(x) \in Numbers(rows, c) \ {NaN}
        BY <3>2, <3>3 DEF Numbers, cells
      <3>5. PICK m \in lo..hi : Parse(x) = <<"num", m>>
        BY <2>1, <3>4
      <3>6. y = At(m)
        BY <2>3, <2>4, <2>5, <3>1, <3>5
      <3>7. QED
        BY <2>6, <3>6
    <2>10. QED
      BY <2>1, <2>7, <2>8, <2>9
  <1>6. QED
    BY <1>1, <1>4, <1>5 DEF Goal

LEMMA RuleInvNext ==
  ASSUME IndInv, RuleInv, [Next]_vars
  PROVE  RuleInv'
  <1>1. CASE Analyze
    <2>1. /\ pc = "start" /\ pc' = "rules" /\ next' = 1 /\ rows' = rows /\ job' = job
          /\ stats' = [c \in Column |-> Extremes(rows, c)]
          /\ forms' = [c \in Column |-> [v \in CellsOf(rows, c) |-> Canonical(rows, c, v)]]
      BY <1>1 DEF Analyze, Goto
    <2>2. \A k \in DOMAIN job'.rules : ~(k < next')
      BY <2>1, InputsAssumption DEF IndInv
    <2>3. \A c \in Column : CellsOf(rows, c) \subseteq Cell
      BY <2>1 DEF RuleInv
    <2>4. QED
      BY <2>1, <2>2, <2>3 DEF RuleInv, CellsOf, Numbers, Extremes, Canonical, Count
  <1>2. CASE ApplyRule
    <2> DEFINE c == job.rules[next].column
    <2>1. /\ pc = "rules" /\ pc' = "rules" /\ next' = next + 1 /\ job' = job
          /\ stats' = stats /\ forms' = forms /\ IsTable(rows)
          /\ next \in DOMAIN job.rules /\ c \in Column /\ DOMAIN job.rules \subseteq Nat
          /\ next \in Nat
      BY <1>2, RulesType, RowsAreTable DEF ApplyRule, IndInv, derived
    <2>2. \A d \in Column \ {c} : \A i \in DOMAIN rows : rows'[i][d] = rows[i][d]
      BY <1>2, <2>1 DEF ApplyRule, IsTable
    <2>3. DOMAIN rows' = DOMAIN rows
      BY <1>2 DEF ApplyRule
    <2>4. \A d \in Column \ {c} : CellsOf(rows', d) = CellsOf(rows, d)
      BY <2>2, <2>3 DEF CellsOf
    <2>5. ASSUME NEW d \in Column, Untouched(d)'
          PROVE  /\ CellsOf(rows', d) \subseteq Cell
                 /\ stats'[d] = Extremes(rows', d)
                 /\ forms'[d] = [v \in CellsOf(rows', d) |-> Canonical(rows', d, v)]
      <3>1. d # c /\ Untouched(d)
        BY <2>1, <2>5 DEF Untouched
      <3>2. \A v : Count(rows', d, v) = Count(rows, d, v)
        BY <2>2, <2>3, <3>1 DEF Count
      <3>3. \A v : Canonical(rows', d, v) = Canonical(rows, d, v)
        <4> SUFFICES ASSUME NEW v PROVE Canonical(rows', d, v) = Canonical(rows, d, v)
          OBVIOUS
        <4> DEFINE group(t) == {u \in CellsOf(t, d) : u # Empty /\ Fold(u) = Fold(v)}
                   most(t) == {u \in group(t) : \A w \in group(t) : Count(t, d, w) <= Count(t, d, u)}
        <4>1. group(rows') = group(rows)
          BY <2>4, <3>1
        <4>2. most(rows') = most(rows)
          BY <3>2, <4>1
        <4>3. \A t : Canonical(t, d, v) = IF v = Empty THEN v
                                          ELSE CHOOSE u \in most(t) : \A w \in most(t) : u[2] <= w[2]
          BY DEF Canonical
        <4> HIDE DEF most
        <4>4. QED
          BY <4>2, <4>3
      <3>4. Extremes(rows', d) = Extremes(rows, d)
        <4> DEFINE read(t) == {i \in DOMAIN t : Parse(t[i][d]) \notin Text}
                   first(t) == CHOOSE i \in read(t) : \A j \in read(t) : i <= j
                   N(t) == Numbers(t, d) \ {NaN}
        <4>1. N(rows') = N(rows) /\ read(rows') = read(rows)
          BY <2>2, <2>3, <2>4, <3>1 DEF Numbers
        <4>2. \A t : Extremes(t, d) = IF read(t) = {} THEN <<>>
                                      ELSE IF Parse(t[first(t)][d]) = NaN THEN <<NaN, NaN>>
                                      ELSE <<Least(N(t)), Greatest(N(t))>>
          BY Zenon DEF Extremes
        <4>3. first(rows') = first(rows)
          BY <4>1
        <4>4. read(rows) # {} => first(rows) \in DOMAIN rows
          <5> SUFFICES ASSUME read(rows) # {} PROVE first(rows) \in read(rows)
            OBVIOUS
          <5>1. read(rows) \in SUBSET Nat
            BY <2>1 DEF IsTable
          <5>2. \E i \in read(rows) : \A j \in read(rows) : i <= j
            BY <5>1, LeastExists
          <5> HIDE DEF read
          <5>3. QED
            BY <5>2
        <4> HIDE DEF read, first, N
        <4>5. QED
          BY <2>2, <3>1, <4>1, <4>2, <4>3, <4>4
      <3>5. QED
        BY <2>1, <2>4, <3>1, <3>3, <3>4 DEF RuleInv
    <2>6. ASSUME NEW k \in DOMAIN job.rules, k < next + 1, Lone(k)
          PROVE  \A op, d : op = job.rules[k].op /\ d = job.rules[k].column => Goal(op, d)'
      <3>1. CASE k = next
        <4>1. Untouched(c)
          BY <2>1, <2>6, <3>1 DEF Untouched, Lone
        <4>2. QED
          BY <1>2, <2>1, <3>1, <4>1, RuleReachesGoal
      <3>2. CASE k # next
        <4> DEFINE d == job.rules[k].column
        <4>1. k < next /\ d # c /\ d \in Column
          BY <2>1, <2>6, <3>2, RulesType DEF Lone, IndInv
        <4>2. Goal(job.rules[k].op, d)
          BY <2>1, <2>6, <4>1 DEF RuleInv
        <4>3. Numbers(rows', d) = Numbers(rows, d) /\ CellsOf(rows', d) = CellsOf(rows, d)
          BY <2>4, <4>1 DEF Numbers
        <4>4. QED
          BY <2>1, <4>2, <4>3 DEF Goal
      <3>3. QED
        BY <3>1, <3>2
    <2>7. QED
      BY <2>1, <2>5, <2>6 DEF RuleInv, Lone
  <1>3. CASE UNCHANGED vars
    <2>1. /\ pc' = pc /\ next' = next /\ job' = job /\ rows' = rows /\ stats' = stats
          /\ forms' = forms
      BY <1>3 DEF vars
    <2>2. /\ \A c : Untouched(c)' <=> Untouched(c)
          /\ \A k : Lone(k)' <=> Lone(k)
          /\ \A op, c : Goal(op, c)' <=> Goal(op, c)
      BY <2>1 DEF Untouched, Lone, Goal
    <2>3. QED
      BY <2>1, <2>2 DEF RuleInv
  <1>4. CASE \/ DetectSplits \/ Expand \/ EndExpand \/ ExtractCategory \/ EndCategories
             \/ ScanColumn \/ ExtractTransitive \/ EndTransitive \/ Store
    <2>1. pc' \in {"1NF", "2NF", "3NF", "store", "done"}
      BY <1>4 DEF DetectSplits, Expand, EndExpand, ExtractCategory, EndCategories, ScanColumn,
                  ExtractTransitive, EndTransitive, Store, Goto
    <2>2. QED
      BY <2>1 DEF RuleInv
  <1>5. QED
    BY <1>1, <1>2, <1>3, <1>4 DEF Next

\* The rules as a whole (lines 216-253 and 282-290): what each of them is for is
\* true of its column when all have been applied, if no other rule is about it.
THEOREM LoneRulesWork == Spec => []LoneRulesReachTheirGoal
  <1>1. ASSUME IndInv, RuleInv PROVE LoneRulesReachTheirGoal
    <2> SUFFICES ASSUME pc = "rules", next > Len(job.rules), NEW k \in DOMAIN job.rules, Lone(k)
                 PROVE  Goal(job.rules[k].op, job.rules[k].column)
      BY DEF LoneRulesReachTheirGoal, Lone, Goal
    <2>1. k < next
      BY <1>1, RulesType DEF IndInv
    <2>2. QED
      BY <1>1, <2>1 DEF RuleInv
  <1>2. QED
    BY <1>1, RuleInvInit, RuleInvNext, IndInvHolds, PTL DEF Spec
-----------------------------------------------------------------------------
(* The identifiers.                                                        *)

\* A row finds its one row in a table that was split off.
Resolves(l, r) == Cardinality({s \in l.rows : s[IdOf[l.det]] = r[IdOf[l.det]]}) = 1

\* The identifier of a table is in the main table or in one split off later, and
\* wherever it is, it resolves.
KeysResolve ==
    \A k \in DOMAIN lookups :
        LET l == lookups[k]
            id == IdOf[l.det]
        IN  /\ id \in columns \/ \E n \in DOMAIN lookups : n > k /\ id \in lookups[n].columns
            /\ id \in columns => \A i \in DOMAIN rows : Resolves(l, rows[i])
            /\ \A n \in DOMAIN lookups : n > k /\ id \in lookups[n].columns =>
                  \A r \in lookups[n].rows : Resolves(l, r)

KeyInv ==
    /\ pc \in {"start", "rules", "1NF"} => lookups = <<>>
    /\ \A k \in DOMAIN lookups : lookups[k].det \in Named
    /\ columns \subseteq RangeOf(job.order) \cup {IdOf[lookups[k].det] : k \in DOMAIN lookups}
    /\ NamesFree => KeysResolve
    /\ pc = "done" /\ NamesFree =>
          \A k \in DOMAIN lookups : stored[Sanitize[lookups[k].det]] = lookups[k]

\* The table that is split off comes last.
LEMMA ExtractAppends ==
  ASSUME IndInv, NEW c, NEW deps, Extract(c, deps)
  PROVE  /\ Len(lookups) \in Nat /\ DOMAIN lookups = 1..Len(lookups)
         /\ DOMAIN lookups' = 1..(Len(lookups) + 1)
         /\ \A k \in DOMAIN lookups : lookups'[k] = lookups[k]
         /\ lookups'[Len(lookups) + 1] = Lookup(c, deps)
  <1>1. PICK S : lookups \in Seq(S)
    BY DEF IndInv
  <1> DEFINE l == Lookup(c, deps)
             T == S \cup {l}
  <1>2. lookups \in Seq(T) /\ l \in T
    <2>1. S \subseteq T
      OBVIOUS
    <2>2. QED
      BY <1>1, <2>1
  <1>3. lookups' = Append(lookups, l)
    BY DEF Extract
  <1> HIDE DEF l, T
  <1>4. /\ Len(lookups) \in Nat /\ DOMAIN lookups = 1..Len(lookups)
        /\ DOMAIN lookups' = 1..(Len(lookups) + 1)
        /\ \A k \in 1..Len(lookups) : lookups'[k] = lookups[k]
        /\ lookups'[Len(lookups) + 1] = l
    BY <1>2, <1>3, AppendProperties
  <1>5. QED
    BY <1>4 DEF l

\* Each row of the main table finds its row in the table just split off.
LEMMA NewKeyResolves ==
  ASSUME IsTable(rows), columns \subseteq Column,
         NEW c \in Named \cap columns, NEW deps \in SUBSET columns, Extract(c, deps),
         IdOf[c] \notin columns, NEW i \in DOMAIN rows
  PROVE  Resolves(Lookup(c, deps), rows'[i])
  <1> DEFINE id == IdOf[c]
             l == Lookup(c, deps)
             v == rows[i][c]
             joined == {s \in l.rows : s[id] = rows'[i][id]}
  <1>1. id \in Column /\ id # c /\ id \notin deps /\ c \in Column
    BY NamesAssumption
  <1>2. rows'[i][id] = IdCell(NumberOf(c, v))
    BY <1>1 DEF Extract
  <1>3. v \in CellsOf(rows, c)
    BY DEF CellsOf
  <1>4. l.det = c /\ l.rows = {LookupRow(c, deps, u) : u \in CellsOf(rows, c)}
    BY DEF Lookup
  <1>5. \A u : LookupRow(c, deps, u)[id] = IdCell(NumberOf(c, u))
    BY <1>1 DEF LookupRow
  <1>6. \A m, n : IdCell(m) = IdCell(n) => m = n
    BY DEF IdCell
  <1>7. ASSUME NEW s \in joined
        PROVE  s = LookupRow(c, deps, v)
    <2>1. PICK u \in CellsOf(rows, c) : s = LookupRow(c, deps, u)
      BY <1>4
    <2>2. NumberOf(c, u) = NumberOf(c, v)
      BY <1>2, <1>5, <1>6, <2>1
    <2>3. u = v
      BY <1>3, <2>2, NumbersDiffer
    <2>4. QED
      BY <2>1, <2>3
  <1>8. LookupRow(c, deps, v) \in joined
    BY <1>2, <1>3, <1>4, <1>5
  <1>9. joined = {LookupRow(c, deps, v)}
    BY <1>7, <1>8
  <1>10. Cardinality(joined) = 1
    BY <1>9, FS_Singleton
  <1>11. QED
    BY <1>4, <1>10 DEF Resolves

\* A table that is split off takes the identifiers that go with it along.
LEMMA ExtractResolves ==
  ASSUME IndInv, KeyInv, NEW c \in Named \cap columns, NEW deps \in SUBSET (columns \ {c}),
         Extract(c, deps), NamesFree', job' = job
  PROVE  KeysResolve'
  <1> DEFINE N == Len(lookups)
             L == Lookup(c, deps)
  <1>1. /\ N \in Nat /\ DOMAIN lookups = 1..N /\ DOMAIN lookups' = 1..(N + 1)
        /\ \A k \in 1..N : lookups'[k] = lookups[k]
        /\ lookups'[N + 1] = L
    BY ExtractAppends
  <1>2. L.det = c /\ L.columns = {IdOf[c], c} \cup deps
        /\ L.rows = {LookupRow(c, deps, v) : v \in CellsOf(rows, c)}
    BY DEF Lookup
  <1>3. IsTable(rows) /\ columns \subseteq Column
    BY RowsAreTable DEF IndInv
  <1> HIDE DEF N, L
  <1>4. /\ \A k \in 1..N : IdOf[lookups[k].det] \notin RangeOf(job.order) /\ lookups[k].det # c
        /\ IdOf[c] \notin RangeOf(job.order)
    BY <1>1, <1>2 DEF NamesFree, RangeOf
  <1>5. \A k \in 1..N : lookups[k].det \in Named /\ IdOf[lookups[k].det] # IdOf[c]
    BY <1>1, <1>4, NamesAssumption DEF KeyInv
  <1>6. IdOf[c] \notin columns
    BY <1>1, <1>4, <1>5 DEF KeyInv
  <1>7. KeysResolve
    <2>1. NamesFree
      <3>1. \A k \in 1..N : IdOf[lookups[k].det] \notin RangeOf(job.order)
        BY <1>4
      <3>2. \A k, n \in 1..N : Sanitize[lookups[n].det] = Sanitize[lookups[k].det] => n = k
        BY <1>1 DEF NamesFree
      <3>3. QED
        BY <1>1, <3>1, <3>2 DEF NamesFree
    <2>2. QED
      BY <2>1 DEF KeyInv
  <1>8. ASSUME NEW k \in 1..N
        PROVE  LET l == lookups[k]
                   id == IdOf[l.det]
               IN  /\ id \in columns' \/ \E n \in 1..(N + 1) : n > k /\ id \in lookups'[n].columns
                   /\ id \in columns' => \A i \in DOMAIN rows' : Resolves(l, rows'[i])
                   /\ \A n \in 1..(N + 1) : n > k /\ id \in lookups'[n].columns =>
                         \A r \in lookups'[n].rows : Resolves(l, r)
    <2> DEFINE l == lookups[k]
               id == IdOf[l.det]
    <2>1. /\ id \in columns \/ \E n \in 1..N : n > k /\ id \in lookups[n].columns
          /\ id \in columns => \A i \in DOMAIN rows : Resolves(l, rows[i])
          /\ \A n \in 1..N : n > k /\ id \in lookups[n].columns =>
                \A r \in lookups[n].rows : Resolves(l, r)
      BY <1>1, <1>7 DEF KeysResolve
    <2>2. id # IdOf[c] /\ id \in Column /\ (id \in L.columns <=> id \in deps \cup {c})
      BY <1>2, <1>5, NamesAssumption
    <2>3. id \in columns' <=> id \in columns \ (deps \cup {c})
      BY <2>2 DEF Extract
    <2>4. \A n \in 1..N : n \in 1..(N + 1) /\ lookups'[n] = lookups[n]
      BY <1>1
    <2>5. N + 1 \in 1..(N + 1) /\ N + 1 > k /\ \A n \in 1..(N + 1) : n = N + 1 \/ n \in 1..N
      BY <1>1
    <2> HIDE DEF l, id
    <2>6. id \in columns' \/ \E n \in 1..(N + 1) : n > k /\ id \in lookups'[n].columns
      <3>1. CASE id \in deps \cup {c}
        BY <1>1, <2>2, <2>5, <3>1
      <3>2. CASE id \in columns \ (deps \cup {c})
        BY <2>3, <3>2
      <3>3. CASE id \notin columns
        BY <2>1, <2>4, <3>3
      <3>4. QED
        BY <3>1, <3>2, <3>3
    <2>7. ASSUME id \in columns', NEW i \in DOMAIN rows'
          PROVE  Resolves(l, rows'[i])
      <3>1. i \in DOMAIN rows /\ rows'[i][id] = rows[i][id]
        BY <2>2, <2>3, <2>7 DEF Extract
      <3>2. Resolves(l, rows[i])
        BY <2>1, <2>3, <2>7, <3>1
      <3>3. QED
        BY <3>1, <3>2 DEF Resolves, id
    <2>8. ASSUME NEW n \in 1..(N + 1), n > k, id \in lookups'[n].columns, NEW r \in lookups'[n].rows
          PROVE  Resolves(l, r)
      <3>1. CASE n \in 1..N
        BY <2>1, <2>4, <2>8, <3>1
      <3>2. CASE n = N + 1
        <4>1. id \in deps \cup {c} /\ r \in L.rows
          BY <1>1, <2>2, <2>8, <3>2
        <4>2. PICK v \in CellsOf(rows, c) : r = LookupRow(c, deps, v)
          BY <1>2, <4>1
        <4>3. FirstAt(c, v) \in DOMAIN rows /\ rows[FirstAt(c, v)][c] = v
          BY <1>3, <4>2, FirstPlace
        <4>4. r[id] = rows[FirstAt(c, v)][id]
          BY <2>2, <4>1, <4>2, <4>3 DEF LookupRow
        <4>5. Resolves(l, rows[FirstAt(c, v)])
          BY <2>1, <4>1, <4>3
        <4>6. QED
          BY <4>4, <4>5 DEF Resolves, id
      <3>3. QED
        BY <2>5, <3>1, <3>2
    <2>9. QED
      BY <2>6, <2>7, <2>8 DEF l, id
  <1>9. /\ IdOf[c] \in columns'
        /\ \A i \in DOMAIN rows' : Resolves(L, rows'[i])
    <2>1. \A i \in DOMAIN rows : Resolves(Lookup(c, deps), rows'[i])
      BY <1>3, <1>6, NewKeyResolves
    <2>2. DOMAIN rows' = DOMAIN rows /\ IdOf[c] \in columns'
      BY DEF Extract
    <2>3. QED
      BY <2>1, <2>2 DEF L
  <1>10. ASSUME NEW k \in DOMAIN lookups'
         PROVE  LET l == lookups'[k]
                    id == IdOf[l.det]
                IN  /\ id \in columns' \/ \E n \in DOMAIN lookups' : n > k /\ id \in lookups'[n].columns
                    /\ id \in columns' => \A i \in DOMAIN rows' : Resolves(l, rows'[i])
                    /\ \A n \in DOMAIN lookups' : n > k /\ id \in lookups'[n].columns =>
                          \A r \in lookups'[n].rows : Resolves(l, r)
    <2>1. CASE k \in 1..N
      BY <1>1, <1>8, <2>1
    <2>2. CASE k = N + 1
      <3>1. \A n \in DOMAIN lookups' : ~(n > k)
        BY <1>1, <2>2
      <3>2. lookups'[k] = L /\ IdOf[L.det] \in columns'
        BY <1>1, <1>2, <1>9, <2>2
      <3>3. QED
        BY <1>9, <3>1, <3>2
    <2>3. QED
      BY <1>1, <2>1, <2>2
  <1>11. QED
    BY <1>10 DEF KeysResolve

LEMMA ExtractKeys ==
  ASSUME IndInv, KeyInv, NEW c \in Named \cap columns, NEW deps \in SUBSET (columns \ {c}),
         Extract(c, deps), job' = job, pc' \in {"2NF", "3NF"}
  PROVE  KeyInv'
  <1> DEFINE N == Len(lookups)
  <1>1. /\ N \in Nat /\ DOMAIN lookups = 1..N /\ DOMAIN lookups' = 1..(N + 1)
        /\ \A k \in 1..N : lookups'[k] = lookups[k]
        /\ lookups'[N + 1].det = c
    <2>1. Lookup(c, deps).det = c
      BY DEF Lookup
    <2>2. QED
      BY <2>1, ExtractAppends
  <1> HIDE DEF N
  <1>2. \A k \in DOMAIN lookups' : lookups'[k].det \in Named
    BY <1>1 DEF KeyInv
  <1>3. columns' \subseteq RangeOf(job.order) \cup {IdOf[lookups'[k].det] : k \in DOMAIN lookups'}
    <2>1. columns' \subseteq columns \cup {IdOf[c]}
      BY DEF Extract
    <2>2. {IdOf[lookups[k].det] : k \in DOMAIN lookups} \subseteq
              {IdOf[lookups'[k].det] : k \in DOMAIN lookups'}
      BY <1>1
    <2>3. IdOf[c] \in {IdOf[lookups'[k].det] : k \in DOMAIN lookups'}
      BY <1>1
    <2>4. QED
      BY <2>1, <2>2, <2>3 DEF KeyInv
  <1>4. QED
    BY <1>2, <1>3, ExtractResolves DEF KeyInv, RangeOf

LEMMA KeyInvNext ==
  ASSUME IndInv, KeyInv, [Next]_vars
  PROVE  KeyInv'
  <1>1. CASE Analyze \/ ApplyRule \/ DetectSplits \/ Expand
    <2>1. /\ lookups' = lookups /\ lookups = <<>> /\ columns' = columns /\ job' = job
          /\ pc' # "done"
      BY <1>1 DEF Analyze, ApplyRule, DetectSplits, Expand, Goto, tables, KeyInv
    <2>2. DOMAIN lookups' = {}
      BY <2>1
    <2>3. QED
      BY <2>1, <2>2 DEF KeyInv, KeysResolve, RangeOf
  <1>2. CASE EndExpand \/ EndCategories \/ ScanColumn \/ EndTransitive
    <2>1. /\ lookups' = lookups /\ columns' = columns /\ job' = job /\ rows' = rows
          /\ pc' \in {"2NF", "3NF", "store"}
      BY <1>2 DEF EndExpand, EndCategories, ScanColumn, EndTransitive, Goto, tables
    <2>2. (NamesFree' <=> NamesFree) /\ (KeysResolve' <=> KeysResolve)
      BY <2>1 DEF NamesFree, KeysResolve, RangeOf
    <2>3. QED
      BY <2>1, <2>2 DEF KeyInv, RangeOf
  <1>3. CASE UNCHANGED vars
    <2>1. /\ lookups' = lookups /\ columns' = columns /\ job' = job /\ rows' = rows
          /\ pc' = pc /\ stored' = stored
      BY <1>3 DEF vars
    <2>2. (NamesFree' <=> NamesFree) /\ (KeysResolve' <=> KeysResolve)
      BY <2>1 DEF NamesFree, KeysResolve, RangeOf
    <2>3. QED
      BY <2>1, <2>2 DEF KeyInv, RangeOf
  <1>4. CASE ExtractCategory
    <2> DEFINE c == job.cats[next]
               deps == {d \in columns \ {c, job.pk} : IsFunctionalDependency(c, d)}
    <2>1. pc' = "2NF" /\ job' = job
      BY <1>4 DEF ExtractCategory
    <2>2. CASE c \in columns
      <3>1. c \in Named \cap columns /\ Extract(c, deps)
        BY <1>4, <2>2, InputsAssumption DEF ExtractCategory, IndInv
      <3>2. deps \in SUBSET (columns \ {c})
        OBVIOUS
      <3> HIDE DEF c, deps
      <3>3. QED
        BY <2>1, <3>1, <3>2, ExtractKeys
    <2>3. CASE c \notin columns
      <3>1. UNCHANGED <<lookups, rows, columns>>
        BY <1>4, <2>3 DEF ExtractCategory
      <3>2. (NamesFree' <=> NamesFree) /\ (KeysResolve' <=> KeysResolve)
        BY <2>1, <3>1 DEF NamesFree, KeysResolve, RangeOf
      <3>3. QED
        BY <2>1, <3>1, <3>2 DEF KeyInv, RangeOf
    <2>4. QED
      BY <2>2, <2>3
  <1>5. CASE ExtractTransitive
    <2>1. PICK t \in found : Extract(t.det, t.deps)
      BY <1>5 DEF ExtractTransitive
    <2>2. t.det \in Named \cap columns /\ t.deps \in SUBSET (columns \ {t.det})
      BY NamesAssumption DEF IndInv, FoundStands
    <2>3. pc' = "3NF" /\ job' = job
      BY <1>5 DEF ExtractTransitive
    <2>4. QED
      BY <2>1, <2>2, <2>3, ExtractKeys
  <1>6. CASE Store
    <2>1. /\ lookups' = lookups /\ columns' = columns /\ job' = job /\ rows' = rows
          /\ pc' = "done"
          /\ stored' = [name \in {Sanitize[lookups[k].det] : k \in DOMAIN lookups} |->
                     lookups[Highest({k \in DOMAIN lookups : Sanitize[lookups[k].det] = name})]]
      BY <1>6 DEF Store, Goto
    <2>2. (NamesFree' <=> NamesFree) /\ (KeysResolve' <=> KeysResolve)
      BY <2>1 DEF NamesFree, KeysResolve, RangeOf
    <2>3. ASSUME NamesFree, NEW k \in DOMAIN lookups
          PROVE  stored'[Sanitize[lookups[k].det]] = lookups[k]
      <3> DEFINE name == Sanitize[lookups[k].det]
                 S == {n \in DOMAIN lookups : Sanitize[lookups[n].det] = name}
      <3>1. S = {k}
        BY <2>3 DEF NamesFree
      <3>2. k \in Int
        BY DEF IndInv
      <3>3. Highest({k}) = k
        BY <3>2 DEF Highest
      <3>4. stored'[name] = lookups[Highest(S)]
        BY <2>1
      <3>5. QED
        BY <3>1, <3>3, <3>4
    <2>4. QED
      BY <2>1, <2>2, <2>3 DEF KeyInv, RangeOf
  <1>7. QED
    BY <1>1, <1>2, <1>3, <1>4, <1>5, <1>6 DEF Next

LEMMA KeyInvInit == Init => KeyInv
  BY DEF Init, KeyInv, KeysResolve

\* Whatever is split off after it, an identifier finds its one row in the stored
\* table of its name (apply2NF and apply3NF, lines 653-735 and 823-904, and the
\* stores, lines 125-128), if no two tables share a name.
THEOREM KeysFindTheirRows == Spec => []ForeignKeysResolve
  <1>1. ASSUME KeyInv PROVE ForeignKeysResolve
    <2> SUFFICES ASSUME pc = "done", NamesFree, NEW k \in DOMAIN lookups
                 PROVE  LET id == IdOf[lookups[k].det]
                            table == stored[Sanitize[lookups[k].det]]
                            later == {n \in DOMAIN lookups : n > k /\ id \in lookups[n].columns}
                            refer == (IF id \in columns THEN RangeOf(rows) ELSE {})
                                         \cup UNION {lookups[n].rows : n \in later}
                        IN  /\ id \in columns \/ later # {}
                            /\ \A r \in refer : Cardinality({s \in table.rows : s[id] = r[id]}) = 1
      BY DEF ForeignKeysResolve
    <2> DEFINE l == lookups[k]
               id == IdOf[l.det]
    <2>1. stored[Sanitize[l.det]] = l
      BY <1>1 DEF KeyInv
    <2>2. /\ id \in columns \/ \E n \in DOMAIN lookups : n > k /\ id \in lookups[n].columns
          /\ id \in columns => \A i \in DOMAIN rows : Resolves(l, rows[i])
          /\ \A n \in DOMAIN lookups : n > k /\ id \in lookups[n].columns =>
                \A r \in lookups[n].rows : Resolves(l, r)
      BY <1>1 DEF KeyInv, KeysResolve
    <2>3. QED
      BY <2>1, <2>2 DEF Resolves, RangeOf
  <1>2. QED
    BY <1>1, KeyInvInit, KeyInvNext, IndInvHolds, PTL DEF Spec
=============================================================================
