----------------------------- MODULE Normalize -----------------------------
(***************************************************************************)
(* The normalization executor, internal/executor/etl_normalize.go.  It     *)
(* works on a copy of a dataset: it applies rules to cells, splits cells   *)
(* of several values into rows (1NF), moves categories and what depends on *)
(* them to tables of their own (2NF), does the same with the dependencies  *)
(* that are left (3NF), and stores the tables.  It runs to its end whether *)
(* its job is cancelled or not, and no other goroutine sees its copy.      *)
(*                                                                         *)
(* A cell is a text, of which only the identity matters, or a number as    *)
(* FormatFloat writes it, which may be infinite or NaN; what string        *)
(* functions and ParseFloat make of a text is given by constants.  A       *)
(* missing cell and an empty one are the same to this code.                *)
(***************************************************************************)
EXTENDS Integers, Sequences, FiniteSets

CONSTANTS
    Column,           \* all column names that may come up
    IdColumns,        \* those that end in "_id"
    IdOf,             \* adds "_id" to a name, to "a_id" as to "a"
    Sanitize,         \* what sanitizeID makes of a name
    Inputs,           \* jobs: parameters, the header's order, size and records of the dataset
    Text,             \* the cells that are texts
    Separated,        \* the texts that contain ";" or "|"
    Atoms,            \* their parts that are not blank
    Lower,            \* a text in lower case and trimmed
    ReadAs,           \* the number a text is read as, or the text itself
    Rewrite(_, _),    \* what an operation that looks at one cell does to it
    SplitPercent,     \* 5 in the code
    UniquePercent,    \* 80 in the code
    Scale,            \* what min_max_scale takes for one
    MaxNumber         \* the largest finite number

Empty == <<"text", 0>>
IdCell(n) == <<"num", n>>
NaN == <<"nan", 0>>
PosInf == <<"inf", 1>>
NegInf == <<"inf", -1>>
Plain == Column \ IdColumns
Named == DOMAIN IdOf
Number == {NaN, PosInf, NegInf} \cup ({"num"} \X Int)
Cell == Text \cup Number

ASSUME NamesAssumption ==
    /\ IdColumns \subseteq Column /\ Plain \subseteq Named /\ Named \subseteq Column
    /\ IdOf \in [Named -> IdColumns]
    /\ \A c \in Named : IdOf[c] # c /\ \A d \in Named : IdOf[c] = IdOf[d] => c = d
ASSUME TextAssumption ==
    /\ Text \subseteq {"text"} \X Nat
    /\ Empty \in Text \ Separated /\ Separated \subseteq Text
    /\ Lower \in [Text -> Cell] /\ ReadAs \in [Text -> Cell]
    /\ \A v \in Text : ReadAs[v] \in Text => ReadAs[v] = v
    /\ Atoms \in [Separated -> Seq(Text)]
ASSUME InputsAssumption ==
    \A in \in Inputs :
        /\ in.order \in Seq(Column) /\ in.pk \in Column /\ in.form \in 0..3
        /\ in.cats \in Seq(Named) /\ in.rules \in Seq([column : Column, op : STRING])
        /\ in.size \in Nat /\ in.records \subseteq [Column -> Cell]
ASSUME BoundsAssumption == SplitPercent \in Nat /\ UniquePercent \in Nat /\ Scale \in Nat /\ MaxNumber \in Nat

VARIABLES
    pc,        \* the phase the executor is in
    job,       \* its parameters and the dataset it was given
    columns,   \* the columns of the main table
    rows,      \* its rows
    stats,     \* the least and the greatest number of each column
    forms,     \* the canonical form of each cell, by column
    next,      \* the position of the loop over rules, columns or categories
    splits,    \* the columns that 1NF splits
    before,    \* their rows as 1NF found them (history)
    expanded,  \* the rows 1NF has made of one column so far
    found,     \* the dependencies 3NF found and has not extracted
    lookups,   \* the tables split off, in order
    stored     \* the tables in the dataset store, by the last part of their name

vars == <<pc, job, columns, rows, stats, forms, next, splits, before, expanded, found,
          lookups, stored>>
derived == <<stats, forms>>
tables == <<found, lookups, stored>>

RangeOf(s) == {s[i] : i \in DOMAIN s}
CellsOf(t, c) == {t[i][c] : i \in DOMAIN t}
Count(t, c, v) == Cardinality({i \in DOMAIN t : t[i][c] = v})

-----------------------------------------------------------------------------
(* Phase 1, the rules on cells.                                            *)

Fold(v) == IF v \in Text THEN Lower[v] ELSE v
Parse(v) == IF v \in Text THEN ReadAs[v] ELSE v
Numbers(t, c) == {Parse(v) : v \in CellsOf(t, c)} \ Text

AtMost(x, y) == x = NegInf \/ y = PosInf \/ (x[1] = "num" /\ y[1] = "num" /\ x[2] <= y[2])
Least(S) == CHOOSE x \in S : \A y \in S : AtMost(x, y)
Greatest(S) == CHOOSE x \in S : \A y \in S : AtMost(y, x)

\* The least and the greatest number of a column.  The first number is taken for
\* both, and nothing is less or greater than NaN: one that comes first stays,
\* one that comes later is passed over.
Extremes(t, c) ==
    LET read == {i \in DOMAIN t : Parse(t[i][c]) \notin Text}
        first == CHOOSE i \in read : \A j \in read : i <= j
        numbers == Numbers(t, c) \ {NaN}
    IN  IF read = {} THEN <<>>
        ELSE IF Parse(t[first][c]) = NaN THEN <<NaN, NaN>>
        ELSE <<Least(numbers), Greatest(numbers)>>

\* Faulty: only the forms rarer than the most frequent one are mapped.
Canonical_KeepTies(t, c, v) ==
    LET group == {u \in CellsOf(t, c) : u # Empty /\ Fold(u) = Fold(v)}
        most == {u \in group : \A w \in group : Count(t, c, w) <= Count(t, c, u)}
    IN  IF v = Empty \/ v \in most THEN v ELSE CHOOSE u \in most : TRUE

\* The most frequent form of the cells that differ from v in case only, and the
\* first of them in the order of strings.
Canonical(t, c, v) ==
    LET group == {u \in CellsOf(t, c) : u # Empty /\ Fold(u) = Fold(v)}
        most == {u \in group : \A w \in group : Count(t, c, w) <= Count(t, c, u)}
    IN  IF v = Empty THEN v
        ELSE CHOOSE u \in most : \A w \in most : u[2] <= w[2]

Init ==
    /\ job \in Inputs
    /\ pc = "start"
    /\ columns = RangeOf(job.order)
    /\ rows \in [1..job.size -> job.records]
    /\ stats = [c \in Column |-> <<>>]
    /\ forms = [c \in Column |-> <<>>]
    /\ next = 1
    /\ splits = {}
    /\ before = <<>>
    /\ expanded = <<>>
    /\ found = {}
    /\ lookups = <<>>
    /\ stored = <<>>

Goto(place) == pc' = place /\ next' = 1

\* Statistics and canonical forms are taken before any rule is applied.
Analyze ==
    /\ pc = "start"
    /\ stats' = [c \in Column |-> Extremes(rows, c)]
    /\ forms' = [c \in Column |-> [v \in CellsOf(rows, c) |-> Canonical(rows, c, v)]]
    /\ Goto("rules")
    /\ UNCHANGED <<job, columns, rows, splits, before, expanded, tables>>

\* Differences of floating-point numbers; one too large to write is infinite.
Minus(x, y) ==
    IF NaN \in {x, y} \/ (x[1] = "inf" /\ x = y) THEN NaN
    ELSE IF x[1] = "inf" THEN x
    ELSE IF y[1] = "inf" THEN <<"inf", -y[2]>>
    ELSE IF x[2] - y[2] > MaxNumber THEN PosInf
    ELSE IF y[2] - x[2] > MaxNumber THEN NegInf
    ELSE <<"num", x[2] - y[2]>>

\* Their quotients, for a divisor that is not negative or zero.
Over(x, y) ==
    IF NaN \in {x, y} \/ (x[1] = "inf" /\ y[1] = "inf") THEN NaN
    ELSE IF x[1] = "inf" THEN x
    ELSE IF y[1] = "inf" THEN <<"num", 0>>
    ELSE <<"num", (Scale * x[2]) \div y[2]>>

\* NaN differs from itself: a column whose first number it is is scaled.
Scaled(v, s) ==
    IF Parse(v) \notin Text /\ s # <<>> /\ (s[1] = NaN \/ s[1] # s[2])
    THEN Over(Minus(Parse(v), s[1]), Minus(s[2], s[1]))
    ELSE v

Transform(op, c, v) ==
    CASE op = "min_max_scale" -> Scaled(v, stats[c])
      [] op = "enum_map" -> IF v \in DOMAIN forms[c] THEN forms[c][v] ELSE v
      [] OTHER -> Rewrite(op, v)

ApplyRule ==
    /\ pc = "rules" /\ next <= Len(job.rules)
    /\ LET rule == job.rules[next] IN
       rows' = [i \in DOMAIN rows |->
                   [rows[i] EXCEPT ![rule.column] = Transform(rule.op, rule.column, @)]]
    /\ next' = next + 1
    /\ UNCHANGED <<pc, job, columns, derived, splits, before, expanded, tables>>

-----------------------------------------------------------------------------
(* 1NF.                                                                    *)

Threshold == LET n == (Len(rows) * SplitPercent) \div 100 IN IF n < 1 THEN 1 ELSE n

MultiValued(c) ==
    Cardinality({i \in DOMAIN rows : rows[i][c] \in Separated /\ Atoms[rows[i][c]] # <<>>})
        >= Threshold

\* Which columns to split is settled for all of them first.
DetectSplits ==
    /\ pc = "rules" /\ next > Len(job.rules)
    /\ splits' = IF job.form >= 1 THEN {c \in columns : MultiValued(c)} ELSE {}
    /\ before' = rows
    /\ Goto(IF job.form >= 1 THEN "1NF" ELSE "store")
    /\ UNCHANGED <<job, columns, rows, derived, expanded, tables>>

\* Faulty: a cell keeps its first value only.
Split_FirstOnly(row, c) ==
    LET v == row[c] IN
    IF v \in Separated /\ Len(Atoms[v]) > 1 THEN <<[row EXCEPT ![c] = Atoms[v][1]]>>
    ELSE <<row>>

\* The rows made of one row.
Split(row, c) ==
    LET v == row[c] IN
    IF v \in Separated /\ Len(Atoms[v]) > 1
    THEN [k \in DOMAIN Atoms[v] |-> [row EXCEPT ![c] = Atoms[v][k]]]
    ELSE <<row>>

\* One row of the column at hand goes from rows to what it becomes in expanded;
\* when there is none left, the next column.
Expand ==
    LET c == job.order[next] IN
    /\ pc = "1NF" /\ next <= Len(job.order)
    /\ IF c \in splits /\ rows # <<>>
       THEN /\ expanded' = expanded \o Split(Head(rows), c)
            /\ rows' = Tail(rows)
            /\ UNCHANGED next
       ELSE /\ rows' = IF c \in splits THEN expanded ELSE rows
            /\ expanded' = <<>>
            /\ next' = next + 1
    /\ UNCHANGED <<pc, job, columns, derived, splits, before, tables>>

EndExpand ==
    /\ pc = "1NF" /\ next > Len(job.order)
    /\ Goto(IF job.form >= 2 /\ job.cats # <<>> THEN "2NF"
            ELSE IF job.form >= 3 THEN "3NF" ELSE "store")
    /\ UNCHANGED <<job, columns, rows, derived, splits, before, expanded, tables>>

-----------------------------------------------------------------------------
(* 2NF and 3NF.                                                            *)

\* Faulty: the value of b in the first row is not compared with the others.
IsFunctionalDependency_NextRow(a, b) ==
    /\ \E i \in DOMAIN rows : rows[i][a] # Empty
    /\ \A i \in DOMAIN rows \ {1} :
          rows[i][a] = rows[i - 1][a] => rows[i][b] = rows[i - 1][b]

\* Every value of a but the empty one goes with one value of b.
IsFunctionalDependency(a, b) ==
    /\ \E i \in DOMAIN rows : rows[i][a] # Empty
    /\ \A i, j \in DOMAIN rows :
          rows[i][a] = rows[j][a] /\ rows[i][a] # Empty => rows[i][b] = rows[j][b]

\* Where a value comes first, and its number in the order of first places.
FirstAt(c, v) ==
    CHOOSE i \in DOMAIN rows : rows[i][c] = v /\ \A j \in 1..(i - 1) : rows[j][c] # v
NumberOf_NonEmpty(c, v) == Cardinality({rows[j][c] : j \in 1..FirstAt(c, v)} \ {Empty})
NumberOf(c, v) == Cardinality({rows[j][c] : j \in 1..FirstAt(c, v)})

\* The row of a look-up table for a value of c; what depends on it is written
\* over the identifier if it has that name.
LookupRow(c, deps, v) ==
    [d \in Column |-> IF d \in deps THEN rows[FirstAt(c, v)][d]
                      ELSE IF d = c THEN v
                      ELSE IF d = IdOf[c] THEN IdCell(NumberOf(c, v))
                      ELSE Empty]

Lookup(c, deps) ==
    [det |-> c, columns |-> {IdOf[c], c} \cup deps,
     rows |-> {LookupRow(c, deps, v) : v \in CellsOf(rows, c)}]

\* The main table keeps the identifier in place of c and its dependents.
Extract(c, deps) ==
    /\ lookups' = Append(lookups, Lookup(c, deps))
    /\ rows' = [i \in DOMAIN rows |->
                   [d \in Column |-> IF d \in deps \cup {c} THEN Empty
                                     ELSE IF d = IdOf[c] THEN IdCell(NumberOf(c, rows[i][c]))
                                     ELSE rows[i][d]]]
    /\ columns' = (columns \ (deps \cup {c})) \cup {IdOf[c]}

\* One category of apply2NF, passed over when its column is gone.
ExtractCategory ==
    LET c == job.cats[next] IN
    /\ pc = "2NF" /\ next <= Len(job.cats)
    /\ IF c \in columns
       THEN Extract(c, {d \in columns \ {c, job.pk} : IsFunctionalDependency(c, d)})
       ELSE UNCHANGED <<lookups, rows, columns>>
    /\ next' = next + 1
    /\ UNCHANGED <<pc, job, derived, splits, before, expanded, found, stored>>

EndCategories ==
    /\ pc = "2NF" /\ next > Len(job.cats)
    /\ Goto(IF job.form >= 3 THEN "3NF" ELSE "store")
    /\ UNCHANGED <<job, columns, rows, derived, splits, before, expanded, tables>>

NonKey == columns \ ({job.pk} \cup IdColumns)
Extracted == UNION {t.deps \cup {t.det} : t \in found}

Dependents(a) == {b \in NonKey \ ({a} \cup Extracted) : IsFunctionalDependency(a, b)}

\* One column of the scan of apply3NF, in the order of the header.
ScanColumn ==
    LET a == job.order[next]
        deps == Dependents(a)
        unique == Cardinality(CellsOf(rows, a) \ {Empty})
    IN
    /\ pc = "3NF" /\ next <= Len(job.order)
    /\ found' = IF /\ Cardinality(NonKey) >= 2
                   /\ a \in NonKey \ Extracted /\ deps # {}
                   /\ unique < (Len(rows) * UniquePercent) \div 100
                THEN found \cup {[det |-> a, deps |-> deps]} ELSE found
    /\ next' = next + 1
    /\ UNCHANGED <<pc, job, columns, rows, derived, splits, before, expanded, lookups, stored>>

\* The dependencies found are in a map: they are extracted in any order.
ExtractTransitive ==
    /\ pc = "3NF" /\ next > Len(job.order)
    /\ \E t \in found :
          /\ Extract(t.det, t.deps)
          /\ found' = found \ {t}
    /\ UNCHANGED <<pc, job, derived, next, splits, before, expanded, stored>>

EndTransitive ==
    /\ pc = "3NF" /\ next > Len(job.order) /\ found = {}
    /\ Goto("store")
    /\ UNCHANGED <<job, columns, rows, derived, splits, before, expanded, tables>>

Highest(S) == CHOOSE x \in S : \A y \in S : y <= x

\* Each look-up table goes to the store under its name, the last of a name stays.
Store ==
    /\ pc = "store"
    /\ stored' = [name \in {Sanitize[lookups[k].det] : k \in DOMAIN lookups} |->
                     lookups[Highest({k \in DOMAIN lookups : Sanitize[lookups[k].det] = name})]]
    /\ Goto("done")
    /\ UNCHANGED <<job, columns, rows, derived, splits, before, expanded, found, lookups>>

Next ==
    \/ Analyze \/ ApplyRule \/ DetectSplits \/ Expand \/ EndExpand
    \/ ExtractCategory \/ EndCategories \/ ScanColumn \/ ExtractTransitive \/ EndTransitive
    \/ Store

Spec == Init /\ [][Next]_vars

-----------------------------------------------------------------------------
TypeOK ==
    /\ pc \in {"start", "rules", "1NF", "2NF", "3NF", "store", "done"}
    /\ job \in Inputs
    /\ columns \subseteq Column
    /\ \A t \in {rows, expanded, before} :
          /\ DOMAIN t = 1..Len(t) /\ Len(t) \in Nat
          /\ \A i \in DOMAIN t : DOMAIN t[i] = Column
    /\ next \in Nat \ {0}
    /\ splits \subseteq Column
    /\ \A t \in found : t.det \in Plain /\ t.deps \subseteq Plain
    /\ \A k \in DOMAIN lookups : lookups[k].det \in Named /\ lookups[k].columns \subseteq Column

Measured(s) ==
    /\ s # <<>> /\ s[1] # s[2] /\ {s[1][1], s[2][1]} = {"num"}
    /\ s[2][2] - s[1][2] <= MaxNumber

\* A rule that is the only one on its column reaches its goal: the cells that
\* differ in case are alike (lines 216-253), the numbers lie between 0 and 1 and
\* reach both (lines 282-290).  This must hold with a NaN among them, unless it
\* comes first; an infinite number, or a difference too large to write, spoils
\* the column.  Two rules on one column need not reach it, since statistics and
\* forms are those of the column as it was before the first (lines 174-253).
LoneRulesReachTheirGoal ==
    pc = "rules" /\ next > Len(job.rules) =>
        \A k \in DOMAIN job.rules :
            LET c == job.rules[k].column
                cells == CellsOf(rows, c) IN
            (\A i \in DOMAIN job.rules \ {k} : job.rules[i].column # c) =>
                /\ job.rules[k].op = "enum_map" =>
                      \A u, v \in cells \ {Empty} : Fold(u) = Fold(v) => u = v
                /\ job.rules[k].op = "min_max_scale" /\ Measured(stats[c]) =>
                      /\ {<<"num", 0>>, <<"num", Scale>>} \subseteq Numbers(rows, c)
                      /\ Numbers(rows, c) \subseteq {NaN} \cup {<<"num", n>> : n \in 0..Scale}

\* What a cell of several values stands for.
Several(v) == IF v \in Separated /\ Len(Atoms[v]) > 1 THEN RangeOf(Atoms[v]) ELSE {v}
Choices(row) ==
    {f \in [splits -> UNION {Several(row[c]) : c \in splits}] :
        \A c \in splits : f[c] \in Several(row[c])}

HeaderDistinct == \A m, n \in DOMAIN job.order : job.order[m] = job.order[n] => m = n

\* 1NF makes of a row one row for each combination of its values, and of
\* nothing anything else (lines 568-609): column after column, it splits the
\* rows that the columns before have split.  A column that the header names
\* twice is split twice, its parts the second time.
CombinationsKept ==
    pc = "1NF" /\ next > Len(job.order) /\ HeaderDistinct =>
        RangeOf(rows) =
            UNION {{[c \in Column |-> IF c \in splits THEN f[c] ELSE before[i][c]] :
                       f \in Choices(before[i])} : i \in DOMAIN before}

\* The row that joining a row of the main table with a look-up table gives is
\* the row that was there.
Restores(row, l, old) ==
    LET id == IdOf[l.det]
        joined == {s \in l.rows : s[id] = row[id]}
    IN  /\ joined # {}
        /\ \A s \in joined : \A d \in columns : (IF d \in l.columns THEN s[d] ELSE row[d]) = old[d]

\* No table that is split off loses anything: joining it to what is left gives
\* the table as it was (lines 653-735 and 823-904), in 3NF too, where the
\* dependencies were found in a table that has changed since.  The column must
\* have no empty cell, which isFunctionalDependency passes over, and the name
\* of the new column must not be taken.
NothingLost ==
    [][LET l == lookups'[Len(lookups')] IN
       Len(lookups') > Len(lookups) /\ IdOf[l.det] \notin columns
           /\ (\A i \in DOMAIN rows : rows[i][l.det] # Empty) =>
              /\ DOMAIN rows' = DOMAIN rows
              /\ \A i \in DOMAIN rows : Restores(rows'[i], l, rows[i])]_vars

NamesFree ==
    \A k \in DOMAIN lookups :
        /\ IdOf[lookups[k].det] \notin RangeOf(job.order)
        /\ \A n \in DOMAIN lookups :
              Sanitize[lookups[n].det] = Sanitize[lookups[k].det] => n = k

\* Once the tables are stored, each identifier of a table finds its one row in
\* the table the store has under that name (lines 125-128): the column may be in
\* the main table, or have moved to a look-up table that was split off later.
ForeignKeysResolve ==
    pc = "done" /\ NamesFree =>
        \A k \in DOMAIN lookups :
            LET id == IdOf[lookups[k].det]
                table == stored[Sanitize[lookups[k].det]]
                later == {n \in DOMAIN lookups : n > k /\ id \in lookups[n].columns}
                refer == (IF id \in columns THEN RangeOf(rows) ELSE {})
                             \cup UNION {lookups[n].rows : n \in later}
            IN  /\ id \in columns \/ later # {}
                /\ \A r \in refer : Cardinality({s \in table.rows : s[id] = r[id]}) = 1

=============================================================================
