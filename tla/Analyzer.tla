------------------------------ MODULE Analyzer ------------------------------
(***************************************************************************)
(* What the column analyzer, internal/analyzer/column.go, makes of a       *)
(* column, the rules it recommends, and what the clean executor,           *)
(* internal/executor/etl_clean.go, makes of the column by these rules.     *)
(*                                                                         *)
(* Cells are atoms: what regular expressions, parsers and string functions *)
(* say of a cell are constants.  The executor takes its statistics from the*)
(* column as it was, then goes through the rows and applies the rules to   *)
(* each.  How rows are dropped and chunks go wrong is in CleanJob.         *)
(***************************************************************************)
EXTENDS Integers, Sequences, FiniteSets

CONSTANTS
    Cells,
    Missing,   \* cells the analyzer takes for missing values
    Nulls,     \* cells the executor does: some more
    Matches,   \* the cells that match the pattern of a type
    Layout,    \* the first date layout a cell can be read by, or NoLayout
    NoLayout,
    Timed,     \* the layouts with a time of day
    Shows,     \* the cells that show a defect
    Casing,    \* the casing of a cell: lower, upper, title, or none of them
    Does,      \* what a string function makes of a cell
    Parses,    \* the cells that parse as an integer, as a float
    Number,    \* the number extracted from a cell, or NoNumber
    NoNumber,
    Truth,     \* the boolean sentinels, mapped to true and false
    At,        \* the cells with an at sign
    MeanOf,    \* a mean as it is formatted for a type
    Zero, False, Unknown,   \* the cells "0", "false" and "Unknown"
    Similar,   \* pairs of cells at a small edit distance
    Inputs     \* columns

Patterned == <<"boolean", "integer", "float", "email", "url", "phone">>
Functions == {"trim_whitespace", "collapse_whitespace", "remove_html", "remove_newlines",
              "remove_special_chars", "to_lowercase", "standardize_date", "underscore"}

ASSUME CellsAssumption ==
    /\ Missing \subseteq Nulls /\ Nulls \subseteq Cells
    /\ \A f \in Functions : Does[f] \in [Cells -> Cells]
    /\ Number \in [Cells -> (Cells \ Missing) \cup {NoNumber}]
    /\ {Zero, False, Unknown} \subseteq Cells \ Nulls
    /\ Truth \in [DOMAIN Truth -> Cells \ Missing]
    /\ MeanOf \in [{"integer", "float"} -> Cells \ Missing]
    /\ Inputs \subseteq Seq(Cells)

Trim(v) == Does["trim_whitespace"][v]
Folded(v) == Does["to_lowercase"][Trim(v)]

\* Trimming twice is trimming once, lower case stays so, and both tests for missing values
\* are made of the trimmed cell in lower case (column.go:250, etl_clean.go:60-62).  A date
\* that is rewritten is no missing value.
ASSUME TextAssumption ==
    \A v \in Cells :
       /\ Trim(Trim(v)) = Trim(v) /\ Folded(Does["to_lowercase"][v]) = Folded(v)
       /\ v \in Missing <=> Folded(v) \in Missing
       /\ v \in Nulls <=> Folded(v) \in Nulls
       /\ v \notin Missing => Does["standardize_date"][v] \notin Missing

\* Patterns are tried on the trimmed cell and match no missing value.  Numbers and addresses
\* have neither inner spaces nor tags, and addresses have an at sign.  What is too long a
\* number to be parsed has a number extracted that matches again, or none.
ASSUME PatternAssumption ==
    /\ False \in Matches["boolean"] /\ \A w \in DOMAIN Truth : Truth[w] \in Matches["boolean"]
    /\ \A v \in Matches["email"] : Trim(v) \in At
    /\ \A t \in {"boolean", "integer", "float", "email"} :
          /\ Matches[t] \cap Nulls = {} /\ \A v \in Cells : v \in Matches[t] <=> Trim(v) \in Matches[t]
    /\ \A t \in {"integer", "float", "email"} : \A v \in Matches[t] :
          \A f \in {"collapse_whitespace", "remove_html", "remove_newlines"} : Trim(Does[f][v]) = Trim(v)
    /\ \A t \in {"integer", "float"} :
          /\ Zero \in Matches[t]
          /\ \A v \in Matches[t] : Trim(v) \in Parses[t] \/ Number[Trim(v)] \in Matches[t] \cup {NoNumber}

VARIABLES
    phase,      \* "load", "clean", "done"
    original,   \* the column as it was loaded
    column,
    type,       \* InferredType
    rules,      \* the recommended rules
    row,        \* the row the executor is at
    turn,       \* and the place in Order of the next rule for it
    mode,       \* ModeValue, as the analyzer finds it
    fillMode,   \* the mode the executor fills with; NoMode if it found none
    again       \* the type the cleaned column has

columnVars == <<phase, original, column, type, rules, row, turn, mode, fillMode, again>>

NoMode == ""

Having(col, S) == {n \in DOMAIN col : col[n] \in S}
Times(col, v) == Cardinality(Having(col, {v}))
Used(col) == {col[n] : n \in DOMAIN col}
Filled(col) == Having(col, Cells \ Missing)

-----------------------------------------------------------------------------
(* Inference of the type                                                   *)

\* A pattern is taken if 85% of what is not missing match.
Most(col, S) == 100 * Cardinality(Having(col, S \ Missing)) >= 85 * Cardinality(Filled(col))

\* The layouts by which 70% are read.
DateLayouts(col) ==
    {l \in {Layout[v] : v \in Used(col) \ Missing} \ {NoLayout} :
        100 * Cardinality({n \in Filled(col) : Layout[col[n]] = l}) >= 70 * Cardinality(Filled(col))}

Unique(col) == Cardinality(Used(col) \ Missing)
Categorical(col) == Unique(col) <= 50 /\ 100 * Unique(col) <= 30 * Len(col)

TypeOf(col) ==
    LET fits == {k \in DOMAIN Patterned : Most(col, Matches[Patterned[k]])}
    IN  IF Filled(col) = {} THEN "free_text"
        ELSE IF fits # {} THEN Patterned[CHOOSE k \in fits : \A j \in fits : k <= j]
        ELSE IF DateLayouts(col) \cap Timed # {} THEN "datetime"
        ELSE IF DateLayouts(col) # {} THEN "date"
        ELSE IF Most(col, Matches["numeric_string"]) THEN "numeric_string"
        ELSE IF Categorical(col) THEN "categorical"
        ELSE IF Most(col, Matches["alphanumeric"]) THEN "alphanumeric"
        ELSE "free_text"

\* The cells that fit the type that was inferred.
Fitting(t) ==
    CASE t \in {"date", "datetime"} -> {v \in Cells : Layout[v] # NoLayout}
      [] t \in {"categorical", "free_text"} -> Cells
      [] OTHER -> Matches[t]

\* Faulty: missing values count.
ModesOf_All(col, S) == {m \in Used(col) : \A w \in Used(col) : Times(col, w) <= Times(col, m)}

\* A most frequent cell of those that count.
ModesOf(col, S) ==
    LET v == Used(col) \cap S IN
    IF v = {} THEN {NoMode} ELSE {m \in v : \A w \in v : Times(col, w) <= Times(col, m)}

\* The rare cells of a categorical column.
Outliers(col) ==
    LET values == Used(col) \ Missing
        top == CHOOSE n \in {Times(col, v) : v \in values} : \A v \in values : Times(col, v) <= n
    IN  {v \in values : Times(col, v) <= (IF top < 100 THEN 1 ELSE top \div 100)
                        \/ (Times(col, v) = 1 /\ Cardinality(Filled(col)) >= 20)}

-----------------------------------------------------------------------------
(* Recommendations                                                         *)

Order == <<"trim_whitespace", "collapse_whitespace", "remove_html", "remove_newlines",
           "remove_separators", "fill_null", "to_lowercase", "remove_special_chars",
           "standardize_date", "fix_mismatched_types", "fix_categorical_outliers">>

Mismatched(col, t) == Having(col, Cells \ (Fitting(t) \cup Missing)) # {}

Recommended(col, t, rule) ==
    LET values == Used(col) \ Missing
        shows(d) == values \cap Shows[d] # {}
        styles == {Casing[v] : v \in values} \cap {"lower", "upper", "title"}
    IN  CASE rule \in {"trim_whitespace", "collapse_whitespace", "remove_html", "remove_newlines"} -> shows(rule)
          [] rule = "remove_separators" -> t = "numeric_string" /\ shows(rule)
          [] rule = "fill_null" -> Having(col, Missing) # {}
          [] rule = "to_lowercase" -> t \in {"free_text", "categorical", "alphanumeric"} /\ Cardinality(styles) >= 2
          [] rule = "remove_special_chars" -> t \in {"free_text", "alphanumeric"} /\ shows(rule)
          [] rule = "standardize_date" -> t \in {"date", "datetime"}
          [] rule = "fix_mismatched_types" -> Mismatched(col, t) /\ Most(col, Fitting(t))
          [] rule = "fix_categorical_outliers" -> t = "categorical" /\ Unique(col) > 1 /\ Outliers(col) # {}

ColumnInit ==
    /\ original \in Inputs /\ column = original
    /\ phase = "load" /\ type = "free_text" /\ again = type
    /\ rules = {} /\ row = 1 /\ turn = 1
    /\ mode = NoMode /\ fillMode = NoMode

\* The analysis, and the statistics a job with its rules begins with.
Analyze ==
    /\ phase = "load" /\ phase' = "clean"
    /\ type' = TypeOf(column)
    /\ rules' = {r \in {Order[k] : k \in DOMAIN Order} : Recommended(column, type', r)}
    /\ mode' \in ModesOf(column, Cells \ Missing)
    /\ fillMode' \in ModesOf(column, Cells \ Nulls)
    /\ UNCHANGED <<original, column, row, turn, again>>

-----------------------------------------------------------------------------
(* The rules                                                               *)

\* Faulty: what no mode is found for is left empty.
Fallback_None(default) == CHOOSE v \in Missing : TRUE

Fallback(default) == IF fillMode # NoMode THEN fillMode ELSE default

\* What a missing cell is filled with.
FillValue ==
    CASE type \in {"integer", "float"} -> MeanOf[type]
      [] type = "numeric_string" -> Zero
      [] type = "boolean" -> False
      [] OTHER -> Fallback(IF mode # NoMode THEN mode ELSE Unknown)

Parsable(t) == Parses[t]

\* Types without a branch of their own have all their cells put in lower case with
\* underscores, whether they match or not.
Fixed(v) ==
    LET trimmed == Trim(v) IN
    CASE type \in {"integer", "float"} ->
           IF trimmed \in Parsable(type) THEN trimmed
           ELSE IF Number[trimmed] # NoNumber THEN Number[trimmed] ELSE Fallback(Zero)
      [] type = "boolean" -> IF trimmed \in DOMAIN Truth THEN Truth[trimmed] ELSE Fallback(False)
      [] type = "email" -> IF trimmed \in At THEN trimmed ELSE Fallback(trimmed)
      [] OTHER -> Does["underscore"][trimmed]

\* Frequencies are those of the original column in lower case.
Frequency(w) == Cardinality({n \in DOMAIN original : original[n] \notin Nulls /\ Folded(original[n]) = w})
Rare(w) ==
    LET all == Cardinality(Having(original, Cells \ Nulls)) IN
    Frequency(w) <= (IF all < 100 THEN 1 ELSE all \div 100)

\* Faulty: rare categories are candidates too.
Candidates_Rare(w) == {c \in {Folded(v) : v \in Used(original) \ Nulls} : <<w, c>> \in Similar}

Candidates(w) == {c \in {Folded(v) : v \in Used(original) \ Nulls} : ~Rare(c) /\ <<w, c>> \in Similar}

\* Of the candidates any most frequent one is taken, as they range over a map.
Merged(v) ==
    LET near == Candidates(Folded(v))
        best == {c \in near : \A d \in near : Frequency(d) <= Frequency(c)}
    IN  IF Rare(Folded(v)) /\ near # {}
        THEN {IF c = Folded(v) THEN v ELSE c : c \in best} ELSE {v}

\* What a rule may make of a cell.  The pattern recommended for separators is not read by
\* the executor: special characters are removed.
After(rule, v) ==
    CASE rule = "fill_null" -> {IF v \in Nulls THEN FillValue ELSE v}
      [] rule = "fix_mismatched_types" -> {IF v \in Nulls THEN v ELSE Fixed(v)}
      [] rule = "fix_categorical_outliers" -> IF v \in Nulls THEN {v} ELSE Merged(v)
      [] rule = "remove_separators" -> {Does["remove_special_chars"][v]}
      [] OTHER -> {Does[rule][v]}

\* The next of the rules for the row.
ApplyRule ==
    /\ phase = "clean" /\ row \in DOMAIN column
    /\ \E k \in turn..Len(Order) :
          /\ Order[k] \in rules /\ \A j \in turn..(k - 1) : Order[j] \notin rules
          /\ \E w \in After(Order[k], column[row]) : column' = [column EXCEPT ![row] = w]
          /\ turn' = k + 1
    /\ UNCHANGED <<phase, original, type, rules, row, mode, fillMode, again>>

NextRow ==
    /\ phase = "clean" /\ row \in DOMAIN column
    /\ \A k \in turn..Len(Order) : Order[k] \notin rules
    /\ row' = row + 1 /\ turn' = 1
    /\ UNCHANGED <<phase, original, column, type, rules, mode, fillMode, again>>

\* The analysis of the result.
Reanalyze ==
    /\ phase = "clean" /\ row \notin DOMAIN column /\ phase' = "done"
    /\ again' = TypeOf(column)
    /\ UNCHANGED <<original, column, type, rules, row, turn, mode, fillMode>>

ColumnNext == Analyze \/ ApplyRule \/ NextRow \/ Reanalyze

ColumnSpec == ColumnInit /\ [][ColumnNext]_columnVars

-----------------------------------------------------------------------------
(* Properties                                                              *)

OwnBranch == {"boolean", "integer", "float", "email"}

\* What was missing is there after the recommended rules: the recommendation is made by one
\* test for missing values and carried out by another, with a mode taken from the column
\* before it is cleaned (column.go:709-768, etl_clean.go:388-455).  Special characters are removed
\* after it, which may empty it again, as may the rewriting of types without a branch.
FilledAfterCleaning ==
    phase = "done" /\ "remove_special_chars" \notin rules
    /\ ("fix_mismatched_types" \in rules => type \in OwnBranch) =>
       \A n \in DOMAIN column : original[n] \in Missing => column[n] \notin Missing

\* Fixing what does not match leaves alone what does: in a column of numbers or addresses
\* cells that match and can be parsed are only trimmed (etl_clean.go:499-553).
MatchesStay ==
    phase = "done" /\ type \in {"integer", "float", "email"} =>
       \A n \in DOMAIN column :
          original[n] \in Matches[type] /\ (type # "email" => Trim(original[n]) \in Parses[type])
          => Trim(column[n]) = Trim(original[n])

\* Mismatches the executor has a remedy for.
Fixable(t) ==
    {v \in Cells \ Nulls :
        t # "boolean" => Trim(v) \notin Parses[t] /\ Number[Trim(v)] \in Matches[t] \cup {NoNumber}}

\* One cleaning leaves no mismatch, so that the next analysis finds the type again or one
\* that is narrower, unless the mode is a mismatch itself or the mean is one ("+Inf" if the sum
\* overflows), the executor takes a mismatch for a null or can parse it, or the number
\* extracted from it is of another type.
MismatchesGone ==
    phase = "done" /\ type \in {"boolean", "integer", "float"}
    /\ rules \subseteq {"trim_whitespace", "fill_null", "fix_mismatched_types"}
    /\ {fillMode, FillValue} \subseteq Matches[type]
    /\ Used(original) \subseteq Missing \cup Matches[type] \cup Fixable(type)
    =>
       /\ \A n \in DOMAIN column : column[n] \in Matches[type]
       /\ \E k \in DOMAIN Patterned : Patterned[k] = again /\ \A j \in 1..(k - 1) : Patterned[j] # type

\* In a categorical column a cell keeps its category, but for letter case, or it was rare and
\* goes to a category that was not (etl_clean.go:588-609): two rare ones do not change places.
OutliersJoinCategories ==
    phase = "done" /\ type = "categorical"
    /\ rules \subseteq {"fill_null", "to_lowercase", "trim_whitespace", "fix_categorical_outliers"} =>
       \A n \in Having(original, Cells \ Nulls) :
          \/ Folded(column[n]) = Folded(original[n])
          \/ Rare(Folded(original[n])) /\ ~Rare(Folded(column[n]))
=============================================================================
