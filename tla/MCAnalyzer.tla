----------------------------- MODULE MCAnalyzer -----------------------------
(* Analyzer on columns of seven cells, and on categories of ten.           *)
EXTENDS Analyzer, TLC

\* The columns of n cells, in the order of the list.
Columns(values, n) ==
    LET last(col) == CHOOSE k \in DOMAIN values : values[k] = col[Len(col)]
        cols[k \in 1..n] ==
            IF k = 1 THEN {<<v>> : v \in {values[i] : i \in DOMAIN values}}
            ELSE UNION {{Append(c, values[i]) : i \in last(c)..Len(values)} : c \in cols[k - 1]}
    IN  cols[n]

MCInputs ==
    UNION {Columns(<<"", "?", "1", "7", " 7", "abc", "12kg">>, 7),
           Columns(<<"-", "?", "7", "1.5", "1e5", "5.", "abc">>, 7),
           Columns(<<"", "yes", "No", "1", "maybe">>, 7),
           Columns(<<"", "a@b.co", "c@d.co", "nobody", "x@y">>, 7),
           Columns(<<"", "555-1234", "2024-01-05", "01/05/2024", "abc">>, 7),
           Columns(<<"", "$1,234", "<br>", "abc", "Abc">>, 7),
           Columns(<<"N/A", "North", "norht", "Nxrht", "abc">>, 10)}
MCCells == {"", "-", "?", "N/A", "0", "1", "7", " 7", "12", "15", "6", "6.5", "1.5", "1e5", "5.",
            "abc", "Abc", "12kg", "yes", "No", "no", "maybe", "true", "false", "a@b.co", "c@d.co", "nobody",
            "x@y", "555-1234", "555_1234", "2024-01-05", "01/05/2024", "2024_01_05", "01052024",
            "$1,234", "1234", "<br>", "North", "north", "norht", "Nxrht", "nxrht", "Unknown", "unknown", "n/a",
            "xy", "n_a"}
MCMissing == {"", "-", "N/A", "n/a"}
MCNulls == MCMissing \cup {"?"}

Ints == {"0", "1", "7", " 7", "12", "15", "6", "1234", "01052024"}
Floats == Ints \cup {"6.5", "1.5", "1e5"}
Words == {"abc", "Abc", "12kg", "yes", "No", "no", "maybe", "true", "false", "nobody", "North", "north",
          "norht", "Nxrht", "nxrht", "Unknown", "unknown", "xy"}
MCMatches ==
    [boolean |-> {"yes", "No", "no", "true", "false", "0", "1"}, integer |-> Ints, float |-> Floats,
     email |-> {"a@b.co", "c@d.co"}, url |-> {}, phone |-> {"555-1234", "2024-01-05", "01052024"},
     numeric_string |-> (Floats \ {"1e5"}) \cup {"5.", "$1,234", "555-1234", "2024-01-05", "-"},
     alphanumeric |-> Words \cup Floats \cup
                      {"-", "5.", "555-1234", "555_1234", "2024-01-05", "2024_01_05", "n_a"}]

MCLayout == [v \in MCCells |-> CASE v = "2024-01-05" -> "iso" [] v = "01/05/2024" -> "us"
                                 [] v = "01052024" -> "plain" [] OTHER -> "none"]
MCShows ==
    [trim_whitespace |-> {" 7"}, collapse_whitespace |-> {}, remove_html |-> {"<br>"},
     remove_newlines |-> {}, remove_separators |-> {"$1,234"}, remove_special_chars |-> {}]
MCCasing == [v \in MCCells |-> IF v \in {"North", "Nxrht", "Abc", "No", "Unknown"} THEN "title"
                               ELSE IF v \in Words THEN "lower" ELSE "none"]

Changing(pairs) == pairs @@ [v \in MCCells |-> v]
Lower == ("North" :> "north") @@ ("Nxrht" :> "nxrht") @@ ("Abc" :> "abc") @@ ("No" :> "no")
         @@ ("Unknown" :> "unknown") @@ ("N/A" :> "n/a")
MCDoes ==
    [f \in Functions |->
       CASE f = "trim_whitespace" -> Changing(" 7" :> "7")
         [] f = "remove_html" -> Changing("<br>" :> "")
         [] f = "remove_special_chars" ->
              Changing(("$1,234" :> "1234") @@ ("<br>" :> "xy") @@ ("a@b.co" :> "xy") @@ ("?" :> "")
                       @@ ("N/A" :> "xy") @@ ("01/05/2024" :> "01052024"))
         [] f = "to_lowercase" -> Changing(Lower)
         [] f = "standardize_date" -> Changing("01/05/2024" :> "2024-01-05")
         [] f = "underscore" -> Changing(Lower @@ ("555-1234" :> "555_1234") @@ ("2024-01-05" :> "2024_01_05")
                                         @@ ("-" :> ""))
         [] OTHER -> Changing(<<>>)]
MCParses == [integer |-> Ints \ {" 7"}, float |-> (Floats \cup {"5."}) \ {" 7"}]
MCNumber == [v \in MCCells |-> CASE v = "12kg" -> "12" [] v = "1e5" -> "15" [] v = "$1,234" -> "1234"
                                 [] v \in Floats \cup {"5."} -> MCDoes["trim_whitespace"][v] [] OTHER -> "none"]
MCTruth == [v \in MCMatches["boolean"] |-> IF v \in {"yes", "true", "1"} THEN "true" ELSE "false"]
MCAt == {"a@b.co", "c@d.co", "x@y"}
MCMeanOf == [integer |-> "6", float |-> "6.5"]

Near == {"north", "norht"}
MCSimilar == {<<v, v>> : v \in MCCells} \cup (Near \X Near) \cup {<<"norht", "nxrht">>, <<"nxrht", "norht">>}
=============================================================================
