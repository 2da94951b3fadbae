---------------------------- MODULE MCNormalize ----------------------------
(* Normalize on small instances.                                           *)
EXTENDS Normalize

T(n) == <<"text", n>>
N(n) == <<"num", n>>

Names == {"k", "a", "b", "c", "d", "z", "a_id"}
MCIdOf ==
    [x \in Names |->
        CASE x = "k" -> "k_id" [] x = "a" -> "a_id" [] x = "b" -> "b_id" [] x = "c" -> "c_id"
          [] x = "d" -> "d_id" [] x = "z" -> "z_id" [] x = "a_id" -> "a_id_id"]
MCIdColumns == {MCIdOf[x] : x \in Names}
MCColumn == Names \cup MCIdColumns
MCSanitize == [x \in Names |-> x]

\* Texts 1, 2 and 3 are plain; 11 and 21 are 1 and 2 in capitals, 12 is "1;2",
\* 123 is "1;2|3" and 23 is "2|3", 10 is "1;", 50 is "$5" and 99 is "nan".
MCText == {T(n) : n \in {0, 1, 2, 3, 10, 11, 12, 21, 23, 50, 99, 123}}
MCLower ==
    [v \in MCText |->
        CASE v = T(11) -> T(1) [] v = T(21) -> T(2) [] v = T(99) -> NaN [] OTHER -> v]
MCReadAs == [v \in MCText |-> CASE v = T(50) -> N(5) [] v = T(99) -> NaN [] OTHER -> v]
MCSeparated == {T(10), T(12), T(23), T(123)}
MCAtoms ==
    [v \in MCSeparated |->
        CASE v = T(10) -> <<T(1)>> [] v = T(12) -> <<T(1), T(2)>>
          [] v = T(23) -> <<T(2), T(3)>> [] v = T(123) -> <<T(1), T(23)>>]
MCRewrite(op, v) ==
    CASE op = "to_lowercase" /\ v \in MCText -> MCLower[v]
      [] op = "unit_convert" /\ Parse(v)[1] = "num" -> N(2 * Parse(v)[2])
      [] OTHER -> v

\* Records whose columns have cells from the sets given.
Records(header, cells) ==
    {[x \in MCColumn |->
        IF \E m \in DOMAIN header : header[m] = x
        THEN f[CHOOSE m \in DOMAIN header : header[m] = x] ELSE Empty] :
        f \in {g \in [DOMAIN header -> UNION {cells[m] : m \in DOMAIN cells}] :
                  \A m \in DOMAIN g : g[m] \in cells[m]}}

Input(header, pk, size, cells, rules, form, cats) ==
    [order |-> header, size |-> size, records |-> Records(header, cells), rules |-> rules,
     form |-> form, cats |-> cats, pk |-> pk]
Rule(op, c) == [op |-> op, column |-> c]

\* The keys differ, are all the same, or either.
One == {N(1)}
Keys == {N(1), N(2)}
Bit == {T(1), T(2)}
Floats == {N(0), N(2), N(5), T(2), T(50), T(99), NaN, PosInf, NegInf}
Values == <<One, {T(1), T(11), T(2), Empty}, {N(2), N(5), T(2)}>>
Lists == <<Keys, {T(1), T(10), T(12), T(123)}, {T(1), T(23)}, {T(3), T(12)}>>
Holed == <<One, Bit \cup {Empty}, Bit, Bit>>

MCInputs ==
    {Input(<<"k", "a", "b">>, "k", 3, Values, rules, 0, <<>>) :
        rules \in {<<Rule("enum_map", "a"), Rule("min_max_scale", "b")>>,
                   <<Rule("to_lowercase", "a"), Rule("unit_convert", "b"),
                     Rule("min_max_scale", "b"), Rule("enum_map", "a")>>}}
    \cup {Input(<<"b">>, "k", 3, <<Floats>>, <<Rule(op, "b")>>, 0, <<>>) :
             op \in {"min_max_scale", "enum_map"}}
    \cup {Input(<<"k", "a", "b", "c">>, "k", 2, Lists, <<>>, 1, <<>>),
          Input(<<"k", "a", "b", "c">>, "k", 3, Holed, <<>>, 2, <<"a", "b">>),
          Input(<<"k", "a", "b", "c">>, "k", 3, Holed, <<>>, 2, <<"c", "a">>),
          Input(<<"k", "a", "b", "c">>, "k", 3, Holed, <<>>, 3, <<"b">>),
          Input(<<"a", "b", "c", "d">>, "k", 3, <<Bit, Bit, Bit, Bit>>, <<>>, 3, <<"z">>),
          Input(<<"k", "a", "b">>, "k", 3, <<Keys, Bit, Bit>>, <<>>, 3, <<"a", "a_id">>),
          Input(<<"k", "a", "b">>, "a", 3, <<Keys, Bit, Bit>>, <<>>, 3, <<"k", "a">>),
          Input(<<"k", "a_id", "b">>, "k", 3, <<Keys, Bit, Bit>>, <<>>, 2, <<"a_id">>),
          Input(<<"k", "a", "a_id">>, "k", 2, <<One, Bit, Bit>>, <<>>, 2, <<"a">>)}
=============================================================================
