---------------------------- MODULE MCCleanJob ----------------------------
(* CleanJob on small instances.                                            *)
EXTENDS CleanJob

CONSTANTS c1, c2, b, zero, blank, dash, whole

MCColumns == {c1, c2}
MCValues == {b, zero}

\* "-" is missing for isNullValue and not for drop_empty_columns.
MCNulls == {blank, dash}
MCBlanks == {blank}

\* Up to four rows; of the second column it only matters what is missing.
MCRows == {r \in [MCColumns -> MCValues \cup MCNulls] :
              \/ r[c2] = zero
              \/ r[c2] = blank /\ r[c1] \in {b, blank}}
MCSources == UNION {[1..n_ -> MCRows] : n_ \in 0..4}

\* b is a text, of tags or of special characters only, that is emptied.
MCRewrite == [v \in MCValues \cup MCNulls |-> IF v = b THEN blank ELSE v]

Fill(column, strategy, value) ==
    [op |-> "fill_null", column |-> column, strategy |-> strategy, value |-> value]
Do(op, column) == [op |-> op, column |-> column, strategy |-> "value", value |-> blank]

MCRuleLists ==
    { <<Fill(c1, "mode", b)>>,
      <<Do("drop_null", whole)>>,
      <<Do("rewrite", c1), Fill(c1, "value", b), Do("drop_null", c2)>>,
      <<Do("drop_empty_columns", whole), Do("drop_null", c1), Fill(whole, "mode", blank)>>,
      <<Fill(c1, "value", dash), Do("drop_empty_columns", whole), Fill(c1, "mode", blank)>>,
      <<Fill(c1, "mode", dash)>>,
      <<Do("rewrite", whole), Fill(whole, "value", blank)>> }
=============================================================================
