--------------------------- MODULE MCDeduplicate ---------------------------
(* Deduplicate on small instances.                                         *)
EXTENDS Deduplicate

MCKeys == 1..3

\* 3 is similar to 1 and to 2, which are not similar to each other.
MCSimilar == {<<a, b>> \in MCKeys \X MCKeys : a = b \/ a = 3 \/ b = 3}
=============================================================================
