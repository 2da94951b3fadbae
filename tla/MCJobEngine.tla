---------------------------- MODULE MCJobEngine ----------------------------
(* JobEngine on small instances.                                           *)
EXTENDS JobEngine, TLC

CONSTANTS a, b, w1, w2

OneJob == {a}
TwoJobs == {a, b}
OnlyB == {b}
None == {}
OneWorker == {w1}
TwoWorkers == {w1, w2}

\* a is more urgent than b.
MCPriority == [j \in Jobs |-> IF j = a THEN 1 ELSE 5]

NoDependency == [j \in Jobs |-> NoJob]
BDependsOnA == [j \in Jobs |-> IF j = b THEN a ELSE NoJob]
=============================================================================
