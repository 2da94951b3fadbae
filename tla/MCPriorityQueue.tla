-------------------------- MODULE MCPriorityQueue --------------------------
(* PriorityQueue on small instances.                                       *)
EXTENDS PriorityQueue, TLC

CONSTANTS h1, h2, m1, l1, w1, w2

\* Two HIGH calls of the same priority, one MEDIUM and one LOW call.
MCCalls == {h1, h2, m1, l1}
MCWorkers == {w1, w2}
MCPriority == (h1 :> 3) @@ (h2 :> 3) @@ (m1 :> 4) @@ (l1 :> 8)
MCCreatedAt == (h1 :> 1) @@ (h2 :> 2) @@ (m1 :> 1) @@ (l1 :> 1)
MCSize == (h1 :> 1) @@ (h2 :> 2) @@ (m1 :> 2) @@ (l1 :> 1)
=============================================================================
