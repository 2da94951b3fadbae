----------------------------- MODULE WorkQueue -----------------------------
(***************************************************************************)
(* What the queue promises the worker pool, without tiers, locks, counters *)
(* or steps: a job that is put is waiting; each put announces itself once, *)
(* with a wake-up that is lost only when WakeCap wake-ups are outstanding; *)
(* a worker spends one wake-up to claim a job, and a claim always ends     *)
(* with a waiting job in the worker's hands.  PriorityQueue implements it. *)
(***************************************************************************)
EXTENDS Naturals

CONSTANTS Jobs, Workers, WakeCap, NoJob

VARIABLES
    phase,      \* what became of each job's Put
    announced,  \* the jobs whose Put has sent, or lost, its wake-up
    wakeups,    \* wake-ups nobody has received yet
    claims,     \* the workers that spent a wake-up and hold no job yet
    hand        \* the job a claim was answered with, until the worker leaves

vars == <<phase, announced, wakeups, claims, hand>>

TypeOK ==
    /\ phase \in [Jobs -> {"new", "waiting", "taken", "rejected"}]
    /\ announced \subseteq Jobs
    /\ wakeups \in 0..WakeCap
    /\ claims \subseteq Workers
    /\ hand \in [Workers -> Jobs \cup {NoJob}]

Init ==
    /\ phase = [j \in Jobs |-> "new"]
    /\ announced = {}
    /\ wakeups = 0
    /\ claims = {}
    /\ hand = [w \in Workers |-> NoJob]

Put(j) ==
    /\ phase[j] = "new"
    /\ phase' = [phase EXCEPT ![j] = "waiting"]
    /\ UNCHANGED <<announced, wakeups, claims, hand>>

Reject(j) ==
    /\ phase[j] = "new"
    /\ phase' = [phase EXCEPT ![j] = "rejected"]
    /\ UNCHANGED <<announced, wakeups, claims, hand>>

Announce(j) ==
    /\ phase[j] \in {"waiting", "taken"}
    /\ j \notin announced
    /\ announced' = announced \cup {j}
    /\ wakeups' = IF wakeups < WakeCap THEN wakeups + 1 ELSE wakeups
    /\ UNCHANGED <<phase, claims, hand>>

Claim(w) ==
    /\ wakeups > 0
    /\ w \notin claims
    /\ hand[w] = NoJob
    /\ wakeups' = wakeups - 1
    /\ claims' = claims \cup {w}
    /\ UNCHANGED <<phase, announced, hand>>

Take(w, j) ==
    /\ w \in claims
    /\ phase[j] = "waiting"
    /\ phase' = [phase EXCEPT ![j] = "taken"]
    /\ claims' = claims \ {w}
    /\ hand' = [hand EXCEPT ![w] = j]
    /\ UNCHANGED <<announced, wakeups>>

Leave(w) ==
    /\ hand[w] # NoJob
    /\ hand' = [hand EXCEPT ![w] = NoJob]
    /\ UNCHANGED <<phase, announced, wakeups, claims>>

Next ==
    \/ \E j \in Jobs : Put(j) \/ Reject(j) \/ Announce(j)
    \/ \E w \in Workers : Claim(w) \/ Leave(w) \/ \E j \in Jobs : Take(w, j)

Spec == Init /\ [][Next]_vars
=============================================================================
