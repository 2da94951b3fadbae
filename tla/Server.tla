------------------------------- MODULE Server -------------------------------
(***************************************************************************)
(* The process, cmd/server/main.go: main starts the worker pool, waits for *)
(* a signal and takes everything down, and a keep-alive goroutine, which   *)
(* pings the server from time to time, receives from the same channel of   *)
(* signals.  The pool is WorkerPool's; its stop begins with a signal here. *)
(***************************************************************************)
EXTENDS WorkerPool

CONSTANT MaxSignals   \* bound: how many signals the channel takes

ASSUME SignalsAssumption == MaxSignals \in Nat

VARIABLES
    pending,     \* there is a signal in the channel, which has room for one
    signals,     \* history: how many it has taken
    keepAlive    \* "pings" (or sleeps at first), "waits" in its select, "gone"

signalling == <<pending, signals, keepAlive>>
serverVars == <<poolVars, signalling>>

ServerInit ==
    /\ PoolInit
    /\ pending = FALSE
    /\ signals = 0
    /\ keepAlive = "pings"

Running == server \notin {"new", "down"}

\* One that comes when the channel is full is dropped.
Signal ==
    /\ Running /\ ~pending /\ signals < MaxSignals
    /\ pending' = TRUE
    /\ signals' = signals + 1
    /\ UNCHANGED <<poolVars, keepAlive>>

\* Pings, then waits for the ticker or for a signal, whichever the select takes.
KeepAliveLoop ==
    /\ Running /\ keepAlive # "gone"
    /\ keepAlive' = IF keepAlive = "pings" THEN "waits" ELSE "pings"
    /\ UNCHANGED <<poolVars, pending, signals>>

\* Faulty: leaves the select with the signal, and not the loop.
KeepAliveReceive_Breaks ==
    /\ Running /\ keepAlive = "waits" /\ pending
    /\ keepAlive' = "pings"
    /\ pending' = FALSE
    /\ UNCHANGED <<poolVars, signals>>

\* The signal is gone then: main does not see it.
KeepAliveReceive ==
    /\ Running /\ keepAlive = "waits" /\ pending
    /\ keepAlive' = "gone"
    /\ pending' = FALSE
    /\ UNCHANGED <<poolVars, signals>>

\* main receives, and stops the pool first.
MainReceive ==
    /\ pending
    /\ pending' = FALSE
    /\ StopCancel
    /\ UNCHANGED <<signals, keepAlive>>

PoolStep ==
    \/ Start \/ StopReturn \/ Down
    \/ \E d \in MinWorkers..MaxWorkers : Scale(d)
    \/ \E j \in Jobs : Arrive(j)
    \/ \E w \in WorkerIDs : WorkerStep(w)

ServerNext ==
    \/ PoolStep /\ UNCHANGED signalling
    \/ Signal \/ KeepAliveLoop \/ KeepAliveReceive \/ MainReceive

ServerSpec == ServerInit /\ [][ServerNext]_serverVars

\* main goes on when it can, and its shutdown of the HTTP server has a timeout.
ServerFairness == PoolFairness /\ WF_serverVars(MainReceive) /\ WF_poolVars(Down)

FairServerSpec == ServerSpec /\ ServerFairness

-----------------------------------------------------------------------------
(* Properties                                                              *)

\* The server goes down once main has a signal, and of two signals main has one,
\* although the keep-alive goroutine may take the other away from it
\* (main.go:142-167); workers that still run jobs or go on taking them do not
\* keep Stop from returning (pool.go:138-147).
SignalsEndTheServer == signals >= 2 \/ server = "stopping" ~> server = "down"
=============================================================================
