----------------------------- MODULE WorkerPool -----------------------------
(***************************************************************************)
(* The pool of worker goroutines, internal/worker/pool.go, while the HTTP  *)
(* API scales it and main shuts it down.  What a worker does to its job is *)
(* the subject of JobEngine; here a job is queued, runs, and ends by       *)
(* itself or cut short because the context it runs under was cancelled.    *)
(*                                                                         *)
(* main (cmd/server/main.go:164-186) stops the pool before it shuts the    *)
(* HTTP server down, so jobs arrive and Scale is called during and after   *)
(* Stop, until the server is down.                                         *)
(***************************************************************************)
EXTENDS Integers, FiniteSets

CONSTANTS
    MinWorkers,      \* 5 in the code
    MaxWorkers,      \* 10 in the code
    InitialWorkers,  \* what the configuration asks for
    Jobs,            \* the jobs clients submit
    NoJob,           \* the worker has none
    MaxSpawns        \* bound: how many workers are ever spawned

ASSUME LimitsAssumption ==
    /\ MinWorkers \in Nat \ {0} /\ MaxWorkers \in Nat /\ MinWorkers <= MaxWorkers
    /\ InitialWorkers \in Int
    /\ MaxSpawns \in Nat /\ MaxWorkers <= MaxSpawns

ASSUME JobsAssumption == IsFiniteSet(Jobs) /\ NoJob \notin Jobs

VARIABLES
    server,        \* "new", "up", "stopping" (main is in Stop), "stopped", "down"
    desired,       \* desiredWorkers
    registered,    \* the keys of the workers map
    nextWorkerID,  \* how many workers were spawned
    cancelled,     \* the workers whose own context was cancelled
    alive,         \* the goroutines that have not returned (the WaitGroup)
    work,          \* the job each worker runs
    outcome        \* what became of each job

poolVars == <<server, desired, registered, nextWorkerID, cancelled, alive, work, outcome>>

WorkerIDs == 1..MaxSpawns
Busy == {w \in alive : work[w] # NoJob}

\* A worker's context descends from the pool's, which Stop cancels.
Stopped == server \in {"stopping", "stopped", "down"}
Done(w) == w \in cancelled \/ Stopped

PoolTypeOK ==
    /\ server \in {"new", "up", "stopping", "stopped", "down"}
    /\ desired \in MinWorkers..MaxWorkers
    /\ nextWorkerID \in 0..MaxSpawns
    /\ registered \subseteq 1..nextWorkerID
    /\ cancelled \subseteq 1..nextWorkerID
    /\ alive \subseteq 1..nextWorkerID
    /\ work \in [WorkerIDs -> Jobs \cup {NoJob}]
    /\ outcome \in [Jobs -> {"none", "queued", "running", "ended", "cut"}]

\* New clamps the number of workers.
Clamp(n) == IF n < MinWorkers THEN MinWorkers
            ELSE IF n > MaxWorkers THEN MaxWorkers ELSE n

PoolInit ==
    /\ server = "new"
    /\ desired = Clamp(InitialWorkers)
    /\ registered = {}
    /\ nextWorkerID = 0
    /\ cancelled = {}
    /\ alive = {}
    /\ work = [w \in WorkerIDs |-> NoJob]
    /\ outcome = [j \in Jobs |-> "none"]

-----------------------------------------------------------------------------
\* spawnWorkerLocked, n times.
Spawn(n) ==
    LET new == (nextWorkerID + 1)..(nextWorkerID + n) IN
    /\ nextWorkerID + n <= MaxSpawns
    /\ nextWorkerID' = nextWorkerID + n
    /\ registered' = registered \cup new
    /\ alive' = alive \cup new
    /\ UNCHANGED <<cancelled, work>>

\* Faulty: the worker is removed from the map and never cancelled.
Remove_NotCancelled(n) ==
    \E excess \in SUBSET registered :
        /\ Cardinality(excess) = n
        /\ registered' = registered \ excess
        /\ UNCHANGED <<nextWorkerID, cancelled, alive, work>>

\* n workers, whichever the iteration of the map meets first, are cancelled
\* and forgotten, whether they wait or run a job.
Remove(n) ==
    \E excess \in SUBSET registered :
        /\ Cardinality(excess) = n
        /\ registered' = registered \ excess
        /\ cancelled' = cancelled \cup excess
        /\ UNCHANGED <<nextWorkerID, alive, work>>

Start ==
    /\ server = "new"
    /\ server' = "up"
    /\ Spawn(desired)
    /\ UNCHANGED <<desired, outcome>>

\* One call holds the lock throughout.  A number out of range is refused.
Scale(d) ==
    LET current == Cardinality(registered) IN
    /\ server \in {"up", "stopping", "stopped"}
    /\ d \in MinWorkers..MaxWorkers
    /\ desired' = d
    /\ IF d > current THEN Spawn(d - current) ELSE Remove(current - d)
    /\ UNCHANGED <<server, outcome>>

\* A client's job is in the queue with its token.
Arrive(j) ==
    /\ server \in {"up", "stopping", "stopped"}
    /\ outcome[j] = "none"
    /\ outcome' = [outcome EXCEPT ![j] = "queued"]
    /\ UNCHANGED <<server, desired, registered, nextWorkerID, cancelled, alive, work>>

-----------------------------------------------------------------------------
(* A worker's loop                                                         *)

\* The select chooses at random when a token is there and the context is done.
Take(w, j) ==
    /\ w \in alive /\ work[w] = NoJob
    /\ outcome[j] = "queued"
    /\ work' = [work EXCEPT ![w] = j]
    /\ outcome' = [outcome EXCEPT ![j] = "running"]
    /\ UNCHANGED <<server, desired, registered, nextWorkerID, cancelled, alive>>

\* Faulty: a worker with a context of its own returns only when the pool stops.
Exit_PoolContext(w) ==
    /\ w \in alive /\ work[w] = NoJob
    /\ Stopped
    /\ alive' = alive \ {w}
    /\ UNCHANGED <<server, desired, registered, nextWorkerID, cancelled, work, outcome>>

Exit(w) ==
    /\ w \in alive /\ work[w] = NoJob
    /\ Done(w)
    /\ alive' = alive \ {w}
    /\ UNCHANGED <<server, desired, registered, nextWorkerID, cancelled, work, outcome>>

\* The execution ends by itself: the job succeeds, fails or times out.
Finish(w) ==
    /\ w \in Busy
    /\ outcome' = [outcome EXCEPT ![work[w]] = "ended"]
    /\ work' = [work EXCEPT ![w] = NoJob]
    /\ UNCHANGED <<server, desired, registered, nextWorkerID, cancelled, alive>>

\* The executor sees that its context, which descends from the worker's, is
\* done, and returns what it has with an error.
Cut(w) ==
    /\ w \in Busy
    /\ Done(w)
    /\ outcome' = [outcome EXCEPT ![work[w]] = "cut"]
    /\ work' = [work EXCEPT ![w] = NoJob]
    /\ UNCHANGED <<server, desired, registered, nextWorkerID, cancelled, alive>>

-----------------------------------------------------------------------------
(* Shutdown                                                                *)

\* Stop cancels the pool's context ...
StopCancel ==
    /\ server = "up"
    /\ server' = "stopping"
    /\ UNCHANGED <<desired, registered, nextWorkerID, cancelled, alive, work, outcome>>

\* Faulty: Stop does not wait.
StopReturn_NoWait ==
    /\ server = "stopping"
    /\ server' = "stopped"
    /\ UNCHANGED <<desired, registered, nextWorkerID, cancelled, alive, work, outcome>>

\* ... and returns when every goroutine has.
StopReturn ==
    /\ server = "stopping"
    /\ alive = {}
    /\ server' = "stopped"
    /\ UNCHANGED <<desired, registered, nextWorkerID, cancelled, alive, work, outcome>>

\* The HTTP server is shut down.
Down ==
    /\ server = "stopped"
    /\ server' = "down"
    /\ UNCHANGED <<desired, registered, nextWorkerID, cancelled, alive, work, outcome>>

\* When main returns the process ends, with every goroutine in it.
WorkerStep(w) ==
    /\ server # "down"
    /\ (\E j \in Jobs : Take(w, j)) \/ Exit(w) \/ Finish(w) \/ Cut(w)

PoolNext ==
    \/ Start \/ StopCancel \/ StopReturn \/ Down
    \/ \E d \in MinWorkers..MaxWorkers : Scale(d)
    \/ \E j \in Jobs : Arrive(j)
    \/ \E w \in WorkerIDs : WorkerStep(w)

PoolSpec == PoolInit /\ [][PoolNext]_poolVars

\* A worker's loop goes round, an execution ends, at the latest with its timeout,
\* and Stop returns when it can.  Nobody has to scale or to stop the pool.
PoolFairness ==
    /\ WF_poolVars(Start) /\ WF_poolVars(StopReturn)
    /\ \A w \in WorkerIDs : WF_poolVars(WorkerStep(w))

-----------------------------------------------------------------------------
(* Properties                                                              *)

\* The map of workers has as many entries as were last asked for, after every
\* sequence of Scale calls, during and after Stop too (pool.go:151-191).
RegisteredIsDesired == server # "new" => Cardinality(registered) = desired

\* The map and the goroutines agree: a worker that is in the map was not
\* cancelled and, until Stop, is alive, so what Stats reports as active is; and
\* no worker outside the map runs on without having been told to stop, so that
\* Scale leaks none (pool.go:172-182, 193-210, 216-250).
WorkersAccounted ==
    /\ registered \cap cancelled = {}
    /\ alive \ registered \subseteq cancelled
    /\ server \in {"new", "up"} => registered \subseteq alive

\* A worker runs a job only if it is alive, and the jobs that run are those the
\* workers have, each with one worker (pool.go:240-247).
RunningIsHeld ==
    /\ \A w \in WorkerIDs : work[w] # NoJob => w \in alive /\ outcome[work[w]] = "running"
    /\ \A v, w \in WorkerIDs : work[v] = work[w] /\ work[v] # NoJob => v = w
    /\ \A j \in Jobs : outcome[j] = "running" => \E w \in Busy : work[w] = j

\* The invariant the proofs carry from step to step.
PoolInv ==
    /\ PoolTypeOK /\ RegisteredIsDesired /\ WorkersAccounted /\ RunningIsHeld
    /\ server = "new" => nextWorkerID = 0

\* When Stop returns, no job is in flight (pool.go:138-147).
StopWaits ==
    [][server = "stopping" /\ server' = "stopped" =>
          \A j \in Jobs : outcome'[j] # "running"]_poolVars

\* A worker that Scale removed goes away, although its select may still prefer
\* a token to the cancelled context (pool.go:234-250).
ShrinkCompletes ==
    \A w \in WorkerIDs : w \in cancelled ~> w \notin alive \/ server = "down"
=============================================================================
