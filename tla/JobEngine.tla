----------------------------- MODULE JobEngine -----------------------------
(***************************************************************************)
(* The life of a job between four kinds of goroutines that share the job   *)
(* store and the queue: the HTTP handler that creates the job and          *)
(* dispatches it, the dispatcher's background poll, the workers, and the   *)
(* HTTP handler that cancels it.                                           *)
(*                                                                         *)
(* Each call on the store is atomic (it holds the store's mutex) and every *)
(* one that another goroutine's call can slip between is a step.  The      *)
(* store hands out the shared *Job, so store.Update changes nothing that a *)
(* reader could not see already, and is left out.  The queue is a bag of   *)
(* jobs: a token always finds a job (PriorityQueue!NeverEmptyHanded), so a *)
(* worker takes one whenever there is one; a channel that overflows is the *)
(* subject of PriorityQueue.                                               *)
(***************************************************************************)
EXTENDS Integers, FiniteSets

CONSTANTS
    Jobs,        \* job IDs; each is submitted at most once
    Workers,     \* worker goroutines
    Poller,      \* the dispatcher's background goroutine
    NoJob,       \* no job at hand
    MaxRetries,  \* MaxRetries of every job: 1..10 once the request is validated
    PageSize,    \* how many jobs one poll lists (MaxBatchSize, at most 100)
    Priority,    \* Jobs -> 1..10
    DependsOn,   \* Jobs -> Jobs \cup {NoJob}, Metadata["depends_on"]
    MayReject,   \* may the queue refuse a job (its RAM cap)?
    Cancellable  \* bound: the jobs some client asks to cancel

ASSUME JobsAssumption == IsFiniteSet(Jobs) /\ NoJob \notin Jobs /\ Poller \notin Jobs
ASSUME WorkersAssumption == IsFiniteSet(Workers)
ASSUME BoundsAssumption == MaxRetries \in Nat \ {0} /\ PageSize \in Nat \ {0}
ASSUME DataAssumption ==
    /\ Priority \in [Jobs -> 1..10]
    /\ DependsOn \in [Jobs -> Jobs \cup {NoJob}]
    /\ MayReject \in BOOLEAN
    /\ Cancellable \subseteq Jobs

VARIABLES
    status,     \* Job.Status in the store; "none" before Create
    retries,    \* Job.RetryCount
    dispatch,   \* where each call of Dispatch is: a job's handler, the poll
    batch,      \* the jobs the poll listed and has yet to dispatch
    polling,    \* the job the poll is dispatching
    queue,      \* how many times each job is in the queue
    workerPc,   \* where each worker is
    work,       \* the job each worker has
    saw,        \* the RetryCount a failing worker compared with MaxRetries
    cancel,     \* each job's cancel request: "none", "allowed", "acked"
    ran,        \* history: the jobs a worker has started
    finished    \* history: the jobs a worker has completed

vars == <<status, retries, dispatch, batch, polling, queue, workerPc, work,
          saw, cancel, ran, finished>>

Agents == Jobs \cup {Poller}
Target(a) == IF a = Poller THEN polling ELSE a

\* The worker has marked the job running and has its last write ahead of it.
Executing == {"executing", "completing", "failing", "counting", "requeueing",
              "givingUp"}

TypeOK ==
    /\ status \in [Jobs -> {"none", "pending", "queued", "running", "completed",
                            "failed", "cancelled"}]
    /\ retries \in [Jobs -> Nat]
    /\ dispatch \in [Agents -> {"idle", "check", "enqueue", "mark"}]
    /\ batch \subseteq Jobs
    /\ polling \in Jobs \cup {NoJob}
    /\ queue \in [Jobs -> Nat]
    /\ workerPc \in [Workers -> {"idle", "holding", "locking"} \cup Executing]
    /\ work \in [Workers -> Jobs \cup {NoJob}]
    /\ saw \in [Workers -> Nat]
    /\ cancel \in [Jobs -> {"none", "allowed", "acked"}]
    /\ ran \subseteq Jobs
    /\ finished \subseteq Jobs

Init ==
    /\ status = [j \in Jobs |-> "none"]
    /\ retries = [j \in Jobs |-> 0]
    /\ dispatch = [a \in Agents |-> "idle"]
    /\ batch = {}
    /\ polling = NoJob
    /\ queue = [j \in Jobs |-> 0]
    /\ workerPc = [w \in Workers |-> "idle"]
    /\ work = [w \in Workers |-> NoJob]
    /\ saw = [w \in Workers |-> 0]
    /\ cancel = [j \in Jobs |-> "none"]
    /\ ran = {}
    /\ finished = {}

-----------------------------------------------------------------------------
(* Dispatch: in the handler of a new job, and in the poll                  *)

\* The store overwrites the status, whatever it was.
UpdateStatus(j, s) == status' = [status EXCEPT ![j] = s]

\* The handler stores the job as pending and goes on to dispatch it.
Submit(j) ==
    /\ status[j] = "none"
    /\ UpdateStatus(j, "pending")
    /\ dispatch' = [dispatch EXCEPT ![j] = "check"]
    /\ UNCHANGED <<retries, batch, polling, queue, workerPc, work, saw, cancel,
                   ran, finished>>

Pending == {j \in Jobs : status[j] = "pending"}

\* Faulty: the second page is listed instead of the first.
Pages_Second ==
    {page \in SUBSET Pending :
        /\ Cardinality(page) = IF Cardinality(Pending) < PageSize
                               THEN 0 ELSE Cardinality(Pending) - PageSize
        /\ \A j \in page, k \in Pending \ page : Priority[k] <= Priority[j]}

\* What store.List returns: the first PageSize pending jobs by priority, those
\* of one priority in any order.
Pages ==
    {page \in SUBSET Pending :
        /\ Cardinality(page) = IF Cardinality(Pending) < PageSize
                               THEN Cardinality(Pending) ELSE PageSize
        /\ \A j \in page, k \in Pending \ page : Priority[j] <= Priority[k]}

PollList ==
    /\ dispatch[Poller] = "idle"
    /\ batch = {}
    /\ batch' \in Pages
    /\ UNCHANGED <<status, retries, dispatch, polling, queue, workerPc, work,
                   saw, cancel, ran, finished>>

\* The poll dispatches what it listed, whatever became of it since.
PollNext ==
    /\ dispatch[Poller] = "idle"
    /\ \E j \in batch :
        /\ \A k \in batch : Priority[j] <= Priority[k]
        /\ batch' = batch \ {j}
        /\ polling' = j
    /\ dispatch' = [dispatch EXCEPT ![Poller] = "check"]
    /\ UNCHANGED <<status, retries, queue, workerPc, work, saw, cancel, ran,
                   finished>>

\* Dispatch goes to its next statement, or returns.
Goto(a, pc) == dispatch' = [dispatch EXCEPT ![a] = pc] /\ UNCHANGED polling
Return(a) ==
    /\ dispatch' = [dispatch EXCEPT ![a] = "idle"]
    /\ polling' = IF a = Poller THEN NoJob ELSE polling

\* The job depends on none, or on one whose status says completed.
Ready(j) == DependsOn[j] = NoJob \/ status[DependsOn[j]] = "completed"

\* Faulty: a dependency that is not in the store does not block.
DispatchCheck_MissingOK(a) ==
    /\ dispatch[a] = "check"
    /\ IF Ready(Target(a)) \/ status[DependsOn[Target(a)]] = "none"
       THEN Goto(a, "enqueue") ELSE Return(a)
    /\ UNCHANGED <<status, retries, batch, queue, workerPc, work, saw, cancel,
                   ran, finished>>

DispatchCheck(a) ==
    /\ dispatch[a] = "check"
    /\ IF Ready(Target(a)) THEN Goto(a, "enqueue") ELSE Return(a)
    /\ UNCHANGED <<status, retries, batch, queue, workerPc, work, saw, cancel,
                   ran, finished>>

\* Faulty: a refused job is marked queued all the same.
DispatchReject_Marked(a) ==
    /\ dispatch[a] = "enqueue"
    /\ MayReject
    /\ Goto(a, "mark")
    /\ UNCHANGED <<status, retries, batch, queue, workerPc, work, saw, cancel,
                   ran, finished>>

\* The queue is over its RAM cap: the job stays pending.
DispatchReject(a) ==
    /\ dispatch[a] = "enqueue"
    /\ MayReject
    /\ Return(a)
    /\ UNCHANGED <<status, retries, batch, queue, workerPc, work, saw, cancel,
                   ran, finished>>

DispatchEnqueue(a) ==
    /\ dispatch[a] = "enqueue"
    /\ Goto(a, "mark")
    /\ queue' = [queue EXCEPT ![Target(a)] = @ + 1]
    /\ UNCHANGED <<status, retries, batch, workerPc, work, saw, cancel, ran,
                   finished>>

\* The status is overwritten, although a worker may have the job already.
DispatchMark(a) ==
    /\ dispatch[a] = "mark"
    /\ Return(a)
    /\ UpdateStatus(Target(a), "queued")
    /\ UNCHANGED <<retries, batch, queue, workerPc, work, saw, cancel, ran,
                   finished>>

-----------------------------------------------------------------------------
(* A worker: processJob                                                    *)

\* The worker moves on with its job, or is done with it.
Proceed(w, pc) == workerPc' = [workerPc EXCEPT ![w] = pc] /\ UNCHANGED work
Drop(w) ==
    /\ workerPc' = [workerPc EXCEPT ![w] = "idle"]
    /\ work' = [work EXCEPT ![w] = NoJob]

Take(w, j) ==
    /\ workerPc[w] = "idle"
    /\ queue[j] > 0
    /\ queue' = [queue EXCEPT ![j] = @ - 1]
    /\ workerPc' = [workerPc EXCEPT ![w] = "holding"]
    /\ work' = [work EXCEPT ![w] = j]
    /\ UNCHANGED <<status, retries, dispatch, batch, polling, saw, cancel, ran,
                   finished>>

\* Faulty: the job is not looked at again before it runs.
Inspect_Skipped(w) ==
    /\ workerPc[w] = "holding"
    /\ Proceed(w, "locking")
    /\ UNCHANGED <<status, retries, dispatch, batch, polling, queue, saw, cancel,
                   ran, finished>>

\* Faulty: every job that is not queued is skipped.
Inspect_QueuedOnly(w) ==
    /\ workerPc[w] = "holding"
    /\ IF status[work[w]] # "queued" THEN Drop(w) ELSE Proceed(w, "locking")
    /\ UNCHANGED <<status, retries, dispatch, batch, polling, queue, saw, cancel,
                   ran, finished>>

\* A job cancelled while it waited is skipped.
Inspect(w) ==
    /\ workerPc[w] = "holding"
    /\ IF status[work[w]] = "cancelled" THEN Drop(w) ELSE Proceed(w, "locking")
    /\ UNCHANGED <<status, retries, dispatch, batch, polling, queue, saw, cancel,
                   ran, finished>>

Lock(w) ==
    /\ workerPc[w] = "locking"
    /\ Proceed(w, "executing")
    /\ UpdateStatus(work[w], "running")
    /\ ran' = ran \cup {work[w]}
    /\ UNCHANGED <<retries, dispatch, batch, polling, queue, saw, cancel, finished>>

\* The executor succeeds, fails, or runs into the job's timeout, after which
\* there is no retry.
Execute(w) ==
    /\ workerPc[w] = "executing"
    /\ \E pc \in {"completing", "failing", "givingUp"} : Proceed(w, pc)
    /\ UNCHANGED <<status, retries, dispatch, batch, polling, queue, saw, cancel,
                   ran, finished>>

Complete(w) ==
    /\ workerPc[w] = "completing"
    /\ Drop(w)
    /\ UpdateStatus(work[w], "completed")
    /\ finished' = finished \cup {work[w]}
    /\ UNCHANGED <<retries, dispatch, batch, polling, queue, saw, cancel, ran>>

\* Faulty: one retry too many.
CheckRetry_OffByOne(w) ==
    /\ workerPc[w] = "failing"
    /\ IF retries[work[w]] <= MaxRetries
       THEN Proceed(w, "counting") /\ saw' = [saw EXCEPT ![w] = retries[work[w]]]
       ELSE Proceed(w, "givingUp") /\ UNCHANGED saw
    /\ UNCHANGED <<status, retries, dispatch, batch, polling, queue, cancel, ran,
                   finished>>

CheckRetry(w) ==
    /\ workerPc[w] = "failing"
    /\ IF retries[work[w]] < MaxRetries
       THEN Proceed(w, "counting") /\ saw' = [saw EXCEPT ![w] = retries[work[w]]]
       ELSE Proceed(w, "givingUp") /\ UNCHANGED saw
    /\ UNCHANGED <<status, retries, dispatch, batch, polling, queue, cancel, ran,
                   finished>>

\* RetryCount++ without a lock: it may reuse the value that was compared.
CountRetry(w) ==
    /\ workerPc[w] = "counting"
    /\ Proceed(w, "requeueing")
    /\ \E base \in {saw[w], retries[work[w]]} :
           retries' = [retries EXCEPT ![work[w]] = base + 1]
    /\ saw' = [saw EXCEPT ![w] = 0]
    /\ UNCHANGED <<status, dispatch, batch, polling, queue, cancel, ran, finished>>

\* Faulty: the job is left running.
Requeue_StatusKept(w) ==
    /\ workerPc[w] = "requeueing"
    /\ Drop(w)
    /\ UNCHANGED <<status, retries, dispatch, batch, polling, queue, saw, cancel,
                   ran, finished>>

\* The job is pending again and waits for the poll.
Requeue(w) ==
    /\ workerPc[w] = "requeueing"
    /\ Drop(w)
    /\ UpdateStatus(work[w], "pending")
    /\ UNCHANGED <<retries, dispatch, batch, polling, queue, saw, cancel, ran,
                   finished>>

GiveUp(w) ==
    /\ workerPc[w] = "givingUp"
    /\ Drop(w)
    /\ UpdateStatus(work[w], "failed")
    /\ UNCHANGED <<retries, dispatch, batch, polling, queue, saw, cancel, ran,
                   finished>>

-----------------------------------------------------------------------------
(* CancelJob: the status is read first and overwritten later.  A request    *)
(* that finds the job in another status is refused and changes nothing.     *)

CancelRead(j) ==
    /\ j \in Cancellable
    /\ cancel[j] = "none"
    /\ status[j] \in {"pending", "queued", "running"}
    /\ cancel' = [cancel EXCEPT ![j] = "allowed"]
    /\ UNCHANGED <<status, retries, dispatch, batch, polling, queue, workerPc,
                   work, saw, ran, finished>>

CancelWrite(j) ==
    /\ cancel[j] = "allowed"
    /\ cancel' = [cancel EXCEPT ![j] = "acked"]
    /\ UpdateStatus(j, "cancelled")
    /\ UNCHANGED <<retries, dispatch, batch, polling, queue, workerPc, work, saw,
                   ran, finished>>

-----------------------------------------------------------------------------
Poll == PollList \/ PollNext

DispatchStep(a) ==
    DispatchCheck(a) \/ DispatchReject(a) \/ DispatchEnqueue(a) \/ DispatchMark(a)

WorkerStep(w) ==
    \/ \E j \in Jobs : Take(w, j)
    \/ Inspect(w) \/ Lock(w) \/ Execute(w) \/ Complete(w)
    \/ CheckRetry(w) \/ CountRetry(w) \/ Requeue(w) \/ GiveUp(w)

Next ==
    \/ \E j \in Jobs : Submit(j) \/ CancelRead(j) \/ CancelWrite(j)
    \/ Poll
    \/ \E a \in Agents : DispatchStep(a)
    \/ \E w \in Workers : WorkerStep(w)

Spec == Init /\ [][Next]_vars

\* A call that was begun runs on, the poll's ticker goes on ticking, a worker
\* takes a job if there is one, and an execution ends, at the latest with its
\* timeout.  Clients need not submit or cancel anything.
Fairness ==
    /\ \A j \in Jobs : WF_vars(CancelWrite(j))
    /\ WF_vars(Poll)
    /\ \A a \in Agents : WF_vars(DispatchStep(a))
    /\ \A w \in Workers : WF_vars(WorkerStep(w))

FairSpec == Spec /\ Fairness

-----------------------------------------------------------------------------
(* Properties                                                              *)

\* A job that says running is being run: a worker marked it and still has its
\* last write of the status ahead of it (pool.go:266-348).  No interleaving of
\* two workers, a late dispatch or a cancel leaves a job running for ever.
RunningHasWorker ==
    \A j \in Jobs : status[j] = "running" =>
        \E w \in Workers : work[w] = j /\ workerPc[w] \in Executing

\* A call of Dispatch has found the job's dependency completed, a copy of the
\* job is in the queue or in a worker's hands, or it has run.
Admitted(j) ==
    \/ \E a \in Agents : dispatch[a] \in {"enqueue", "mark"} /\ Target(a) = j
    \/ queue[j] > 0
    \/ \E w \in Workers : work[w] = j
    \/ j \in ran

DependencyInv ==
    /\ \A j \in Jobs : status[j] = "completed" => j \in finished
    /\ \A j \in Jobs : Admitted(j) /\ DependsOn[j] # NoJob => DependsOn[j] \in finished

\* A job runs only if the job it depends on was completed by a worker, however
\* long ago the dispatch looked (dispatcher.go:149-159, pool.go:254-290).
DependencyRespected ==
    \A j \in ran : DependsOn[j] # NoJob => DependsOn[j] \in finished

\* A job that says queued has not been forgotten before its first run: it is in
\* the queue, or a worker is about to run it, or one has, or the client was told
\* it is cancelled (dispatcher.go:162-173, pool.go:254-273).
Served(j) ==
    \/ queue[j] > 0
    \/ \E w \in Workers : work[w] = j /\ workerPc[w] \in {"holding", "locking"}
    \/ j \in ran
    \/ cancel[j] = "acked"

QueuedIsServed == \A j \in Jobs : status[j] = "queued" => Served(j)

\* The same before the status is written, between Enqueue and UpdateStatus.
ServedInv ==
    /\ \A j \in Jobs : status[j] = "cancelled" => cancel[j] = "acked"
    /\ \A a \in Agents : dispatch[a] = "mark" => Served(Target(a))
    /\ QueuedIsServed

\* RetryCount is compared and incremented without a lock (pool.go:311-312), so
\* workers that run the same job may all pass the comparison; MaxRetries is
\* exceeded by no more than the other workers.
Counting(j) == {w \in Workers : workerPc[w] = "counting" /\ work[w] = j}

RetryInv ==
    /\ \A w \in Workers : workerPc[w] = "counting" => saw[w] < MaxRetries
    /\ \A j \in Jobs :
           retries[j] + Cardinality(Counting(j)) <= MaxRetries - 1 + Cardinality(Workers)

RetryOvershootBounded ==
    \A j \in Jobs :
        retries[j] <= MaxRetries - 1 + Cardinality(Workers)

\* The invariant the proofs carry from step to step.
IndInv == TypeOK /\ RunningHasWorker /\ DependencyInv /\ ServedInv /\ RetryInv

\* Nothing is on its way to overwrite the status of the job: no dispatch of it
\* is under way or listed by the poll, no cancel was allowed, and no worker has
\* passed its check of the job.
Undisturbed(j) ==
    /\ dispatch[j] = "idle"
    /\ polling # j /\ j \notin batch
    /\ cancel[j] # "allowed"
    /\ \A w \in Workers : work[w] = j => workerPc[w] = "holding"

\* A cancelled job with no call in progress for it stays cancelled, even with
\* copies of it left in the queue: the workers skip them (pool.go:256-263).
\* A job that completed or failed stays so if in addition no copy is left.
SettledStays ==
    [][\A j \in Jobs :
        /\ status[j] = "cancelled" /\ Undisturbed(j) =>
               status'[j] = "cancelled" /\ Undisturbed(j)'
        /\ /\ status[j] \in {"completed", "failed"} /\ Undisturbed(j)
           /\ queue[j] = 0 /\ \A w \in Workers : work[w] # j
           => status'[j] = status[j]]_vars

\* A pending job whose dependency is met.
Waiting(j) == status[j] = "pending" /\ Ready(j)

\* A copy of the job is on its way to run, or nothing need come of it: the
\* client was told it is cancelled, or its dependency no longer says completed.
Caught(j) ==
    \/ queue[j] > 0
    \/ \E w \in Workers : work[w] = j
    \/ cancel[j] = "acked"
    \/ ~Ready(j)

\* A dispatch that has enqueued the job is about to write queued, over whatever
\* the status is by then.
LateMark(j) == \E a \in Agents : dispatch[a] = "mark" /\ Target(a) = j

\* The poll as a safety net (dispatcher.go:29-30), a retry's in particular
\* (pool.go:322-323): a waiting job comes to the queue or to a worker.  True if
\* no late mark is ahead when the job is set to pending, one poll lists every
\* pending job and the queue has room.
SafetyNet ==
    \A j \in Jobs : Waiting(j) /\ ~LateMark(j) ~> Caught(j)

\* Every job that is submitted is run, unless it is cancelled, or what it
\* depends on does not say completed (job.go:9-13).
EveryJobRuns ==
    \A j \in Jobs : status[j] # "none" ~> j \in ran \/ cancel[j] = "acked" \/ ~Ready(j)

\* As the source states it (pool.go:22): a worker locks the job it runs.
SingleExecution ==
    \A v, w \in Workers :
        v # w /\ workerPc[v] \in Executing /\ workerPc[w] \in Executing =>
            work[v] # work[w]

=============================================================================
