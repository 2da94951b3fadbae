-------------------------- MODULE JobEngineProofs --------------------------
(***************************************************************************)
(* What JobEngine guarantees for any number of jobs and workers.           *)
(***************************************************************************)
EXTENDS JobEngine, FiniteSetTheorems, TLAPS

USE JobsAssumption, WorkersAssumption, BoundsAssumption, DataAssumption DEF UpdateStatus

-----------------------------------------------------------------------------
(* Type correctness                                                        *)

\* Whoever is under way has a job at hand.
AtHand ==
    /\ dispatch[Poller] # "idle" => polling \in Jobs
    /\ \A w \in Workers : workerPc[w] # "idle" => work[w] \in Jobs

TypeInv == TypeOK /\ AtHand

LEMMA TargetIsJob ==
  ASSUME TypeInv, NEW a \in Agents, dispatch[a] # "idle"
  PROVE  Target(a) \in Jobs
  BY DEF TypeInv, AtHand, Target, Agents

LEMMA TypeInvInit == Init => TypeInv
  BY DEF Init, TypeInv, TypeOK, AtHand, Agents

LEMMA TypeInvNext == TypeInv /\ [Next]_vars => TypeInv'
  <1> SUFFICES ASSUME TypeInv, [Next]_vars PROVE TypeInv'
    OBVIOUS
  <1> USE DEF TypeInv, TypeOK, AtHand
  <1>1. ASSUME NEW j \in Jobs, Submit(j) PROVE TypeInv'
    BY <1>1 DEF Submit, Agents
  <1>2. ASSUME NEW j \in Jobs, CancelRead(j) PROVE TypeInv'
    BY <1>2 DEF CancelRead
  <1>3. ASSUME NEW j \in Jobs, CancelWrite(j) PROVE TypeInv'
    BY <1>3 DEF CancelWrite
  <1>4. CASE PollList
    <2>1. batch' \subseteq Jobs
      BY <1>4 DEF PollList, Pages, Pending
    <2>2. QED
      BY <1>4, <2>1 DEF PollList
  <1>5. CASE PollNext
    BY <1>5 DEF PollNext, Agents
  <1>6. ASSUME NEW a \in Agents, DispatchCheck(a) PROVE TypeInv'
    <2>1. CASE Goto(a, "enqueue")
      BY <1>6, <2>1 DEF DispatchCheck, Goto, Agents
    <2>2. CASE Return(a)
      BY <1>6, <2>2 DEF DispatchCheck, Return, Agents
    <2>3. QED
      BY <1>6, <2>1, <2>2 DEF DispatchCheck
  <1>7. ASSUME NEW a \in Agents, DispatchReject(a) PROVE TypeInv'
    BY <1>7 DEF DispatchReject, Return
  <1>8. ASSUME NEW a \in Agents, DispatchEnqueue(a) PROVE TypeInv'
    BY <1>8, TargetIsJob DEF DispatchEnqueue, Goto
  <1>9. ASSUME NEW a \in Agents, DispatchMark(a) PROVE TypeInv'
    BY <1>9, TargetIsJob DEF DispatchMark, Return
  <1>10. ASSUME NEW w \in Workers, NEW j \in Jobs, Take(w, j) PROVE TypeInv'
    BY <1>10 DEF Take
  <1>11. ASSUME NEW w \in Workers, Inspect(w) PROVE TypeInv'
    BY <1>11 DEF Inspect, Proceed, Drop
  <1>12. ASSUME NEW w \in Workers, Lock(w) PROVE TypeInv'
    BY <1>12 DEF Lock, Proceed, Executing
  <1>13. ASSUME NEW w \in Workers, Execute(w) PROVE TypeInv'
    BY <1>13 DEF Execute, Proceed, Executing
  <1>14. ASSUME NEW w \in Workers, Complete(w) PROVE TypeInv'
    BY <1>14 DEF Complete, Drop
  <1>15. ASSUME NEW w \in Workers, CheckRetry(w) PROVE TypeInv'
    BY <1>15 DEF CheckRetry, Proceed, Executing
  <1>16. ASSUME NEW w \in Workers, CountRetry(w) PROVE TypeInv'
    BY <1>16 DEF CountRetry, Proceed, Executing
  <1>17. ASSUME NEW w \in Workers, Requeue(w) PROVE TypeInv'
    BY <1>17 DEF Requeue, Drop
  <1>18. ASSUME NEW w \in Workers, GiveUp(w) PROVE TypeInv'
    BY <1>18 DEF GiveUp, Drop
  <1>19. CASE UNCHANGED vars
    BY <1>19 DEF vars
  <1>20. QED
    BY <1>1, <1>2, <1>3, <1>4, <1>5, <1>6, <1>7, <1>8, <1>9, <1>10, <1>11, <1>12,
       <1>13, <1>14, <1>15, <1>16, <1>17, <1>18, <1>19
       DEF Next, Poll, DispatchStep, WorkerStep

LEMMA Typing == Spec => []TypeInv
  BY TypeInvInit, TypeInvNext, PTL DEF Spec

\* The variables of the job engine keep their types.
THEOREM TypeCorrect == Spec => []TypeOK
  <1>1. TypeInv => TypeOK
    BY DEF TypeInv
  <1>2. QED
    BY <1>1, Typing, PTL

-----------------------------------------------------------------------------
(* A running job has a worker                                              *)

LEMMA RunningNext ==
  TypeInv /\ RunningHasWorker /\ [Next]_vars => RunningHasWorker'
  <1> SUFFICES ASSUME TypeInv, RunningHasWorker, [Next]_vars
               PROVE  RunningHasWorker'
    OBVIOUS
  <1> USE DEF RunningHasWorker, TypeInv, TypeOK, AtHand
  <1>1. ASSUME NEW j \in Jobs, Submit(j) \/ CancelRead(j) \/ CancelWrite(j)
        PROVE  RunningHasWorker'
    BY <1>1 DEF Submit, CancelRead, CancelWrite
  <1>2. CASE Poll
    BY <1>2 DEF Poll, PollList, PollNext
  <1>3. ASSUME NEW a \in Agents, DispatchStep(a) PROVE RunningHasWorker'
    <2>1. CASE DispatchMark(a)
      BY <2>1 DEF DispatchMark, Return
    <2>2. CASE DispatchCheck(a) \/ DispatchReject(a) \/ DispatchEnqueue(a)
      BY <2>2 DEF DispatchCheck, DispatchReject, DispatchEnqueue
    <2>3. QED
      BY <1>3, <2>1, <2>2 DEF DispatchStep
  <1>4. ASSUME NEW w \in Workers, WorkerStep(w) PROVE RunningHasWorker'
    <2>1. ASSUME NEW j \in Jobs, Take(w, j) PROVE RunningHasWorker'
      BY <2>1 DEF Take, Executing
    <2>2. CASE Inspect(w)
      BY <2>2 DEF Inspect, Proceed, Drop, Executing
    <2>3. CASE Lock(w)
      BY <2>3 DEF Lock, Proceed, Executing
    <2>4. CASE Execute(w) \/ CheckRetry(w) \/ CountRetry(w)
      BY <2>4 DEF Execute, CheckRetry, CountRetry, Proceed, Executing
    <2>5. CASE Complete(w) \/ Requeue(w) \/ GiveUp(w)
      BY <2>5 DEF Complete, Requeue, GiveUp, Drop, Executing
    <2>6. QED
      BY <1>4, <2>1, <2>2, <2>3, <2>4, <2>5 DEF WorkerStep
  <1>5. CASE UNCHANGED vars
    BY <1>5 DEF vars
  <1>6. QED
    BY <1>1, <1>2, <1>3, <1>4, <1>5 DEF Next

\* A job that says running is being run by a worker that has its last write of
\* the status ahead of it, for any number of jobs, workers, duplicates in the
\* queue, cancels and late dispatches (pool.go:266-348).
THEOREM RunningJobsHaveWorkers == Spec => []RunningHasWorker
  <1>1. Init => RunningHasWorker
    BY DEF Init, RunningHasWorker
  <1>2. QED
    BY <1>1, Typing, RunningNext, PTL DEF Spec

-----------------------------------------------------------------------------
(* Dependencies                                                            *)

LEMMA DependencyNext ==
  TypeInv /\ DependencyInv /\ [Next]_vars => DependencyInv'
  <1> SUFFICES ASSUME TypeInv, DependencyInv, [Next]_vars
               PROVE  DependencyInv'
    OBVIOUS
  <1> USE DEF TypeInv, TypeOK, AtHand
  <1> DEFINE Met(j) == DependsOn[j] # NoJob => DependsOn[j] \in finished
  <1>1. /\ \A j \in Jobs : status[j] = "completed" => j \in finished
        /\ \A j \in Jobs : Admitted(j) => Met(j)
        /\ finished \subseteq finished'
    <2>1. finished \subseteq finished'
      BY DEF Next, vars, Submit, CancelRead, CancelWrite, Poll, PollList, PollNext,
             DispatchStep, DispatchCheck, DispatchReject, DispatchEnqueue,
             DispatchMark, WorkerStep, Take, Inspect, Lock, Execute, Complete,
             CheckRetry, CountRetry, Requeue, GiveUp
    <2>2. QED
      BY <2>1 DEF DependencyInv
  <1>2. SUFFICES /\ \A j \in Jobs : status'[j] = "completed" => j \in finished'
                 /\ \A j \in Jobs : Admitted(j)' => Admitted(j) \/ Met(j)'
    BY <1>1 DEF DependencyInv
  <1> DEFINE Goal == /\ \A j \in Jobs : status'[j] = "completed" => j \in finished'
                     /\ \A j \in Jobs : Admitted(j)' => Admitted(j) \/ Met(j)'
  <1>3. ASSUME NEW j \in Jobs, Submit(j) \/ CancelRead(j) \/ CancelWrite(j)
        PROVE  Goal
    BY <1>1, <1>3 DEF Submit, CancelRead, CancelWrite, Admitted, Target, Agents
  <1>4. CASE Poll
    BY <1>1, <1>4 DEF Poll, PollList, PollNext, Admitted, Target, Agents
  <1>5. ASSUME NEW a \in Agents, DispatchStep(a) PROVE Goal
    <2>1. CASE DispatchCheck(a)
      <3>1. CASE Goto(a, "enqueue")
        <4>1. Ready(Target(a)) \/ dispatch' = [dispatch EXCEPT ![a] = "idle"]
          BY <2>1 DEF DispatchCheck, Return
        <4>2. Ready(Target(a))
          BY <2>1, <3>1, <4>1 DEF Goto, DispatchCheck
        <4>3. Target(a) \in Jobs
          BY <2>1, TargetIsJob DEF DispatchCheck
        <4>4. Met(Target(a))'
          BY <1>1, <2>1, <3>1, <4>2, <4>3 DEF Ready, DispatchCheck, Goto, Target
        <4>5. QED
          BY <1>1, <2>1, <3>1, <4>4 DEF DispatchCheck, Goto, Admitted, Target
      <3>2. CASE Return(a)
        BY <1>1, <2>1, <3>2 DEF DispatchCheck, Return, Admitted, Target, Agents
      <3>3. QED
        BY <2>1, <3>1, <3>2 DEF DispatchCheck
    <2>2. CASE DispatchReject(a)
      BY <1>1, <2>2 DEF DispatchReject, Return, Admitted, Target, Agents
    <2>3. CASE DispatchEnqueue(a)
      <3>1. Target(a) \in Jobs /\ Admitted(Target(a))
        BY <2>3, TargetIsJob DEF DispatchEnqueue, Admitted
      <3>2. QED
        BY <1>1, <2>3, <3>1 DEF DispatchEnqueue, Goto, Admitted, Target
    <2>4. CASE DispatchMark(a)
      BY <1>1, <2>4 DEF DispatchMark, Return, Admitted, Target, Agents
    <2>5. QED
      BY <1>5, <2>1, <2>2, <2>3, <2>4 DEF DispatchStep
  <1>6. ASSUME NEW w \in Workers, WorkerStep(w) PROVE Goal
    <2>1. ASSUME NEW j \in Jobs, Take(w, j) PROVE Goal
      BY <1>1, <2>1 DEF Take, Admitted, Target
    <2>2. CASE Inspect(w)
      BY <1>1, <2>2 DEF Inspect, Proceed, Drop, Admitted, Target
    <2>3. CASE Lock(w)
      BY <1>1, <2>3 DEF Lock, Proceed, Admitted, Target
    <2>4. CASE Execute(w) \/ CheckRetry(w) \/ CountRetry(w)
      BY <1>1, <2>4 DEF Execute, CheckRetry, CountRetry, Proceed, Admitted, Target
    <2>5. CASE Complete(w)
      BY <1>1, <2>5 DEF Complete, Drop, Admitted, Target
    <2>6. CASE Requeue(w) \/ GiveUp(w)
      BY <1>1, <2>6 DEF Requeue, GiveUp, Drop, Admitted, Target
    <2>7. QED
      BY <1>6, <2>1, <2>2, <2>3, <2>4, <2>5, <2>6 DEF WorkerStep
  <1>7. CASE UNCHANGED vars
    BY <1>1, <1>7 DEF vars, Admitted, Target
  <1>8. QED
    BY <1>3, <1>4, <1>5, <1>6, <1>7 DEF Next

\* No job runs before some worker has completed the job it depends on, however
\* far apart the check, the dequeue and the run are (dispatcher.go:149-159).
THEOREM DependenciesRespected == Spec => []DependencyRespected
  <1>1. Init => DependencyInv
    BY DEF Init, DependencyInv, Admitted
  <1>2. DependencyInv /\ TypeOK => DependencyRespected
    BY DEF DependencyInv, DependencyRespected, Admitted, TypeOK
  <1>3. TypeInv => TypeOK
    BY DEF TypeInv
  <1>4. QED
    BY <1>1, <1>2, <1>3, Typing, DependencyNext, PTL DEF Spec

-----------------------------------------------------------------------------
(* No job is forgotten before its first run                                *)

LEMMA ServedKept ==
  ASSUME TypeInv, ServedInv, [Next]_vars, NEW j \in Jobs, Served(j)
  PROVE  Served(j)'
  <1> USE DEF TypeInv, TypeOK, AtHand
  <1>1. ASSUME NEW k \in Jobs, Submit(k) \/ CancelRead(k) \/ CancelWrite(k)
        PROVE  Served(j)'
    BY <1>1 DEF Submit, CancelRead, CancelWrite, Served
  <1>2. CASE Poll
    BY <1>2 DEF Poll, PollList, PollNext, Served
  <1>3. ASSUME NEW a \in Agents, DispatchStep(a) PROVE Served(j)'
    <2>1. CASE DispatchEnqueue(a)
      <3>1. Target(a) \in Jobs
        BY <2>1, TargetIsJob DEF DispatchEnqueue
      <3>2. QED
        BY <2>1, <3>1 DEF DispatchEnqueue, Served
    <2>2. CASE DispatchCheck(a) \/ DispatchReject(a) \/ DispatchMark(a)
      BY <2>2 DEF DispatchCheck, DispatchReject, DispatchMark, Served
    <2>3. QED
      BY <1>3, <2>1, <2>2 DEF DispatchStep
  <1>4. ASSUME NEW w \in Workers, WorkerStep(w) PROVE Served(j)'
    <2>1. ASSUME NEW k \in Jobs, Take(w, k) PROVE Served(j)'
      BY <2>1 DEF Take, Served
    <2>2. CASE Inspect(w)
      <3>1. CASE work[w] = j /\ status[j] = "cancelled"
        BY <2>2, <3>1 DEF Inspect, Served, ServedInv
      <3>2. CASE work[w] # j \/ status[j] # "cancelled"
        BY <2>2, <3>2 DEF Inspect, Proceed, Drop, Served
      <3>3. QED
        BY <3>1, <3>2
    <2>3. CASE Lock(w)
      BY <2>3 DEF Lock, Proceed, Served
    <2>4. CASE Execute(w) \/ CheckRetry(w) \/ CountRetry(w)
      BY <2>4 DEF Execute, CheckRetry, CountRetry, Proceed, Served
    <2>5. CASE Complete(w) \/ Requeue(w) \/ GiveUp(w)
      BY <2>5 DEF Complete, Requeue, GiveUp, Drop, Served
    <2>6. QED
      BY <1>4, <2>1, <2>2, <2>3, <2>4, <2>5 DEF WorkerStep
  <1>5. CASE UNCHANGED vars
    BY <1>5 DEF vars, Served
  <1>6. QED
    BY <1>1, <1>2, <1>3, <1>4, <1>5 DEF Next

LEMMA ServedNext == TypeInv /\ ServedInv /\ [Next]_vars => ServedInv'
  <1> SUFFICES ASSUME TypeInv, ServedInv, [Next]_vars PROVE ServedInv'
    OBVIOUS
  <1> DEFINE Mk == \A a \in Agents : dispatch'[a] = "mark" => Served(Target(a))'
             Ca == \A j \in Jobs : status'[j] = "cancelled" => cancel'[j] = "acked"
             Qu == \A j \in Jobs : status'[j] = "queued" => Served(j)'
  <1>1. /\ \A j \in Jobs : status[j] = "cancelled" => cancel[j] = "acked"
        /\ \A a \in Agents : dispatch[a] = "mark" => Served(Target(a))
        /\ \A j \in Jobs : status[j] = "queued" => Served(j)
        /\ \A j \in Jobs : Served(j) => Served(j)'
        /\ \A a \in Agents : dispatch[a] # "idle" => Target(a) \in Jobs
    BY ServedKept, TargetIsJob DEF ServedInv, QueuedIsServed
  <1>2. SUFFICES Mk /\ Ca /\ Qu
    BY DEF ServedInv, QueuedIsServed, Target, Served
  <1> USE DEF TypeInv, TypeOK
  <1>3. ASSUME NEW j \in Jobs, Submit(j) \/ CancelRead(j) \/ CancelWrite(j)
        PROVE  Mk /\ Ca /\ Qu
    <2>1. Mk
      BY <1>1, <1>3 DEF Submit, CancelRead, CancelWrite, Target, Agents
    <2>2. Ca /\ Qu
      BY <1>1, <1>3 DEF Submit, CancelRead, CancelWrite
    <2>3. QED
      BY <2>1, <2>2
  <1>4. CASE Poll
    <2>1. Mk
      BY <1>1, <1>4 DEF Poll, PollList, PollNext, Target, Agents
    <2>2. Ca /\ Qu
      BY <1>1, <1>4 DEF Poll, PollList, PollNext
    <2>3. QED
      BY <2>1, <2>2
  <1>5. ASSUME NEW a \in Agents, DispatchStep(a) PROVE Mk /\ Ca /\ Qu
    <2>1. CASE DispatchCheck(a) \/ DispatchReject(a)
      <3>1. Mk
        BY <1>1, <2>1 DEF DispatchCheck, DispatchReject, Goto, Return, Target, Agents
      <3>2. Ca /\ Qu
        BY <1>1, <2>1 DEF DispatchCheck, DispatchReject
      <3>3. QED
        BY <3>1, <3>2
    <2>2. CASE DispatchEnqueue(a)
      <3>1. Served(Target(a))' /\ Target(a) \in Jobs
        BY <1>1, <2>2 DEF DispatchEnqueue, Goto, Served, Target
      <3>2. Mk
        BY <1>1, <2>2, <3>1 DEF DispatchEnqueue, Goto, Target
      <3>3. Ca /\ Qu
        BY <1>1, <2>2 DEF DispatchEnqueue
      <3>4. QED
        BY <3>2, <3>3
    <2>3. CASE DispatchMark(a)
      <3>1. Target(a) \in Jobs /\ Served(Target(a))
        BY <1>1, <2>3 DEF DispatchMark
      <3>2. Mk
        BY <1>1, <2>3 DEF DispatchMark, Return, Target, Agents
      <3>3. Ca /\ Qu
        BY <1>1, <2>3, <3>1 DEF DispatchMark
      <3>4. QED
        BY <3>2, <3>3
    <2>4. QED
      BY <1>5, <2>1, <2>2, <2>3 DEF DispatchStep
  <1>6. ASSUME NEW w \in Workers, WorkerStep(w) PROVE Mk /\ Ca /\ Qu
    <2>1. UNCHANGED <<dispatch, polling, cancel>>
      BY <1>6 DEF WorkerStep, Take, Inspect, Lock, Execute, Complete, CheckRetry,
                  CountRetry, Requeue, GiveUp
    <2>2. \A j \in Jobs : status'[j] # status[j] =>
              status'[j] \in {"running", "completed", "pending", "failed"}
      BY <1>6 DEF WorkerStep, Take, Inspect, Lock, Execute, Complete, CheckRetry,
                  CountRetry, Requeue, GiveUp
    <2>3. Mk
      BY <1>1, <2>1 DEF Target
    <2>4. Ca /\ Qu
      BY <1>1, <2>1, <2>2
    <2>5. QED
      BY <2>3, <2>4
  <1>7. CASE UNCHANGED vars
    <2>1. Mk
      BY <1>1, <1>7 DEF vars, Target
    <2>2. Ca /\ Qu
      BY <1>1, <1>7 DEF vars
    <2>3. QED
      BY <2>1, <2>2
  <1>8. QED
    BY <1>3, <1>4, <1>5, <1>6, <1>7 DEF Next

\* A job that says queued is in the queue or about to run, unless it has run
\* before or its client was told it is cancelled (dispatcher.go:162-173).
THEOREM QueuedJobsAreServed == Spec => []QueuedIsServed
  <1>1. Init => ServedInv
    BY DEF Init, ServedInv, QueuedIsServed
  <1>2. ServedInv => QueuedIsServed
    BY DEF ServedInv
  <1>3. QED
    BY <1>1, <1>2, Typing, ServedNext, PTL DEF Spec

-----------------------------------------------------------------------------
(* Retries                                                                 *)

LEMMA CountingFinite ==
  ASSUME NEW j
  PROVE  /\ IsFiniteSet(Counting(j)) /\ IsFiniteSet(Counting(j)')
         /\ Cardinality(Counting(j)) \in Nat /\ Cardinality(Counting(j)') \in Nat
         /\ Cardinality(Workers) \in Nat
         /\ Cardinality(Counting(j)') <= Cardinality(Workers)
  <1>1. Counting(j) \in SUBSET Workers /\ Counting(j)' \in SUBSET Workers
    BY DEF Counting
  <1>2. \A S \in SUBSET Workers : /\ IsFiniteSet(S)
                                  /\ Cardinality(S) <= Cardinality(Workers)
    BY FS_Subset
  <1>3. \A S : IsFiniteSet(S) => Cardinality(S) \in Nat
    BY FS_CardinalityType
  <1>4. QED
    BY <1>1, <1>2, <1>3

LEMMA RetryNext == TypeInv /\ RetryInv /\ [Next]_vars => RetryInv'
  <1> SUFFICES ASSUME TypeInv, RetryInv, [Next]_vars PROVE RetryInv'
    OBVIOUS
  <1> USE DEF TypeInv, TypeOK
  <1> DEFINE Bound == MaxRetries - 1 + Cardinality(Workers)
  <1>1. /\ \A w \in Workers : workerPc[w] = "counting" => saw[w] < MaxRetries
        /\ \A j \in Jobs : retries[j] + Cardinality(Counting(j)) <= Bound
    BY DEF RetryInv
  <1>2. ASSUME UNCHANGED <<retries, saw>>,
               \A w \in Workers : workerPc'[w] = "counting" => workerPc[w] = "counting",
               \A j \in Jobs : Counting(j)' = Counting(j)
        PROVE  RetryInv'
    BY <1>1, <1>2 DEF RetryInv
  <1>3. ASSUME NEW j \in Jobs, Submit(j) \/ CancelRead(j) \/ CancelWrite(j)
        PROVE  RetryInv'
    BY <1>2, <1>3 DEF Submit, CancelRead, CancelWrite, Counting
  <1>4. CASE Poll
    BY <1>2, <1>4 DEF Poll, PollList, PollNext, Counting
  <1>5. ASSUME NEW a \in Agents, DispatchStep(a) PROVE RetryInv'
    BY <1>2, <1>5 DEF DispatchStep, DispatchCheck, DispatchReject, DispatchEnqueue,
                      DispatchMark, Counting
  <1>6. ASSUME NEW w \in Workers, NEW j \in Jobs, Take(w, j) PROVE RetryInv'
    <2>1. \A k \in Jobs : Counting(k)' = Counting(k)
      BY <1>6 DEF Take, Counting
    <2>2. QED
      BY <1>2, <1>6, <2>1 DEF Take
  <1>7. ASSUME NEW w \in Workers, Inspect(w) \/ Lock(w) \/ Execute(w) PROVE RetryInv'
    <2>1. \A k \in Jobs : Counting(k)' = Counting(k)
      BY <1>7 DEF Inspect, Lock, Execute, Proceed, Drop, Counting
    <2>2. QED
      BY <1>2, <1>7, <2>1 DEF Inspect, Lock, Execute, Proceed, Drop
  <1>8. ASSUME NEW w \in Workers, Complete(w) \/ Requeue(w) \/ GiveUp(w)
        PROVE  RetryInv'
    <2>1. \A k \in Jobs : Counting(k)' = Counting(k)
      BY <1>8 DEF Complete, Requeue, GiveUp, Drop, Counting
    <2>2. QED
      BY <1>2, <1>8, <2>1 DEF Complete, Requeue, GiveUp, Drop
  <1>9. ASSUME NEW w \in Workers, CheckRetry(w) PROVE RetryInv'
    <2>1. CASE Proceed(w, "givingUp") /\ UNCHANGED saw
      <3>1. \A k \in Jobs : Counting(k)' = Counting(k)
        BY <1>9, <2>1 DEF CheckRetry, Proceed, Counting
      <3>2. QED
        BY <1>2, <1>9, <2>1, <3>1 DEF CheckRetry, Proceed
    <2>2. CASE /\ retries[work[w]] < MaxRetries
               /\ Proceed(w, "counting")
               /\ saw' = [saw EXCEPT ![w] = retries[work[w]]]
      <3>1. retries' = retries /\ work[w] \in Jobs
        BY <1>9 DEF CheckRetry, AtHand
      <3>2. \A k \in Jobs : k # work[w] => Counting(k)' = Counting(k)
        BY <2>2 DEF Proceed, Counting
      <3>3. ASSUME NEW k \in Jobs PROVE retries'[k] + Cardinality(Counting(k)') <= Bound
        <4>1. CASE k = work[w]
          BY <2>2, <3>1, <4>1, CountingFinite
        <4>2. CASE k # work[w]
          BY <1>1, <3>1, <3>2, <4>2
        <4>3. QED
          BY <4>1, <4>2
      <3>4. \A v \in Workers : workerPc'[v] = "counting" => saw'[v] < MaxRetries
        BY <1>1, <2>2 DEF Proceed
      <3>5. QED
        BY <3>3, <3>4 DEF RetryInv
    <2>3. QED
      BY <1>9, <2>1, <2>2 DEF CheckRetry
  <1>10. ASSUME NEW w \in Workers, CountRetry(w) PROVE RetryInv'
    <2> DEFINE j == work[w]
    <2>1. /\ workerPc[w] = "counting" /\ j \in Jobs /\ saw[w] < MaxRetries
          /\ workerPc' = [workerPc EXCEPT ![w] = "requeueing"] /\ work' = work
          /\ saw' = [saw EXCEPT ![w] = 0]
      BY <1>1, <1>10 DEF CountRetry, Proceed, AtHand
    <2>2. PICK base \in {saw[w], retries[j]} : retries' = [retries EXCEPT ![j] = base + 1]
      BY <1>10 DEF CountRetry
    <2>3. \A k \in Jobs : k # j => Counting(k)' = Counting(k)
      BY <2>1 DEF Counting
    <2>4. Counting(j)' = Counting(j) \ {w} /\ w \in Counting(j)
      BY <2>1 DEF Counting
    <2>5. Cardinality(Counting(j)') = Cardinality(Counting(j)) - 1
      BY <2>4, CountingFinite, FS_RemoveElement
    <2>6. Cardinality(Counting(j)') <= Cardinality(Workers) - 1
      <3>1. Counting(j) \in SUBSET Workers
        BY DEF Counting
      <3>2. Cardinality(Counting(j)) <= Cardinality(Workers)
        BY <3>1, FS_Subset
      <3>3. QED
        BY <2>5, <3>2, CountingFinite
    <2>7. base + 1 + Cardinality(Counting(j)') <= Bound
      <3>1. /\ Cardinality(Counting(j)) \in Nat /\ Cardinality(Counting(j)') \in Nat
            /\ Cardinality(Workers) \in Nat /\ retries[j] \in Nat /\ saw[w] \in Nat
            /\ MaxRetries \in Nat
        BY <2>1, CountingFinite
      <3>2. CASE base = saw[w]
        BY <2>1, <2>6, <3>1, <3>2
      <3>3. CASE base = retries[j]
        <4>1. retries[j] + Cardinality(Counting(j)) <= Bound
          BY <1>1, <2>1
        <4>2. QED
          BY <2>5, <3>1, <3>3, <4>1
      <3>4. QED
        BY <3>2, <3>3
    <2>8. \A k \in Jobs : retries'[k] + Cardinality(Counting(k)') <= Bound
      BY <1>1, <2>1, <2>2, <2>3, <2>7
    <2>9. \A v \in Workers : workerPc'[v] = "counting" => saw'[v] < MaxRetries
      BY <1>1, <2>1
    <2>10. QED
      BY <2>8, <2>9 DEF RetryInv
  <1>11. CASE UNCHANGED vars
    BY <1>2, <1>11 DEF vars, Counting
  <1>12. QED
    BY <1>3, <1>4, <1>5, <1>6, <1>7, <1>8, <1>9, <1>10, <1>11 DEF Next, WorkerStep

\* RetryCount, compared and incremented without a lock, passes MaxRetries by
\* fewer than there are workers (pool.go:311-312).
THEOREM RetriesBounded == Spec => []RetryOvershootBounded
  <1>1. Init => RetryInv
    <2> SUFFICES ASSUME Init PROVE RetryInv
      OBVIOUS
    <2>1. \A j \in Jobs : Counting(j) = {} /\ retries[j] = 0
      BY DEF Init, Counting
    <2>2. Cardinality({}) = 0 /\ Cardinality(Workers) \in Nat
      BY FS_EmptySet, CountingFinite
    <2>3. \A w \in Workers : workerPc[w] # "counting"
      BY DEF Init
    <2>4. QED
      BY <2>1, <2>2, <2>3 DEF RetryInv
  <1>2. TypeInv /\ RetryInv => RetryOvershootBounded
    <2> SUFFICES ASSUME TypeInv, RetryInv, NEW j \in Jobs
                 PROVE  retries[j] <= MaxRetries - 1 + Cardinality(Workers)
      BY DEF RetryOvershootBounded
    <2>1. /\ retries[j] \in Nat /\ Cardinality(Counting(j)) \in Nat
          /\ Cardinality(Workers) \in Nat /\ MaxRetries \in Nat
      BY CountingFinite DEF TypeInv, TypeOK
    <2>2. retries[j] + Cardinality(Counting(j)) <= MaxRetries - 1 + Cardinality(Workers)
      BY DEF RetryInv
    <2>3. QED
      BY <2>1, <2>2
  <1>3. QED
    BY <1>1, <1>2, Typing, RetryNext, PTL DEF Spec

-----------------------------------------------------------------------------
(* Settled jobs                                                            *)

\* A cancelled job that no call in progress can still overwrite stays
\* cancelled, whatever copies of it are left in the queue; a completed or failed
\* one stays so if no copy is left (pool.go:256-263, dispatcher.go:162-173,
\* handlers/job.go:94-96).
THEOREM SettledJobsStay == Spec => SettledStays
  <1> DEFINE Cancelled(j) == status[j] = "cancelled" /\ Undisturbed(j)
             Over(j) == /\ status[j] \in {"completed", "failed"} /\ Undisturbed(j)
                        /\ queue[j] = 0 /\ \A w \in Workers : work[w] # j
             Stays(j) == /\ Cancelled(j) => status'[j] = "cancelled" /\ Undisturbed(j)'
                         /\ Over(j) => status'[j] = status[j]
  <1>1. TypeInv /\ [Next]_vars => \A j \in Jobs : Stays(j)
    <2> SUFFICES ASSUME TypeInv, [Next]_vars, NEW j \in Jobs PROVE Stays(j)
      OBVIOUS
    <2> USE DEF TypeInv, TypeOK, AtHand, Undisturbed
    <2>1. ASSUME NEW k \in Jobs, Submit(k) \/ CancelRead(k) \/ CancelWrite(k)
          PROVE  Stays(j)
      BY <2>1 DEF Submit, CancelRead, CancelWrite, Agents
    <2>2. CASE PollList
      <3>1. status[j] # "pending" => j \notin batch'
        BY <2>2 DEF PollList, Pages, Pending
      <3>2. QED
        BY <2>2, <3>1 DEF PollList
    <2>3. CASE PollNext
      BY <2>3 DEF PollNext, Agents
    <2>4. ASSUME NEW a \in Agents, DispatchStep(a) PROVE Stays(j)
      <3>1. CASE Undisturbed(j)
        <4>1. Target(a) # j
          BY <2>4, <3>1 DEF DispatchStep, DispatchCheck, DispatchReject,
                            DispatchEnqueue, DispatchMark, Target, Agents
        <4>2. dispatch[a] # "idle"
          BY <2>4 DEF DispatchStep, DispatchCheck, DispatchReject,
                      DispatchEnqueue, DispatchMark
        <4>3. a # j
          BY <3>1, <4>2
        <4>4. status'[j] = status[j]
          BY <2>4, <4>1 DEF DispatchStep, DispatchCheck, DispatchReject,
                            DispatchEnqueue, DispatchMark
        <4>5. dispatch'[j] = dispatch[j] /\ (polling' = polling \/ polling' = NoJob)
          BY <2>4, <4>3 DEF DispatchStep, DispatchCheck, DispatchReject,
                            DispatchEnqueue, DispatchMark, Goto, Return, Agents
        <4>6. UNCHANGED <<batch, cancel, work, workerPc>>
          BY <2>4 DEF DispatchStep, DispatchCheck, DispatchReject,
                      DispatchEnqueue, DispatchMark
        <4>7. QED
          BY <3>1, <4>4, <4>5, <4>6
      <3>2. QED
        BY <3>1
    <2>5. ASSUME NEW w \in Workers, WorkerStep(w) PROVE Stays(j)
      <3>1. UNCHANGED <<dispatch, polling, batch, cancel>>
        BY <2>5 DEF WorkerStep, Take, Inspect, Lock, Execute, Complete, CheckRetry,
                    CountRetry, Requeue, GiveUp
      <3>2. ASSUME NEW k \in Jobs, Take(w, k) PROVE Stays(j)
        BY <3>1, <3>2 DEF Take
      <3>3. CASE Inspect(w)
        BY <3>1, <3>3 DEF Inspect, Proceed, Drop
      <3>4. CASE Lock(w) \/ Execute(w) \/ Complete(w) \/ CheckRetry(w)
                 \/ CountRetry(w) \/ Requeue(w) \/ GiveUp(w)
        <4>1. workerPc[w] # "holding" /\ workerPc[w] # "idle" /\ work[w] \in Jobs
          BY <3>4 DEF Lock, Execute, Complete, CheckRetry, CountRetry, Requeue, GiveUp
        <4>2. Undisturbed(j) => work[w] # j
          BY <4>1
        <4>3. work[w] # j => status'[j] = status[j]
          BY <3>4 DEF Lock, Execute, Complete, CheckRetry, CountRetry, Requeue, GiveUp
        <4>4. \A v \in Workers : v # w => workerPc'[v] = workerPc[v] /\ work'[v] = work[v]
          BY <3>4 DEF Lock, Execute, Complete, CheckRetry, CountRetry, Requeue,
                      GiveUp, Proceed, Drop
        <4>5. work'[w] = work[w] \/ work'[w] = NoJob
          BY <3>4 DEF Lock, Execute, Complete, CheckRetry, CountRetry, Requeue,
                      GiveUp, Proceed, Drop
        <4>6. QED
          BY <3>1, <4>2, <4>3, <4>4, <4>5
      <3>5. QED
        BY <2>5, <3>2, <3>3, <3>4 DEF WorkerStep
    <2>6. CASE UNCHANGED vars
      BY <2>6 DEF vars
    <2>7. QED
      BY <2>1, <2>2, <2>3, <2>4, <2>5, <2>6 DEF Next, Poll
  <1>2. TypeInv /\ [Next]_vars =>
          [\A j \in Jobs :
             /\ status[j] = "cancelled" /\ Undisturbed(j) =>
                    status'[j] = "cancelled" /\ Undisturbed(j)'
             /\ /\ status[j] \in {"completed", "failed"} /\ Undisturbed(j)
                /\ queue[j] = 0 /\ \A w \in Workers : work[w] # j
                => status'[j] = status[j]]_vars
    BY <1>1
  <1>3. QED
    BY <1>2, Typing, PTL DEF Spec, SettledStays
=============================================================================
