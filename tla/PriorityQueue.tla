--------------------------- MODULE PriorityQueue ---------------------------
(***************************************************************************)
(* The three-tier job queue, internal/queue/priority_queue.go, as many     *)
(* goroutines use it at once.  Enqueue and Dequeue hold no lock across     *)
(* their steps: the RAM check, the push under the tier's lock, the add to  *)
(* the atomic counter and the send on the notify channel are separate, and *)
(* so are the scans of the three tiers and the subtraction of the size.    *)
(*                                                                         *)
(* A call of Enqueue is one member of Calls and stands for its item too.   *)
(* The priority of a call, its creation time and its estimated size are    *)
(* constants: the queue reads them and never changes them.                 *)
(***************************************************************************)
EXTENDS Integers, FiniteSets, FiniteSetsExt

CONSTANTS
    Calls,       \* the calls of Enqueue
    Workers,     \* the worker goroutines, the only callers of Dequeue
    NoJob,       \* the nil of Go
    NotifyCap,   \* capacity of the notify channel (4096 in the code)
    RamCap,      \* ramCapBytes
    MaxCallers,  \* bound: how many calls of Enqueue run at one time
    Priority,    \* Calls -> 1..10
    CreatedAt,   \* Calls -> time
    Size         \* Calls -> bytes, what estimateJobSize returns

ASSUME CallsAssumption == IsFiniteSet(Calls) /\ Calls # {} /\ NoJob \notin Calls
ASSUME WorkersAssumption == IsFiniteSet(Workers)
ASSUME CapsAssumption ==
    NotifyCap \in Nat \ {0} /\ RamCap \in Nat /\ MaxCallers \in Nat \ {0}
ASSUME ItemsAssumption ==
    /\ Priority \in [Calls -> 1..10]
    /\ CreatedAt \in [Calls -> Nat]
    /\ Size \in [Calls -> Nat]

VARIABLES
    callState,     \* how far each call of Enqueue has come
    heap,          \* the items of each tier
    consumingRAM,  \* the atomic byte counter
    notify,        \* tokens in the notify channel
    workerState,   \* "idle", the tier Dequeue scans next, or "popped"
    hand,          \* the item a Dequeue popped, until it returns
    seen,          \* history: the items queued when the worker woke up
    dropped        \* history: tokens dropped because the channel was full

vars == <<callState, heap, consumingRAM, notify, workerState, hand, seen, dropped>>

Tiers == {"high", "medium", "low"}

Tier(p) == CASE p <= 3 -> "high"
             [] p > 3 /\ p <= 7 -> "medium"
             [] OTHER -> "low"

\* The order of a tier's heap: priority first, then first come first served.
Less(a, b) ==
    \/ Priority[a] < Priority[b]
    \/ Priority[a] = Priority[b] /\ CreatedAt[a] < CreatedAt[b]

\* Faulty: the heap is not kept in order.
Popped_Unordered(items) == IF items = {} THEN {NoJob} ELSE items

\* What pop may return: an item no other item of the heap precedes, or nil.
Popped(items) ==
    IF items = {} THEN {NoJob}
    ELSE {i \in items : \A k \in items : ~Less(k, i)}

\* Faulty: Dequeue forgets the LOW tier.
AfterTier_NoLow == [high |-> "medium", medium |-> "idle", low |-> "idle"]

\* Where Dequeue goes when the tier it scanned was empty; after LOW it
\* returns nil and the worker waits for the next token.
AfterTier == [high |-> "medium", medium |-> "low", low |-> "idle"]

Queued == UNION {heap[t] : t \in Tiers}
InEnqueue == {c \in Calls : callState[c] \in {"checked", "pushed", "counted"}}
Unannounced == {c \in Calls : callState[c] \in {"pushed", "counted"}}
Scanning(tiers) == {w \in Workers : workerState[w] \in tiers}

TypeOK ==
    /\ callState \in [Calls -> {"new", "checked", "pushed", "counted",
                                "enqueued", "rejected"}]
    /\ heap \in [Tiers -> SUBSET Calls]
    /\ consumingRAM \in Int
    /\ notify \in 0..NotifyCap
    /\ workerState \in [Workers -> Tiers \cup {"idle", "popped"}]
    /\ hand \in [Workers -> Calls \cup {NoJob}]
    /\ seen \in [Workers -> SUBSET Calls]
    /\ dropped \in Nat

Init ==
    /\ callState = [c \in Calls |-> "new"]
    /\ heap = [t \in Tiers |-> {}]
    /\ consumingRAM = 0
    /\ notify = 0
    /\ workerState = [w \in Workers |-> "idle"]
    /\ hand = [w \in Workers |-> NoJob]
    /\ seen = [w \in Workers |-> {}]
    /\ dropped = 0

-----------------------------------------------------------------------------
(* Enqueue                                                                 *)

\* Faulty: the cap is not checked.
EnqueueCheck_NoCap(c) ==
    /\ callState[c] = "new"
    /\ Cardinality(InEnqueue) < MaxCallers
    /\ callState' = [callState EXCEPT ![c] = "checked"]
    /\ UNCHANGED <<heap, consumingRAM, notify, workerState, hand, seen, dropped>>

\* Faulty: the workers are notified before the item is pushed.
EnqueueCheck_EarlyNotify(c) ==
    /\ callState[c] = "new"
    /\ Cardinality(InEnqueue) < MaxCallers
    /\ callState' = [callState EXCEPT ![c] = "checked"]
    /\ notify' = IF notify < NotifyCap THEN notify + 1 ELSE notify
    /\ UNCHANGED <<heap, consumingRAM, workerState, hand, seen, dropped>>

EnqueueCheck(c) ==
    /\ callState[c] = "new"
    /\ Cardinality(InEnqueue) < MaxCallers
    /\ callState' = [callState EXCEPT ![c] =
                        IF consumingRAM + Size[c] > RamCap THEN "rejected"
                        ELSE "checked"]
    /\ UNCHANGED <<heap, consumingRAM, notify, workerState, hand, seen, dropped>>

EnqueuePush(c) ==
    /\ callState[c] = "checked"
    /\ callState' = [callState EXCEPT ![c] = "pushed"]
    /\ heap' = [heap EXCEPT ![Tier(Priority[c])] = @ \cup {c}]
    /\ UNCHANGED <<consumingRAM, notify, workerState, hand, seen, dropped>>

EnqueueCount(c) ==
    /\ callState[c] = "pushed"
    /\ callState' = [callState EXCEPT ![c] = "counted"]
    /\ consumingRAM' = consumingRAM + Size[c]
    /\ UNCHANGED <<heap, notify, workerState, hand, seen, dropped>>

\* The send never blocks: with a full channel the token is dropped.
EnqueueNotify(c) ==
    /\ callState[c] = "counted"
    /\ callState' = [callState EXCEPT ![c] = "enqueued"]
    /\ notify' = IF notify < NotifyCap THEN notify + 1 ELSE notify
    /\ dropped' = IF notify < NotifyCap THEN dropped ELSE dropped + 1
    /\ UNCHANGED <<heap, consumingRAM, workerState, hand, seen>>

-----------------------------------------------------------------------------
(* The worker: receive a token, then Dequeue                               *)

Receive(w) ==
    /\ workerState[w] = "idle"
    /\ notify > 0
    /\ notify' = notify - 1
    /\ workerState' = [workerState EXCEPT ![w] = "high"]
    /\ seen' = [seen EXCEPT ![w] = Queued]
    /\ UNCHANGED <<callState, heap, consumingRAM, hand, dropped>>

\* Faulty: the item is read and stays in the heap.
DequeuePop_Peek(w) ==
    LET tier == workerState[w] IN
    /\ tier \in Tiers
    /\ \E i \in Popped(heap[tier]) :
        /\ hand' = [hand EXCEPT ![w] = i]
        /\ workerState' = [workerState EXCEPT ![w] =
                              IF i = NoJob THEN AfterTier[tier] ELSE "popped"]
    /\ UNCHANGED <<callState, heap, consumingRAM, notify, seen, dropped>>

DequeuePop(w) ==
    LET tier == workerState[w] IN
    /\ tier \in Tiers
    /\ \E i \in Popped(heap[tier]) :
        /\ heap' = [heap EXCEPT ![tier] = @ \ {i}]
        /\ hand' = [hand EXCEPT ![w] = i]
        /\ workerState' = [workerState EXCEPT ![w] =
                              IF i = NoJob THEN AfterTier[tier] ELSE "popped"]
    /\ UNCHANGED <<callState, consumingRAM, notify, seen, dropped>>

\* The size is subtracted and the job returned to the worker.
DequeueReturn(w) ==
    /\ workerState[w] = "popped"
    /\ consumingRAM' = consumingRAM - Size[hand[w]]
    /\ hand' = [hand EXCEPT ![w] = NoJob]
    /\ workerState' = [workerState EXCEPT ![w] = "idle"]
    /\ seen' = [seen EXCEPT ![w] = {}]
    /\ UNCHANGED <<callState, heap, notify, dropped>>

EnqueueStep(c) ==
    EnqueueCheck(c) \/ EnqueuePush(c) \/ EnqueueCount(c) \/ EnqueueNotify(c)

WorkerStep(w) == Receive(w) \/ DequeuePop(w) \/ DequeueReturn(w)

Next == (\E c \in Calls : EnqueueStep(c)) \/ (\E w \in Workers : WorkerStep(w))

Spec == Init /\ [][Next]_vars

\* A goroutine inside Enqueue or Dequeue runs on, and a worker that waits on
\* the channel receives a token if there is one.  Nobody has to call Enqueue.
Fairness ==
    /\ \A c \in Calls : WF_vars(callState[c] # "new" /\ EnqueueStep(c))
    /\ \A w \in Workers : WF_vars(WorkerStep(w))

FairSpec == Spec /\ Fairness

-----------------------------------------------------------------------------
(* Properties                                                              *)

\* Where the tokens are: an item in a heap is matched by a token in the
\* channel, by a worker that spent one and still scans, by a call of Enqueue
\* that has yet to send its own, or by a send that found the channel full
\* (priority_queue.go:231-234).  Nothing but a full channel strands an item.
TokenLedger ==
    Cardinality(Queued) =
        notify + Cardinality(Scanning(Tiers)) + Cardinality(Unannounced) + dropped

\* The same, tier by tier, for the workers that have passed a tier: those that
\* still scan below HIGH are no more than the items below HIGH, and those that
\* scan LOW no more than the items in LOW, whoever pushes or pops meanwhile.
ScanLedger ==
    /\ Cardinality(Scanning({"medium", "low"})) <=
           Cardinality(heap["medium"] \cup heap["low"])
    /\ Cardinality(Scanning({"low"})) <= Cardinality(heap["low"])

\* A worker that received a token finds a job: when its scan reaches LOW,
\* LOW is not empty, so Dequeue never returns nil to it (pool.go:241-244)
\* although other workers empty the tiers while it scans.
NeverEmptyHanded ==
    \A w \in Workers : workerState[w] = "low" => heap["low"] # {}

\* An item is in the heap of its own tier and of no other, and only after its
\* call has pushed it; a worker holds an item from its pop to its return.
Placement ==
    /\ \A t \in Tiers : \A c \in heap[t] :
           t = Tier(Priority[c]) /\ callState[c] \in {"pushed", "counted", "enqueued"}
    /\ \A w \in Workers : workerState[w] = "popped" <=> hand[w] # NoJob

\* The invariant the proofs carry from step to step.
IndInv == TypeOK /\ Placement /\ TokenLedger /\ ScanLedger

\* The check and the add are apart (priority_queue.go:194-220), so calls that
\* run at the same time may pass the check together.  The cap is exceeded by
\* at most what the other callers then add.
LargestSize == Max({Size[c] : c \in Calls})
RamOvershootBounded ==
    consumingRAM <= RamCap + (MaxCallers - 1) * LargestSize

\* What remains of "the next highest-priority job" under concurrency: no item
\* that was queued when the worker woke up, and is still queued, goes before
\* the one Dequeue took (priority_queue.go:239-259).
NoOvertakingSinceWakeup ==
    \A w \in Workers : workerState[w] = "popped" =>
        \A i \in seen[w] \cap Queued : ~Less(i, hand[w])

\* Every job in the queue is taken by a worker in the end, LOW ones too, unless
\* the channel was full once and dropped a token (priority_queue.go:230-234).
TakenUnlessDropped ==
    \A c \in Calls : (c \in Queued) ~> (c \notin Queued \/ dropped > 0)

\* The queue is the abstract work queue.
Phase(c) == CASE callState[c] \in {"new", "checked"} -> "new"
              [] callState[c] = "rejected" -> "rejected"
              [] c \in Queued -> "waiting"
              [] OTHER -> "taken"

Abstract == INSTANCE WorkQueue WITH
    Jobs <- Calls,
    WakeCap <- NotifyCap,
    phase <- [c \in Calls |-> Phase(c)],
    announced <- {c \in Calls : callState[c] = "enqueued"},
    wakeups <- notify,
    claims <- Scanning(Tiers)

\* Every step of the queue is a step of the abstract work queue or none: each
\* job is handed out once, to one worker, and every wake-up ends with a job.
ImplementsWorkQueue == Abstract!Spec
=============================================================================
