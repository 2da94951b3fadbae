------------------------ MODULE PriorityQueueProofs ------------------------
(***************************************************************************)
(* The token accounting of PriorityQueue holds for any number of calls and *)
(* workers and any capacity of the channel; a woken worker always finds a  *)
(* job; and every step of the queue is one of the abstract work queue.     *)
(***************************************************************************)
EXTENDS PriorityQueue, FiniteSetTheorems, WellFoundedInduction, TLAPS

USE CallsAssumption, WorkersAssumption, CapsAssumption, ItemsAssumption

-----------------------------------------------------------------------------
(* Facts about the definitions                                             *)

LEMMA TierType == \A c \in Calls : Tier(Priority[c]) \in Tiers
  BY DEF Tier, Tiers

LEMMA AfterTierType ==
  /\ AfterTier["high"] = "medium"
  /\ AfterTier["medium"] = "low"
  /\ AfterTier["low"] = "idle"
  /\ \A t \in Tiers : AfterTier[t] \in Tiers \cup {"idle"}
  BY DEF AfterTier, Tiers

\* What pop returns is an item of the heap, or nil from an empty one.
LEMMA PoppedItem ==
  ASSUME NEW items \in SUBSET Calls, NEW i \in Popped(items)
  PROVE  /\ i \in items \/ (items = {} /\ i = NoJob)
         /\ i = NoJob <=> i \notin items
         /\ i = NoJob <=> i \notin Calls
         /\ i \in items => \A k \in items : ~Less(k, i)
  BY DEF Popped

\* The set of workers in some states gains or loses one worker when that
\* worker changes its state.
LEMMA ScanningFinite ==
  ASSUME NEW S
  PROVE  /\ IsFiniteSet(Scanning(S))
         /\ Cardinality(Scanning(S)) \in Nat
  BY FS_Subset, FS_CardinalityType DEF Scanning

LEMMA ScanningFinitePrime ==
  ASSUME NEW S
  PROVE  /\ IsFiniteSet(Scanning(S)')
         /\ Cardinality(Scanning(S)') \in Nat
  BY FS_Subset, FS_CardinalityType DEF Scanning

LEMMA ScanningMoves ==
  ASSUME NEW S, NEW w \in Workers, NEW t,
         workerState \in [Workers -> Tiers \cup {"idle", "popped"}],
         workerState' = [workerState EXCEPT ![w] = t]
  PROVE  /\ t \in S /\ workerState[w] \notin S =>
                Cardinality(Scanning(S)') = Cardinality(Scanning(S)) + 1
         /\ t \notin S /\ workerState[w] \in S =>
                Cardinality(Scanning(S)') = Cardinality(Scanning(S)) - 1
         /\ (t \in S <=> workerState[w] \in S) => Scanning(S)' = Scanning(S)
  <1> DEFINE A == Scanning(S)
             B == Scanning(S)'
  <1>1. B = IF t \in S THEN A \cup {w} ELSE A \ {w}
    BY DEF Scanning
  <1>2. w \in A <=> workerState[w] \in S
    BY DEF Scanning
  <1>3. IsFiniteSet(A) /\ Cardinality(A) \in Nat
    BY ScanningFinite
  <1>4. /\ Cardinality(A \cup {w}) = IF w \in A THEN Cardinality(A) ELSE Cardinality(A) + 1
        /\ Cardinality(A \ {w}) = IF w \in A THEN Cardinality(A) - 1 ELSE Cardinality(A)
    BY <1>3, FS_AddElement, FS_RemoveElement
  <1>5. /\ w \in A => A \cup {w} = A
        /\ w \notin A => A \ {w} = A
    OBVIOUS
  <1> HIDE DEF A, B
  <1>6. /\ t \in S /\ workerState[w] \notin S => Cardinality(B) = Cardinality(A) + 1
        /\ t \notin S /\ workerState[w] \in S => Cardinality(B) = Cardinality(A) - 1
        /\ (t \in S <=> workerState[w] \in S) => B = A
    BY <1>1, <1>2, <1>4, <1>5
  <1>7. QED
    BY <1>6 DEF A, B

\* The items in the heaps, and those below HIGH, are finite sets.
LEMMA QueuedFinite ==
  ASSUME heap \in [Tiers -> SUBSET Calls]
  PROVE  /\ Queued \subseteq Calls
         /\ IsFiniteSet(Queued)
         /\ Cardinality(Queued) \in Nat
         /\ \A t \in Tiers : IsFiniteSet(heap[t]) /\ Cardinality(heap[t]) \in Nat
         /\ IsFiniteSet(heap["medium"] \cup heap["low"])
         /\ Cardinality(heap["medium"] \cup heap["low"]) \in Nat
         /\ Queued = heap["high"] \cup heap["medium"] \cup heap["low"]
  <1>1. Queued = heap["high"] \cup heap["medium"] \cup heap["low"]
    BY DEF Queued, Tiers
  <1>2. /\ Queued \in SUBSET Calls
        /\ \A t \in Tiers : heap[t] \in SUBSET Calls
        /\ heap["medium"] \cup heap["low"] \in SUBSET Calls
    BY <1>1 DEF Tiers
  <1>3. \A T \in SUBSET Calls : IsFiniteSet(T) /\ Cardinality(T) \in Nat
    BY FS_Subset, FS_CardinalityType
  <1>4. QED
    BY <1>1, <1>2, <1>3

LEMMA UnannouncedFinite ==
  IsFiniteSet(Unannounced) /\ Cardinality(Unannounced) \in Nat
  BY FS_Subset, FS_CardinalityType DEF Unannounced

-----------------------------------------------------------------------------
(* Type correctness                                                        *)

HandOK == \A w \in Workers : workerState[w] = "popped" <=> hand[w] # NoJob

TypeInv == TypeOK /\ HandOK

LEMMA TypeInvInit == Init => TypeInv
  BY DEF Init, TypeInv, TypeOK, HandOK, Tiers

LEMMA TypeInvNext == TypeInv /\ [Next]_vars => TypeInv'
  <1> SUFFICES ASSUME TypeInv, [Next]_vars PROVE TypeInv'
    OBVIOUS
  <1> USE DEF TypeInv, TypeOK, HandOK
  <1>1. ASSUME NEW c \in Calls, EnqueueCheck(c) PROVE TypeInv'
    BY <1>1 DEF EnqueueCheck
  <1>2. ASSUME NEW c \in Calls, EnqueuePush(c) PROVE TypeInv'
    BY <1>2, TierType DEF EnqueuePush
  <1>3. ASSUME NEW c \in Calls, EnqueueCount(c) PROVE TypeInv'
    BY <1>3 DEF EnqueueCount
  <1>4. ASSUME NEW c \in Calls, EnqueueNotify(c) PROVE TypeInv'
    BY <1>4 DEF EnqueueNotify
  <1>5. ASSUME NEW w \in Workers, Receive(w) PROVE TypeInv'
    BY <1>5 DEF Receive, Queued, Tiers
  <1>6. ASSUME NEW w \in Workers, DequeuePop(w) PROVE TypeInv'
    <2> DEFINE tier == workerState[w]
    <2>1. tier \in Tiers /\ tier # "popped"
      BY <1>6 DEF DequeuePop, Tiers
    <2>2. PICK i \in Popped(heap[tier]) :
            /\ heap' = [heap EXCEPT ![tier] = @ \ {i}]
            /\ hand' = [hand EXCEPT ![w] = i]
            /\ workerState' = [workerState EXCEPT ![w] =
                                  IF i = NoJob THEN AfterTier[tier] ELSE "popped"]
      BY <1>6 DEF DequeuePop
    <2>3. i \in Calls \cup {NoJob}
      BY <2>1, <2>2, PoppedItem
    <2>4. AfterTier[tier] \in (Tiers \cup {"idle"}) /\ AfterTier[tier] # "popped"
      BY <2>1, AfterTierType DEF Tiers
    <2>5. UNCHANGED <<callState, consumingRAM, notify, seen, dropped>>
      BY <1>6 DEF DequeuePop
    <2>6. QED
      BY <2>1, <2>2, <2>3, <2>4, <2>5
  <1>7. ASSUME NEW w \in Workers, DequeueReturn(w) PROVE TypeInv'
    BY <1>7 DEF DequeueReturn
  <1>8. CASE UNCHANGED vars
    BY <1>8 DEF vars
  <1>9. QED
    BY <1>1, <1>2, <1>3, <1>4, <1>5, <1>6, <1>7, <1>8
       DEF Next, EnqueueStep, WorkerStep

\* The variables keep their types: the channel never holds more than its
\* capacity, and a worker holds an item exactly from its pop to its return
\* (priority_queue.go:190-259).
THEOREM TypeCorrect == Spec => []TypeOK
  <1>1. Spec => []TypeInv
    BY TypeInvInit, TypeInvNext, PTL DEF Spec
  <1>2. TypeInv => TypeOK
    BY DEF TypeInv
  <1>3. QED
    BY <1>1, <1>2, PTL

-----------------------------------------------------------------------------
(* Where the tokens are                                                    *)

LEMMA IndInvType == IndInv => TypeInv
  BY DEF IndInv, TypeInv, HandOK, Placement

LEMMA IndInvInit == Init => IndInv
  <1> SUFFICES ASSUME Init PROVE IndInv
    OBVIOUS
  <1>1. TypeOK /\ Placement
    BY TypeInvInit DEF TypeInv, HandOK, Placement, Init, Tiers
  <1>2. /\ Queued = {} /\ Unannounced = {}
        /\ Scanning(Tiers) = {} /\ Scanning({"medium", "low"}) = {}
        /\ Scanning({"low"}) = {} /\ heap["medium"] \cup heap["low"] = {}
        /\ heap["low"] = {} /\ notify = 0 /\ dropped = 0
    BY DEF Init, Queued, Unannounced, Scanning, Tiers
  <1>3. TokenLedger /\ ScanLedger
    <2>1. Cardinality({}) = 0
      BY FS_EmptySet
    <2>2. TokenLedger
      BY <1>2, <2>1 DEF TokenLedger
    <2>3. ScanLedger
      BY <1>2, <2>1 DEF ScanLedger
    <2>4. QED
      BY <2>2, <2>3
  <1>4. QED
    BY <1>1, <1>3 DEF IndInv

\* Few workers scan LOW, so one of them finds an item there.
LEMMA NeverEmpty == IndInv => NeverEmptyHanded
  <1> SUFFICES ASSUME IndInv, NEW w \in Workers, workerState[w] = "low",
                      heap["low"] = {}
               PROVE FALSE
    BY DEF NeverEmptyHanded
  <1>1. w \in Scanning({"low"})
    BY DEF Scanning
  <1>2. Cardinality(Scanning({"low"})) # 0
    BY <1>1, ScanningFinite, FS_EmptySet
  <1>3. Cardinality(heap["low"]) = 0
    BY FS_EmptySet
  <1>4. Cardinality(Scanning({"low"})) <= Cardinality(heap["low"])
    BY DEF IndInv, ScanLedger
  <1>5. QED
    BY <1>2, <1>3, <1>4, ScanningFinite

\* A step that leaves the heaps, the channel and the workers' positions alone,
\* and the set of calls that owe a token, leaves the ledgers alone.
LEMMA LedgersUnchanged ==
  ASSUME IndInv, UNCHANGED <<heap, notify, workerState, dropped>>,
         Unannounced' = Unannounced
  PROVE  TokenLedger' /\ ScanLedger'
  <1>1. /\ Queued' = Queued
        /\ Scanning(Tiers)' = Scanning(Tiers)
        /\ Scanning({"medium", "low"})' = Scanning({"medium", "low"})
        /\ Scanning({"low"})' = Scanning({"low"})
    BY DEF Queued, Scanning
  <1>2. QED
    BY <1>1 DEF IndInv, TokenLedger, ScanLedger

LEMMA PlacementNext == IndInv /\ [Next]_vars => Placement'
  <1> SUFFICES ASSUME IndInv, [Next]_vars PROVE Placement'
    OBVIOUS
  <1>1. TypeInv /\ TypeInv' /\ HandOK' /\ Placement
    BY IndInvType, TypeInvNext DEF IndInv, TypeInv
  <1> DEFINE Placed == \A t \in Tiers : \A c \in heap[t] :
               t = Tier(Priority[c])
               /\ callState[c] \in {"pushed", "counted", "enqueued"}
  <1>2. Placed
    BY <1>1 DEF Placement
  <1>3. ASSUME NEW c \in Calls, EnqueueStep(c) PROVE Placed'
    <2>1. CASE EnqueuePush(c)
      BY <1>1, <1>2, <2>1 DEF EnqueuePush, TypeInv, TypeOK
    <2>2. CASE EnqueueCheck(c) \/ EnqueueCount(c) \/ EnqueueNotify(c)
      BY <1>1, <1>2, <2>2
         DEF EnqueueCheck, EnqueueCount, EnqueueNotify, TypeInv, TypeOK
    <2>3. QED
      BY <1>3, <2>1, <2>2 DEF EnqueueStep
  <1>4. ASSUME NEW w \in Workers, WorkerStep(w) PROVE Placed'
    <2>1. callState' = callState /\ \A t \in Tiers : heap'[t] \subseteq heap[t]
      BY <1>1, <1>4
         DEF WorkerStep, Receive, DequeuePop, DequeueReturn, TypeInv, TypeOK
    <2>2. QED
      BY <1>2, <2>1
  <1>5. ASSUME UNCHANGED vars PROVE Placed'
    BY <1>2, <1>5 DEF vars
  <1>6. Placed'
    BY <1>3, <1>4, <1>5 DEF Next
  <1>7. QED
    BY <1>1, <1>6 DEF Placement, HandOK

LEMMA LedgerPush ==
  ASSUME IndInv, NEW c \in Calls, EnqueuePush(c), TypeOK'
  PROVE  TokenLedger' /\ ScanLedger'
  <1>1. heap \in [Tiers -> SUBSET Calls] /\ heap' \in [Tiers -> SUBSET Calls]
    BY DEF IndInv, TypeOK
  <1> DEFINE H == Tier(Priority[c])
             Low == heap["medium"] \cup heap["low"]
  <1>2. H \in Tiers
    BY TierType
  <1>3. Queued' = Queued \cup {c} /\ c \notin Queued
    <2>1. c \notin Queued
      BY DEF EnqueuePush, IndInv, Placement, Queued
    <2>2. \A t \in Tiers : heap'[t] = IF t = H THEN heap[t] \cup {c} ELSE heap[t]
      BY <1>1, <1>2 DEF EnqueuePush
    <2>3. /\ Queued = heap["high"] \cup heap["medium"] \cup heap["low"]
          /\ Queued' = heap'["high"] \cup heap'["medium"] \cup heap'["low"]
      BY DEF Queued, Tiers
    <2>4. QED
      BY <1>2, <2>1, <2>2, <2>3 DEF Tiers
  <1>4. Unannounced' = Unannounced \cup {c} /\ c \notin Unannounced
    BY DEF EnqueuePush, Unannounced, IndInv, TypeOK
  <1>5. /\ Scanning(Tiers)' = Scanning(Tiers)
        /\ Scanning({"medium", "low"})' = Scanning({"medium", "low"})
        /\ Scanning({"low"})' = Scanning({"low"})
        /\ notify' = notify /\ dropped' = dropped
    BY DEF EnqueuePush, Scanning
  <1>6. /\ Cardinality(Queued \cup {c}) = Cardinality(Queued) + 1
        /\ Cardinality(Unannounced \cup {c}) = Cardinality(Unannounced) + 1
    BY <1>1, <1>3, <1>4, QueuedFinite, UnannouncedFinite, FS_AddElement
  <1>7. TokenLedger'
    <2>1. /\ Cardinality(Queued) \in Nat /\ Cardinality(Unannounced) \in Nat
          /\ Cardinality(Scanning(Tiers)) \in Nat /\ notify \in Nat /\ dropped \in Nat
      BY <1>1, QueuedFinite, UnannouncedFinite, ScanningFinite DEF IndInv, TypeOK
    <2>2. QED
      BY <1>3, <1>4, <1>5, <1>6, <2>1 DEF IndInv, TokenLedger
  <1>8. ScanLedger'
    <2>1. Low \subseteq Low' /\ heap["low"] \subseteq heap'["low"]
      BY <1>1, <1>2 DEF EnqueuePush, Tiers
    <2>2. /\ IsFiniteSet(Low') /\ IsFiniteSet(heap'["low"])
          /\ Cardinality(Low') \in Nat /\ Cardinality(heap'["low"]) \in Nat
      <3>1. Low' \in SUBSET Calls /\ heap'["low"] \in SUBSET Calls
        BY <1>1 DEF Tiers
      <3>2. QED
        BY <3>1, FS_Subset, FS_CardinalityType
    <2>3. /\ Cardinality(Low) <= Cardinality(Low')
          /\ Cardinality(heap["low"]) <= Cardinality(heap'["low"])
      BY <2>1, <2>2, FS_Subset
    <2>4. /\ Cardinality(Low) \in Nat /\ Cardinality(heap["low"]) \in Nat
          /\ Cardinality(Scanning({"medium", "low"})) \in Nat
          /\ Cardinality(Scanning({"low"})) \in Nat
      BY <1>1, QueuedFinite, ScanningFinite DEF Tiers
    <2>5. /\ Cardinality(Scanning({"medium", "low"})) <= Cardinality(Low)
          /\ Cardinality(Scanning({"low"})) <= Cardinality(heap["low"])
      BY DEF IndInv, ScanLedger
    <2> HIDE DEF Low
    <2>6. /\ Cardinality(Scanning({"medium", "low"})) <= Cardinality(Low')
          /\ Cardinality(Scanning({"low"})) <= Cardinality(heap'["low"])
      BY <2>2, <2>3, <2>4, <2>5
    <2>7. QED
      BY <1>5, <2>6 DEF ScanLedger, Low
  <1>9. QED
    BY <1>7, <1>8

LEMMA LedgerNotify ==
  ASSUME IndInv, NEW c \in Calls, EnqueueNotify(c)
  PROVE  TokenLedger' /\ ScanLedger'
  <1>1. /\ Queued' = Queued
        /\ Scanning(Tiers)' = Scanning(Tiers)
        /\ Scanning({"medium", "low"})' = Scanning({"medium", "low"})
        /\ Scanning({"low"})' = Scanning({"low"})
    BY DEF EnqueueNotify, Queued, Scanning
  <1>2. Unannounced' = Unannounced \ {c} /\ c \in Unannounced
    BY DEF EnqueueNotify, Unannounced, IndInv, TypeOK
  <1>3. Cardinality(Unannounced') = Cardinality(Unannounced) - 1
    BY <1>2, UnannouncedFinite, FS_RemoveElement
  <1>4. \/ notify' = notify + 1 /\ dropped' = dropped
        \/ notify' = notify /\ dropped' = dropped + 1
    BY DEF EnqueueNotify
  <1>5. /\ Cardinality(Queued) \in Nat /\ Cardinality(Unannounced) \in Nat
        /\ Cardinality(Scanning(Tiers)) \in Nat /\ notify \in Nat /\ dropped \in Nat
        /\ notify' \in Nat /\ dropped' \in Nat
    BY QueuedFinite, UnannouncedFinite, ScanningFinite
       DEF IndInv, TypeOK, EnqueueNotify
  <1>6. TokenLedger'
    <2>1. Cardinality(Queued) = notify + Cardinality(Scanning(Tiers))
                                  + Cardinality(Unannounced) + dropped
      BY DEF IndInv, TokenLedger
    <2>2. Cardinality(Queued) = notify' + Cardinality(Scanning(Tiers))
                                  + Cardinality(Unannounced') + dropped'
      BY <1>3, <1>4, <1>5, <2>1
    <2>3. QED
      BY <1>1, <2>2 DEF TokenLedger
  <1>7. ScanLedger'
    BY <1>1 DEF EnqueueNotify, IndInv, ScanLedger
  <1>8. QED
    BY <1>6, <1>7

LEMMA LedgerReceive ==
  ASSUME IndInv, NEW w \in Workers, Receive(w)
  PROVE  TokenLedger' /\ ScanLedger'
  <1>1. Queued' = Queued /\ Unannounced' = Unannounced
    BY DEF Receive, Queued, Unannounced
  <1>2. workerState \in [Workers -> Tiers \cup {"idle", "popped"}]
    BY DEF IndInv, TypeOK
  <1>3. /\ Cardinality(Scanning(Tiers)') = Cardinality(Scanning(Tiers)) + 1
        /\ Scanning({"medium", "low"})' = Scanning({"medium", "low"})
        /\ Scanning({"low"})' = Scanning({"low"})
    <2>1. workerState' = [workerState EXCEPT ![w] = "high"]
      BY DEF Receive
    <2>2. /\ workerState[w] \notin Tiers /\ "high" \in Tiers
          /\ workerState[w] \notin {"medium", "low"} /\ "high" \notin {"medium", "low"}
          /\ workerState[w] \notin {"low"} /\ "high" \notin {"low"}
      BY DEF Receive, Tiers
    <2>3. QED
      BY <1>2, <2>1, <2>2, ScanningMoves
  <1>4. /\ Cardinality(Queued) \in Nat /\ Cardinality(Unannounced) \in Nat
        /\ Cardinality(Scanning(Tiers)) \in Nat /\ notify \in Nat /\ dropped \in Nat
    BY QueuedFinite, UnannouncedFinite, ScanningFinite DEF IndInv, TypeOK
  <1>5. TokenLedger'
    BY <1>1, <1>3, <1>4 DEF Receive, IndInv, TokenLedger
  <1>6. ScanLedger'
    BY <1>3 DEF Receive, IndInv, ScanLedger
  <1>7. QED
    BY <1>5, <1>6

\* A worker pops an item.
LEMMA LedgerPopItem ==
  ASSUME IndInv, NEW w \in Workers, NEW t \in Tiers, workerState[w] = t,
         NEW i \in heap[t],
         heap' = [heap EXCEPT ![t] = @ \ {i}],
         workerState' = [workerState EXCEPT ![w] = "popped"],
         UNCHANGED <<callState, notify, dropped>>
  PROVE  TokenLedger' /\ ScanLedger'
  <1> DEFINE Low == heap["medium"] \cup heap["low"]
  <1>1. /\ heap \in [Tiers -> SUBSET Calls]
        /\ workerState \in [Workers -> Tiers \cup {"idle", "popped"}]
        /\ notify \in Nat /\ dropped \in Nat
    BY DEF IndInv, TypeOK
  <1>2. \A u \in Tiers : i \in heap[u] => u = t
    BY DEF IndInv, Placement
  <1>3. \A u \in Tiers : heap'[u] = heap[u] \ {i}
    BY <1>1, <1>2
  <1>4. Queued' = Queued \ {i} /\ i \in Queued
    BY <1>3 DEF Queued
  <1>5. Unannounced' = Unannounced
    BY DEF Unannounced
  <1>6. /\ Cardinality(Scanning(Tiers)') = Cardinality(Scanning(Tiers)) - 1
        /\ Scanning({"medium", "low"})' = Scanning({"medium", "low"})
           \/ /\ t \in {"medium", "low"}
              /\ Cardinality(Scanning({"medium", "low"})') =
                     Cardinality(Scanning({"medium", "low"})) - 1
        /\ Scanning({"low"})' = Scanning({"low"})
           \/ /\ t = "low"
              /\ Cardinality(Scanning({"low"})') = Cardinality(Scanning({"low"})) - 1
    <2>1. "popped" \notin Tiers /\ "popped" \notin {"medium", "low"}
          /\ "popped" \notin {"low"}
      BY DEF Tiers
    <2>2. QED
      BY <1>1, <2>1, ScanningMoves
  <1>7. TokenLedger'
    <2>1. Cardinality(Queued') = Cardinality(Queued) - 1
      BY <1>1, <1>4, QueuedFinite, FS_RemoveElement
    <2>2. /\ Cardinality(Queued) \in Nat /\ Cardinality(Unannounced) \in Nat
          /\ Cardinality(Scanning(Tiers)) \in Nat
      BY <1>1, QueuedFinite, UnannouncedFinite, ScanningFinite
    <2>3. QED
      BY <1>1, <1>5, <1>6, <2>1, <2>2 DEF IndInv, TokenLedger
  <1>8. /\ Cardinality(Scanning({"medium", "low"})') <= Cardinality(Low')
        /\ Cardinality(Scanning({"low"})') <= Cardinality(heap'["low"])
    <2>1. /\ IsFiniteSet(Low) /\ IsFiniteSet(heap["low"])
          /\ Cardinality(Low) \in Nat /\ Cardinality(heap["low"]) \in Nat
          /\ Cardinality(Scanning({"medium", "low"})) \in Nat
          /\ Cardinality(Scanning({"low"})) \in Nat
      BY <1>1, QueuedFinite, ScanningFinite DEF Tiers
    <2>2. Low' = Low \ {i} /\ heap'["low"] = heap["low"] \ {i}
      BY <1>3 DEF Tiers
    <2>3. /\ Cardinality(Low') = IF i \in Low THEN Cardinality(Low) - 1 ELSE Cardinality(Low)
          /\ Cardinality(heap'["low"]) = IF i \in heap["low"] THEN Cardinality(heap["low"]) - 1
                                         ELSE Cardinality(heap["low"])
      <3> HIDE DEF Low
      <3>1. QED
        BY <2>1, <2>2, FS_RemoveElement
    <2>4. i \in Low => t \in {"medium", "low"}
      BY <1>2 DEF Tiers
    <2>5. i \in heap["low"] => t = "low"
      BY <1>2 DEF Tiers
    <2>6. /\ Cardinality(Scanning({"medium", "low"})) <= Cardinality(Low)
          /\ Cardinality(Scanning({"low"})) <= Cardinality(heap["low"])
      BY DEF IndInv, ScanLedger
    <2>7. t \in {"medium", "low"} =>
             Cardinality(Scanning({"medium", "low"})') =
                 Cardinality(Scanning({"medium", "low"})) - 1
      <3>1. "popped" \notin {"medium", "low"}
        OBVIOUS
      <3>2. QED
        BY <1>1, <3>1, ScanningMoves
    <2>8. t = "low" =>
             Cardinality(Scanning({"low"})') = Cardinality(Scanning({"low"})) - 1
      BY <1>1, ScanningMoves
    <2> HIDE DEF Low
    <2>9. Cardinality(Scanning({"medium", "low"})') <= Cardinality(Low')
      BY <1>6, <2>1, <2>3, <2>4, <2>6, <2>7
    <2>10. Cardinality(Scanning({"low"})') <= Cardinality(heap'["low"])
      BY <1>6, <2>1, <2>3, <2>5, <2>6, <2>8
    <2>11. QED
      BY <2>9, <2>10
  <1>9. QED
    BY <1>7, <1>8 DEF ScanLedger

\* A worker finds a tier empty and goes on to the next one.
LEMMA LedgerPopNil ==
  ASSUME IndInv, NEW w \in Workers, NEW t \in Tiers, workerState[w] = t,
         heap[t] = {},
         UNCHANGED <<callState, heap, notify, dropped>>,
         workerState' = [workerState EXCEPT ![w] = AfterTier[t]]
  PROVE  TokenLedger' /\ ScanLedger'
  <1> DEFINE Low == heap["medium"] \cup heap["low"]
  <1>1. /\ heap \in [Tiers -> SUBSET Calls]
        /\ workerState \in [Workers -> Tiers \cup {"idle", "popped"}]
        /\ notify \in Nat /\ dropped \in Nat
    BY DEF IndInv, TypeOK
  <1>2. t = "high" \/ t = "medium"
    <2>1. t # "low"
      BY NeverEmpty DEF NeverEmptyHanded
    <2>2. QED
      BY <2>1 DEF Tiers
  <1>3. AfterTier[t] \in {"medium", "low"} /\ AfterTier[t] \in Tiers
    BY <1>2, AfterTierType DEF Tiers
  <1>4. Scanning(Tiers)' = Scanning(Tiers)
    BY <1>1, <1>3, ScanningMoves
  <1>5. Queued' = Queued /\ Unannounced' = Unannounced
    BY DEF Queued, Unannounced
  <1>6. TokenLedger'
    BY <1>4, <1>5 DEF IndInv, TokenLedger
  <1>7. /\ Cardinality(Low) \in Nat /\ Cardinality(heap["low"]) \in Nat
        /\ Cardinality(Queued) \in Nat /\ Queued = heap["high"] \cup Low
        /\ Cardinality(Scanning(Tiers)) \in Nat /\ IsFiniteSet(Scanning(Tiers))
        /\ Cardinality(Unannounced) \in Nat
        /\ IsFiniteSet(Scanning({"medium", "low"})')
        /\ Cardinality(Scanning({"medium", "low"})') \in Nat
        /\ Cardinality(Scanning({"low"})') \in Nat
    BY <1>1, QueuedFinite, UnannouncedFinite, ScanningFinite, ScanningFinitePrime
       DEF Tiers
  <1> HIDE DEF Low
  <1>8. Cardinality(Scanning({"medium", "low"})') <= Cardinality(Low)
    <2>1. CASE t = "high"
      <3>1. Scanning({"medium", "low"})' \subseteq Scanning(Tiers)
        BY <1>4 DEF Scanning, Tiers
      <3>2. Cardinality(Scanning({"medium", "low"})') <= Cardinality(Scanning(Tiers))
        BY <1>7, <3>1, FS_Subset
      <3>3. Cardinality(Scanning(Tiers)) <= Cardinality(Queued)
        BY <1>1, <1>7 DEF IndInv, TokenLedger
      <3>4. Queued = Low
        BY <1>7, <2>1
      <3>5. Cardinality(Scanning(Tiers)) <= Cardinality(Low)
        BY <3>3, <3>4
      <3>6. QED
        BY <1>7, <3>2, <3>5
    <2>2. CASE t = "medium"
      <3>1. Scanning({"medium", "low"})' = Scanning({"medium", "low"})
        BY <1>1, <1>3, <2>2, ScanningMoves
      <3>2. QED
        BY <3>1 DEF IndInv, ScanLedger, Low
    <2>3. QED
      BY <1>2, <2>1, <2>2
  <1>9. Cardinality(Scanning({"low"})') <= Cardinality(heap["low"])
    <2>1. CASE t = "high"
      <3>1. Scanning({"low"})' = Scanning({"low"})
        <4>1. AfterTier[t] \notin {"low"} /\ t \notin {"low"}
          BY <2>1, AfterTierType
        <4>2. QED
          BY <1>1, <4>1, ScanningMoves
      <3>2. QED
        BY <3>1 DEF IndInv, ScanLedger
    <2>2. CASE t = "medium"
      <3>1. Scanning({"low"})' \subseteq Scanning({"medium", "low"})'
        BY DEF Scanning
      <3>2. Cardinality(Scanning({"low"})') <= Cardinality(Scanning({"medium", "low"})')
        BY <1>7, <3>1, FS_Subset
      <3>3. Low = heap["low"]
        BY <2>2 DEF Low
      <3>4. QED
        BY <1>7, <1>8, <3>2, <3>3
    <2>3. QED
      BY <1>2, <2>1, <2>2
  <1>10. ScanLedger'
    BY <1>8, <1>9 DEF ScanLedger, Low
  <1>11. QED
    BY <1>6, <1>10

LEMMA LedgerPop ==
  ASSUME IndInv, NEW w \in Workers, DequeuePop(w)
  PROVE  TokenLedger' /\ ScanLedger'
  <1> DEFINE t == workerState[w]
  <1>1. t \in Tiers /\ UNCHANGED <<callState, notify, dropped>>
    BY DEF DequeuePop
  <1>2. PICK i \in Popped(heap[t]) :
          /\ heap' = [heap EXCEPT ![t] = @ \ {i}]
          /\ workerState' = [workerState EXCEPT ![w] =
                                IF i = NoJob THEN AfterTier[t] ELSE "popped"]
    BY DEF DequeuePop
  <1>3. heap \in [Tiers -> SUBSET Calls] /\ heap[t] \in SUBSET Calls
    BY <1>1 DEF IndInv, TypeOK
  <1>4. CASE i = NoJob
    <2>1. heap[t] = {}
      BY <1>3, <1>4, PoppedItem
    <2>2. heap' = heap
      BY <1>1, <1>2, <1>3, <2>1
    <2>3. QED
      BY <1>1, <1>2, <1>4, <2>1, <2>2, LedgerPopNil
  <1>5. CASE i # NoJob
    <2>1. i \in heap[t]
      BY <1>3, <1>5, PoppedItem
    <2>2. QED
      BY <1>1, <1>2, <1>5, <2>1, LedgerPopItem
  <1>6. QED
    BY <1>4, <1>5

LEMMA LedgerReturn ==
  ASSUME IndInv, NEW w \in Workers, DequeueReturn(w)
  PROVE  TokenLedger' /\ ScanLedger'
  <1>1. workerState \in [Workers -> Tiers \cup {"idle", "popped"}]
    BY DEF IndInv, TypeOK
  <1>2. /\ "idle" \notin Tiers /\ "popped" \notin Tiers
        /\ "idle" \notin {"medium", "low"} /\ "popped" \notin {"medium", "low"}
        /\ "idle" \notin {"low"} /\ "popped" \notin {"low"}
        /\ workerState[w] = "popped"
        /\ workerState' = [workerState EXCEPT ![w] = "idle"]
    BY DEF Tiers, DequeueReturn
  <1>3. /\ Scanning(Tiers)' = Scanning(Tiers)
        /\ Scanning({"medium", "low"})' = Scanning({"medium", "low"})
        /\ Scanning({"low"})' = Scanning({"low"})
    BY <1>1, <1>2, ScanningMoves
  <1>4. Queued' = Queued /\ Unannounced' = Unannounced
    BY DEF DequeueReturn, Queued, Unannounced
  <1>5. QED
    BY <1>3, <1>4 DEF DequeueReturn, IndInv, TokenLedger, ScanLedger

LEMMA IndInvNext == IndInv /\ [Next]_vars => IndInv'
  <1> SUFFICES ASSUME IndInv, [Next]_vars PROVE IndInv'
    OBVIOUS
  <1>1. TypeOK' /\ Placement'
    BY IndInvType, TypeInvNext, PlacementNext DEF TypeInv
  <1>2. ASSUME NEW c \in Calls, EnqueueStep(c) PROVE TokenLedger' /\ ScanLedger'
    <2>1. CASE EnqueueCheck(c)
      <3>1. Unannounced' = Unannounced
        BY <2>1 DEF EnqueueCheck, Unannounced, IndInv, TypeOK
      <3>2. QED
        BY <2>1, <3>1, LedgersUnchanged DEF EnqueueCheck
    <2>2. CASE EnqueuePush(c)
      BY <1>1, <2>2, LedgerPush
    <2>3. CASE EnqueueCount(c)
      <3>1. Unannounced' = Unannounced
        BY <2>3 DEF EnqueueCount, Unannounced, IndInv, TypeOK
      <3>2. QED
        BY <2>3, <3>1, LedgersUnchanged DEF EnqueueCount
    <2>4. CASE EnqueueNotify(c)
      BY <2>4, LedgerNotify
    <2>5. QED
      BY <1>2, <2>1, <2>2, <2>3, <2>4 DEF EnqueueStep
  <1>3. ASSUME NEW w \in Workers, WorkerStep(w) PROVE TokenLedger' /\ ScanLedger'
    BY <1>3, LedgerReceive, LedgerPop, LedgerReturn DEF WorkerStep
  <1>4. ASSUME UNCHANGED vars PROVE TokenLedger' /\ ScanLedger'
    BY <1>4, LedgersUnchanged DEF vars, Unannounced
  <1>5. TokenLedger' /\ ScanLedger'
    BY <1>2, <1>3, <1>4 DEF Next
  <1>6. QED
    BY <1>1, <1>5 DEF IndInv

LEMMA Inductive == Spec => []IndInv
  BY IndInvInit, IndInvNext, PTL DEF Spec

\* Every item in a heap is matched by a token, a scanning worker, a call that
\* has yet to notify or a dropped token, for every number of calls and workers
\* and every channel capacity (priority_queue.go:190-259).
THEOREM TokensAccounted == Spec => []TokenLedger
  <1>1. IndInv => TokenLedger
    BY DEF IndInv
  <1>2. QED
    BY <1>1, Inductive, PTL

\* A worker that received a token never gets nil from Dequeue
\* (priority_queue.go:242-259, pool.go:239-244).
THEOREM WokenWorkerFindsJob == Spec => []NeverEmptyHanded
  BY NeverEmpty, Inductive, PTL

-----------------------------------------------------------------------------
(* Priority order                                                          *)

Pushed == {c \in Calls : callState[c] \in {"pushed", "counted", "enqueued"}}

\* What a worker saw on waking up and has passed is gone from the heaps, and
\* what it holds was not preceded by anything it saw that is still queued.
PassedTiersClear ==
    \A w \in Workers :
        /\ seen[w] \subseteq Pushed
        /\ workerState[w] \in {"medium", "low"} => seen[w] \cap heap["high"] = {}
        /\ workerState[w] = "low" => seen[w] \cap heap["medium"] = {}
        /\ workerState[w] = "popped" => \A i \in seen[w] \cap Queued : ~Less(i, hand[w])

LEMMA HigherTierFirst ==
  ASSUME NEW a \in Calls, NEW b \in Calls,
         \/ Tier(Priority[a]) = "high" /\ Tier(Priority[b]) \in {"medium", "low"}
         \/ Tier(Priority[a]) = "medium" /\ Tier(Priority[b]) = "low"
  PROVE  ~Less(b, a)
  <1>1. Priority[a] \in 1..10 /\ Priority[b] \in 1..10
    OBVIOUS
  <1>2. Priority[a] < Priority[b]
    BY <1>1 DEF Tier
  <1>3. QED
    BY <1>1, <1>2 DEF Less

\* Enqueue adds nothing a worker has seen: it pushes each call's item once.
LEMMA PassedEnqueue ==
  ASSUME IndInv, PassedTiersClear, NEW c \in Calls, EnqueueStep(c)
  PROVE  PassedTiersClear'
  <1>1. UNCHANGED <<workerState, hand, seen>>
    BY DEF EnqueueStep, EnqueueCheck, EnqueuePush, EnqueueCount, EnqueueNotify
  <1>2. Pushed \subseteq Pushed'
    BY DEF EnqueueStep, EnqueueCheck, EnqueuePush, EnqueueCount, EnqueueNotify,
           Pushed, IndInv, TypeOK
  <1>3. \A t \in Tiers : \A i \in Pushed : i \in heap'[t] => i \in heap[t]
    <2>1. CASE EnqueuePush(c)
      <3>1. c \notin Pushed
        BY <2>1 DEF EnqueuePush, Pushed
      <3>2. QED
        BY <2>1, <3>1, TierType DEF EnqueuePush, IndInv, TypeOK
    <2>2. CASE EnqueueCheck(c) \/ EnqueueCount(c) \/ EnqueueNotify(c)
      BY <2>2 DEF EnqueueCheck, EnqueueCount, EnqueueNotify
    <2>3. QED
      BY <2>1, <2>2 DEF EnqueueStep
  <1>4. \A i \in Pushed : i \in Queued' => i \in Queued
    BY <1>3 DEF Queued
  <1>5. QED
    BY <1>1, <1>2, <1>3, <1>4 DEF PassedTiersClear, Tiers

LEMMA PassedPop ==
  ASSUME IndInv, PassedTiersClear, NEW w \in Workers, DequeuePop(w)
  PROVE  PassedTiersClear'
  <1> DEFINE t == workerState[w]
  <1>1. t \in Tiers /\ UNCHANGED <<callState, seen>>
    BY DEF DequeuePop
  <1>2. PICK i \in Popped(heap[t]) :
          /\ heap' = [heap EXCEPT ![t] = @ \ {i}]
          /\ hand' = [hand EXCEPT ![w] = i]
          /\ workerState' = [workerState EXCEPT ![w] =
                                IF i = NoJob THEN AfterTier[t] ELSE "popped"]
    BY DEF DequeuePop
  <1>3. /\ heap \in [Tiers -> SUBSET Calls] /\ heap[t] \in SUBSET Calls
        /\ workerState \in [Workers -> Tiers \cup {"idle", "popped"}]
        /\ hand \in [Workers -> Calls \cup {NoJob}]
        /\ seen \in [Workers -> SUBSET Calls]
    BY <1>1 DEF IndInv, TypeOK
  <1>4. \A u \in Tiers : heap'[u] \subseteq heap[u]
    BY <1>2, <1>3
  <1>5. Queued' \subseteq Queued /\ Pushed' = Pushed
    BY <1>1, <1>4 DEF Queued, Pushed
  <1> DEFINE Clear(v) ==
        /\ seen[v] \subseteq Pushed
        /\ workerState[v] \in {"medium", "low"} => seen[v] \cap heap["high"] = {}
        /\ workerState[v] = "low" => seen[v] \cap heap["medium"] = {}
        /\ workerState[v] = "popped" => \A k \in seen[v] \cap Queued : ~Less(k, hand[v])
  <1>6. \A v \in Workers : Clear(v)
    BY DEF PassedTiersClear
  <1>7. ASSUME NEW v \in Workers, v # w PROVE Clear(v)'
    <2>1. workerState'[v] = workerState[v] /\ hand'[v] = hand[v] /\ seen' = seen
      BY <1>1, <1>2, <1>3, <1>7
    <2>2. QED
      BY <1>4, <1>5, <1>6, <2>1 DEF Tiers
  <1>8. Clear(w)'
    <2>1. CASE i = NoJob
      <3>1. heap[t] = {}
        BY <1>3, <2>1, PoppedItem
      <3>2. workerState'[w] = AfterTier[t] /\ seen'[w] = seen[w]
        BY <1>1, <1>2, <1>3, <2>1
      <3>3. t = "high" => workerState'[w] = "medium"
        BY <3>2, AfterTierType
      <3>4. t = "medium" => workerState'[w] = "low"
        BY <3>2, AfterTierType
      <3>5. t = "low" => workerState'[w] = "idle"
        BY <3>2, AfterTierType
      <3>6. t \in {"high", "medium", "low"}
        BY <1>1 DEF Tiers
      <3>7. heap'["high"] \subseteq heap["high"] /\ heap'["medium"] \subseteq heap["medium"]
        BY <1>4 DEF Tiers
      <3>8. QED
        BY <1>5, <1>6, <3>1, <3>2, <3>3, <3>4, <3>5, <3>6, <3>7
    <2>2. CASE i # NoJob
      <3>1. i \in heap[t] /\ \A k \in heap[t] : ~Less(k, i)
        BY <1>3, <2>2, PoppedItem
      <3>2. workerState'[w] = "popped" /\ hand'[w] = i /\ seen'[w] = seen[w]
        BY <1>1, <1>2, <1>3, <2>2
      <3>3. ASSUME NEW k \in seen[w] \cap Queued' PROVE ~Less(k, i)
        <4>1. k \in Queued /\ k \in Calls /\ i \in Calls
          BY <1>3, <1>5, <3>1, <3>3
        <4>2. PICK u \in Tiers : k \in heap[u]
          BY <4>1 DEF Queued
        <4>3. Tier(Priority[k]) = u /\ Tier(Priority[i]) = t
          BY <1>1, <3>1, <4>2 DEF IndInv, Placement
        <4>4. \/ u = t
              \/ t = "high" /\ u \in {"medium", "low"}
              \/ t = "medium" /\ u = "low"
          BY <1>1, <1>6, <3>3, <4>2 DEF Tiers
        <4>5. QED
          BY <3>1, <4>1, <4>2, <4>3, <4>4, HigherTierFirst
      <3>4. QED
        BY <1>5, <1>6, <3>2, <3>3
    <2>3. QED
      BY <2>1, <2>2
  <1>9. QED
    BY <1>7, <1>8 DEF PassedTiersClear

LEMMA PassedNext == IndInv /\ PassedTiersClear /\ [Next]_vars => PassedTiersClear'
  <1> SUFFICES ASSUME IndInv, PassedTiersClear, [Next]_vars PROVE PassedTiersClear'
    OBVIOUS
  <1>1. ASSUME NEW w \in Workers, Receive(w) PROVE PassedTiersClear'
    <2>1. /\ UNCHANGED <<callState, heap, hand>>
          /\ workerState' = [workerState EXCEPT ![w] = "high"]
          /\ seen' = [seen EXCEPT ![w] = Queued]
      BY <1>1 DEF Receive
    <2>2. Queued' = Queued /\ Pushed' = Pushed
      BY <2>1 DEF Queued, Pushed
    <2>3. Queued \subseteq Pushed
      BY DEF Queued, Pushed, IndInv, Placement, TypeOK
    <2>4. QED
      BY <2>1, <2>2, <2>3 DEF PassedTiersClear, IndInv, TypeOK
  <1>2. ASSUME NEW w \in Workers, DequeueReturn(w) PROVE PassedTiersClear'
    <2>1. /\ UNCHANGED <<callState, heap>>
          /\ hand' = [hand EXCEPT ![w] = NoJob]
          /\ workerState' = [workerState EXCEPT ![w] = "idle"]
          /\ seen' = [seen EXCEPT ![w] = {}]
      BY <1>2 DEF DequeueReturn
    <2>2. Queued' = Queued /\ Pushed' = Pushed
      BY <2>1 DEF Queued, Pushed
    <2>3. QED
      BY <2>1, <2>2 DEF PassedTiersClear, IndInv, TypeOK
  <1>3. ASSUME UNCHANGED vars PROVE PassedTiersClear'
    BY <1>3 DEF vars, PassedTiersClear, Queued, Pushed
  <1>4. QED
    BY <1>1, <1>2, <1>3, PassedEnqueue, PassedPop DEF Next, WorkerStep

\* No item that was queued when a worker woke up, and is still queued, goes
\* before the one Dequeue took, for all priorities, creation times, calls and
\* workers (priority_queue.go:239-259).
THEOREM PriorityOrder == Spec => []NoOvertakingSinceWakeup
  <1>1. Init => PassedTiersClear
    BY DEF Init, PassedTiersClear
  <1>2. PassedTiersClear => NoOvertakingSinceWakeup
    BY DEF PassedTiersClear, NoOvertakingSinceWakeup
  <1>3. QED
    BY <1>1, <1>2, Inductive, PassedNext, PTL DEF Spec

-----------------------------------------------------------------------------
(* The queue implements the abstract work queue                            *)

\* The phase of one job changes and the others stay.
LEMMA PhaseMoves ==
  ASSUME NEW c \in Calls, NEW v, Phase(c)' = v,
         \A d \in Calls : d # c => Phase(d)' = Phase(d)
  PROVE  [d \in Calls |-> Phase(d)]' = [[d \in Calls |-> Phase(d)] EXCEPT ![c] = v]
  OBVIOUS

LEMMA EnqueueRefines ==
  ASSUME IndInv, NEW c \in Calls, EnqueueStep(c)
  PROVE  Abstract!Next \/ UNCHANGED Abstract!vars
  <1> DEFINE ph == [d \in Calls |-> Phase(d)]
             an == {d \in Calls : callState[d] = "enqueued"}
  <1>1. UNCHANGED <<workerState, hand>> /\ Scanning(Tiers)' = Scanning(Tiers)
    BY DEF EnqueueStep, EnqueueCheck, EnqueuePush, EnqueueCount, EnqueueNotify, Scanning
  <1>2. /\ callState \in [Calls -> {"new", "checked", "pushed", "counted",
                                    "enqueued", "rejected"}]
        /\ heap \in [Tiers -> SUBSET Calls]
    BY DEF IndInv, TypeOK
  <1>3. \A d \in Queued : callState[d] \in {"pushed", "counted", "enqueued"}
    BY DEF IndInv, Placement, Queued
  <1>4. CASE EnqueueCheck(c)
    <2>1. Queued' = Queued /\ notify' = notify /\ c \notin Queued
      BY <1>3, <1>4 DEF EnqueueCheck, Queued
    <2>2. an' = an
      BY <1>2, <1>4 DEF EnqueueCheck
    <2>3. CASE callState'[c] = "rejected"
      <3>1. ph' = [ph EXCEPT ![c] = "rejected"] /\ ph[c] = "new"
        <4>1. Phase(c)' = "rejected" /\ Phase(c) = "new"
          BY <1>4, <2>1, <2>3 DEF EnqueueCheck, Phase
        <4>2. \A d \in Calls : d # c => Phase(d)' = Phase(d)
          BY <1>2, <1>4, <2>1 DEF EnqueueCheck, Phase
        <4>3. QED
          BY <4>1, <4>2, PhaseMoves
      <3>2. Abstract!Reject(c)
        BY <1>1, <2>1, <2>2, <3>1 DEF Abstract!Reject
      <3>3. QED
        BY <3>2 DEF Abstract!Next
    <2>4. CASE callState'[c] # "rejected"
      <3>1. ph' = ph
        BY <1>2, <1>4, <2>1, <2>4 DEF EnqueueCheck, Phase
      <3>2. QED
        BY <1>1, <2>1, <2>2, <3>1 DEF Abstract!vars
    <2>5. QED
      BY <2>3, <2>4
  <1>5. CASE EnqueuePush(c)
    <2>1. Queued' = Queued \cup {c} /\ notify' = notify /\ c \notin Queued
      <3>1. \A t \in Tiers : heap'[t] = IF t = Tier(Priority[c]) THEN heap[t] \cup {c}
                                        ELSE heap[t]
        BY <1>2, <1>5 DEF EnqueuePush
      <3>2. c \notin Queued
        BY <1>3, <1>5 DEF EnqueuePush
      <3>3. Queued = heap["high"] \cup heap["medium"] \cup heap["low"]
            /\ Queued' = heap'["high"] \cup heap'["medium"] \cup heap'["low"]
        BY DEF Queued, Tiers
      <3>4. QED
        BY <1>5, <3>1, <3>2, <3>3, TierType DEF EnqueuePush, Tiers
    <2>2. an' = an
      BY <1>2, <1>5 DEF EnqueuePush
    <2>3. ph' = [ph EXCEPT ![c] = "waiting"] /\ ph[c] = "new"
      <3>1. Phase(c)' = "waiting" /\ Phase(c) = "new"
        BY <1>2, <1>5, <2>1 DEF EnqueuePush, Phase
      <3>2. \A d \in Calls : d # c => Phase(d)' = Phase(d)
        BY <1>2, <1>5, <2>1 DEF EnqueuePush, Phase
      <3>3. QED
        BY <3>1, <3>2, PhaseMoves
    <2>4. Abstract!Put(c)
      BY <1>1, <2>1, <2>2, <2>3 DEF Abstract!Put
    <2>5. QED
      BY <2>4 DEF Abstract!Next
  <1>6. CASE EnqueueCount(c)
    <2>1. Queued' = Queued /\ notify' = notify
      BY <1>6 DEF EnqueueCount, Queued
    <2>2. an' = an /\ ph' = ph
      BY <1>2, <1>6, <2>1 DEF EnqueueCount, Phase
    <2>3. QED
      BY <1>1, <2>1, <2>2 DEF Abstract!vars
  <1>7. CASE EnqueueNotify(c)
    <2>1. Queued' = Queued
      BY <1>7 DEF EnqueueNotify, Queued
    <2>2. an' = an \cup {c} /\ c \notin an /\ ph' = ph
      BY <1>2, <1>7, <2>1 DEF EnqueueNotify, Phase
    <2>3. ph[c] \in {"waiting", "taken"}
      BY <1>7 DEF EnqueueNotify, Phase
    <2>4. Abstract!Announce(c)
      BY <1>1, <1>7, <2>2, <2>3 DEF Abstract!Announce, EnqueueNotify
    <2>5. QED
      BY <2>4 DEF Abstract!Next
  <1>8. QED
    BY <1>4, <1>5, <1>6, <1>7 DEF EnqueueStep

LEMMA WorkerRefines ==
  ASSUME IndInv, NEW w \in Workers, WorkerStep(w)
  PROVE  Abstract!Next \/ UNCHANGED Abstract!vars
  <1> DEFINE ph == [d \in Calls |-> Phase(d)]
             an == {d \in Calls : callState[d] = "enqueued"}
             cl == Scanning(Tiers)
  <1>1. callState' = callState /\ an' = an
    BY DEF WorkerStep, Receive, DequeuePop, DequeueReturn
  <1>2. /\ workerState \in [Workers -> Tiers \cup {"idle", "popped"}]
        /\ heap \in [Tiers -> SUBSET Calls]
        /\ hand \in [Workers -> Calls \cup {NoJob}]
        /\ HandOK
    BY IndInvType DEF IndInv, TypeOK, TypeInv
  <1>3. "idle" \notin Tiers /\ "popped" \notin Tiers /\ "high" \in Tiers
    BY DEF Tiers
  <1>4. CASE Receive(w)
    <2>1. Queued' = Queued /\ ph' = ph
      BY <1>1, <1>4 DEF Receive, Queued, Phase
    <2>2. cl' = cl \cup {w} /\ w \notin cl
      BY <1>2, <1>3, <1>4 DEF Receive, Scanning
    <2>3. hand[w] = NoJob /\ hand' = hand
      BY <1>2, <1>4 DEF Receive, HandOK
    <2>4. Abstract!Claim(w)
      BY <1>1, <1>4, <2>1, <2>2, <2>3 DEF Abstract!Claim, Receive
    <2>5. QED
      BY <2>4 DEF Abstract!Next
  <1>5. CASE DequeuePop(w)
    <2> DEFINE t == workerState[w]
    <2>1. t \in Tiers /\ notify' = notify
      BY <1>5 DEF DequeuePop
    <2>2. PICK i \in Popped(heap[t]) :
            /\ heap' = [heap EXCEPT ![t] = @ \ {i}]
            /\ hand' = [hand EXCEPT ![w] = i]
            /\ workerState' = [workerState EXCEPT ![w] =
                                  IF i = NoJob THEN AfterTier[t] ELSE "popped"]
      BY <1>5 DEF DequeuePop
    <2>3. heap[t] \in SUBSET Calls
      BY <1>2, <2>1
    <2>4. CASE i = NoJob
      <3>1. heap[t] = {}
        BY <2>3, <2>4, PoppedItem
      <3>2. heap' = heap /\ hand' = hand
        BY <1>2, <1>3, <2>1, <2>2, <2>4, <3>1 DEF HandOK
      <3>3. t # "low"
        BY <3>1, NeverEmpty DEF NeverEmptyHanded
      <3>4. AfterTier[t] \in Tiers
        BY <2>1, <3>3, AfterTierType DEF Tiers
      <3>5. cl' = cl
        BY <1>2, <2>1, <2>2, <2>4, <3>4, ScanningMoves
      <3>6. ph' = ph
        BY <1>1, <3>2 DEF Phase, Queued
      <3>7. QED
        BY <1>1, <2>1, <3>2, <3>5, <3>6 DEF Abstract!vars
    <2>5. CASE i # NoJob
      <3>1. i \in heap[t] /\ i \in Calls
        BY <2>3, <2>5, PoppedItem
      <3>2. \A u \in Tiers : heap'[u] = heap[u] \ {i}
        <4>1. \A u \in Tiers : i \in heap[u] => u = t
          BY <2>1, <3>1 DEF IndInv, Placement
        <4>2. QED
          BY <1>2, <2>2, <4>1
      <3>3. Queued' = Queued \ {i} /\ i \in Queued
        BY <2>1, <3>1, <3>2 DEF Queued
      <3>4. callState[i] \in {"pushed", "counted", "enqueued"}
        BY <2>1, <3>1 DEF IndInv, Placement
      <3>5. ph' = [ph EXCEPT ![i] = "taken"] /\ ph[i] = "waiting"
        <4>1. Phase(i)' = "taken" /\ Phase(i) = "waiting"
          BY <1>1, <3>1, <3>3, <3>4 DEF Phase
        <4>2. \A d \in Calls : d # i => Phase(d)' = Phase(d)
          BY <1>1, <3>3 DEF Phase
        <4>3. QED
          BY <3>1, <4>1, <4>2, PhaseMoves
      <3>6. cl' = cl \ {w} /\ w \in cl
        BY <1>2, <1>3, <2>1, <2>2, <2>5 DEF Scanning
      <3>7. Abstract!Take(w, i)
        BY <1>1, <2>1, <2>2, <3>5, <3>6 DEF Abstract!Take
      <3>8. QED
        BY <3>1, <3>7 DEF Abstract!Next
    <2>6. QED
      BY <2>4, <2>5
  <1>6. CASE DequeueReturn(w)
    <2>1. Queued' = Queued /\ ph' = ph
      BY <1>1, <1>6 DEF DequeueReturn, Queued, Phase
    <2>2. cl' = cl
      BY <1>2, <1>3, <1>6 DEF DequeueReturn, Scanning
    <2>3. hand[w] # NoJob
      BY <1>2, <1>6 DEF DequeueReturn, HandOK
    <2>4. Abstract!Leave(w)
      BY <1>1, <1>6, <2>1, <2>2, <2>3 DEF Abstract!Leave, DequeueReturn
    <2>5. QED
      BY <2>4 DEF Abstract!Next
  <1>7. QED
    BY <1>4, <1>5, <1>6 DEF WorkerStep

\* Enqueue and Dequeue, run step by step by any number of goroutines, do what
\* the abstract work queue does: each job is handed out at most once, to one
\* worker, and every wake-up a worker receives ends with a job in its hands
\* (priority_queue.go:190-259).
THEOREM Refinement == Spec => ImplementsWorkQueue
  <1>1. Init => Abstract!Init
    <2> SUFFICES ASSUME Init PROVE Abstract!Init
      OBVIOUS
    <2>1. Queued = {} /\ Scanning(Tiers) = {}
      BY DEF Init, Queued, Scanning, Tiers
    <2>2. QED
      BY <2>1 DEF Init, Abstract!Init, Phase
  <1>2. IndInv /\ [Next]_vars => [Abstract!Next]_(Abstract!vars)
    <2> SUFFICES ASSUME IndInv, [Next]_vars
                 PROVE  Abstract!Next \/ UNCHANGED Abstract!vars
      OBVIOUS
    <2>1. ASSUME UNCHANGED vars PROVE UNCHANGED Abstract!vars
      BY <2>1 DEF vars, Abstract!vars, Phase, Queued, Scanning
    <2>2. QED
      BY <2>1, EnqueueRefines, WorkerRefines DEF Next
  <1>3. QED
    BY <1>1, <1>2, Inductive, PTL DEF Spec, ImplementsWorkQueue, Abstract!Spec
-----------------------------------------------------------------------------
(* The cap on the memory                                                   *)

LEMMA LeastExists ==
  ASSUME NEW S \in SUBSET Nat, S # {}
  PROVE  \E x \in S : \A y \in S : x <= y
  <1>1. PICK x \in S : \A y \in S : ~ (<<y, x>> \in OpToRel(<, Nat))
    BY NatLessThanWellFounded, WFMin, Zenon
  <1>2. \A y \in S : ~ (y < x)
    BY <1>1 DEF OpToRel
  <1>3. QED
    BY <1>2

\* A finite set of numbers has a largest one: the one that fewest exceed.
LEMMA LargestExists ==
  ASSUME NEW S \in SUBSET Nat, S # {}, IsFiniteSet(S)
  PROVE  \E x \in S : \A y \in S : x >= y
  <1> DEFINE Above(x) == {y \in S : y > x}
             N == {Cardinality(Above(x)) : x \in S}
  <1>1. ASSUME NEW x \in S PROVE IsFiniteSet(Above(x)) /\ Cardinality(Above(x)) \in Nat
    <2>1. Above(x) \subseteq S
      OBVIOUS
    <2>2. QED
      BY <2>1, FS_Subset, FS_CardinalityType
  <1>2. N \in SUBSET Nat /\ N # {}
    <2>1. PICK x \in S : TRUE
      OBVIOUS
    <2>2. Cardinality(Above(x)) \in N
      OBVIOUS
    <2>3. QED
      BY <1>1, <2>2
  <1>3. PICK n \in N : \A m \in N : n <= m
    BY <1>2, LeastExists
  <1>4. PICK x \in S : n = Cardinality(Above(x))
    BY <1>3
  <1>5. ASSUME NEW y \in S, ~(x >= y) PROVE FALSE
    <2>0. y \in Nat /\ x \in Nat /\ \A z \in S : z \in Nat
      BY <1>4, <1>5
    <2>1. Above(y) \subseteq Above(x) /\ y \in Above(x) /\ y \notin Above(y)
      BY <1>4, <1>5, <2>0
    <2>2. Cardinality(Above(y)) <= Cardinality(Above(x)) /\ Cardinality(Above(y)) # Cardinality(Above(x))
      BY <1>1, <1>4, <2>1, FS_Subset
    <2>3. Cardinality(Above(x)) <= Cardinality(Above(y))
      <3>1. Cardinality(Above(y)) \in N
        BY <1>5
      <3> HIDE DEF N
      <3>2. QED
        BY <1>3, <1>4, <3>1
    <2>4. Cardinality(Above(x)) \in Nat /\ Cardinality(Above(y)) \in Nat
      BY <1>1, <1>4, <1>5
    <2>5. QED
      BY <2>2, <2>3, <2>4
  <1>6. QED
    BY <1>5

LEMMA LargestSizeBounds ==
  LargestSize \in Nat /\ \A c \in Calls : Size[c] <= LargestSize /\ Size[c] \in Nat
  <1> DEFINE S == {Size[c] : c \in Calls}
             f == [c \in Calls |-> Size[c]]
  <1>1. S \in SUBSET Nat /\ S # {} /\ IsFiniteSet(S)
    <2>1. f \in Surjection(Calls, S)
      BY DEF Surjection
    <2>2. PICK c \in Calls : TRUE
      OBVIOUS
    <2>3. Size[c] \in S
      OBVIOUS
    <2>4. QED
      BY <2>1, <2>3, FS_Surjection
  <1>2. \E x \in S : \A y \in S : x >= y
    BY <1>1, LargestExists
  <1>3. LargestSize \in S /\ \A y \in S : LargestSize >= y
    BY <1>2 DEF LargestSize, Max
  <1>4. QED
    BY <1>1, <1>3

\* The calls that passed the check and have yet to add their size.
Adding == {c \in Calls : callState[c] \in {"checked", "pushed"}}
Overshoot == RamCap + (MaxCallers - 1) * LargestSize

\* The last of them to pass the check counted what was there; each of the
\* others adds at most the largest size.
RamInv ==
    /\ Cardinality(InEnqueue) <= MaxCallers
    /\ consumingRAM <= Overshoot
    /\ Adding # {} =>
          \E c \in Adding :
              consumingRAM + Size[c] + (Cardinality(Adding) - 1) * LargestSize <= Overshoot

LEMMA CallersFinite ==
  /\ IsFiniteSet(Adding) /\ Cardinality(Adding) \in Nat
  /\ IsFiniteSet(InEnqueue) /\ Cardinality(InEnqueue) \in Nat
  /\ IsFiniteSet(InEnqueue') /\ Cardinality(InEnqueue') \in Nat
  /\ Cardinality(Adding) <= Cardinality(InEnqueue)
  <1>1. Adding \subseteq InEnqueue /\ InEnqueue \subseteq Calls /\ InEnqueue' \subseteq Calls
    BY DEF Adding, InEnqueue
  <1>2. QED
    BY <1>1, FS_Subset, FS_CardinalityType

\* Products with the largest size.
LEMMA SizesAddUp ==
  /\ Overshoot \in Int /\ RamCap <= Overshoot
  /\ \A n \in Int : n * LargestSize \in Int /\ (n + 1) * LargestSize = n * LargestSize + LargestSize
  /\ \A m, n \in Int : m <= n => m * LargestSize <= n * LargestSize
  /\ 0 * LargestSize = 0
  <1>1. LargestSize \in Nat
    BY LargestSizeBounds
  <1>2. \A s \in Nat : /\ \A n \in Int : n * s \in Int /\ (n + 1) * s = n * s + s
                       /\ \A m, n \in Int : m <= n => m * s <= n * s
                       /\ 0 * s = 0
    BY SMT
  <1>3. MaxCallers - 1 \in Nat /\ RamCap \in Int
    OBVIOUS
  <1>4. (MaxCallers - 1) * LargestSize \in Nat
    <2>1. \A m, n \in Nat : m * n \in Nat
      BY SMT
    <2>2. QED
      BY <1>1, <1>3, <2>1
  <1>5. QED
    BY <1>1, <1>2, <1>3, <1>4 DEF Overshoot

LEMMA CheckKeepsRam ==
  ASSUME TypeOK, RamInv, NEW c \in Calls, EnqueueCheck(c)
  PROVE  RamInv'
  <1> DEFINE passed == ~(consumingRAM + Size[c] > RamCap)
  <1>1. /\ callState[c] = "new" /\ Cardinality(InEnqueue) < MaxCallers
        /\ callState' = [callState EXCEPT ![c] = IF passed THEN "checked" ELSE "rejected"]
        /\ consumingRAM' = consumingRAM /\ consumingRAM \in Int
    BY DEF EnqueueCheck, TypeOK
  <1>2. c \notin InEnqueue /\ c \notin Adding
    BY <1>1 DEF InEnqueue, Adding
  <1>3. CASE ~passed
    <2>1. InEnqueue' = InEnqueue /\ Adding' = Adding
      BY <1>1, <1>3 DEF InEnqueue, Adding, TypeOK
    <2>2. QED
      BY <1>1, <2>1 DEF RamInv, Overshoot, LargestSize
  <1>4. CASE passed
    <2>1. InEnqueue' = InEnqueue \cup {c} /\ Adding' = Adding \cup {c}
      BY <1>1, <1>4 DEF InEnqueue, Adding, TypeOK
    <2>2. /\ Cardinality(InEnqueue') = Cardinality(InEnqueue) + 1
          /\ Cardinality(Adding') = Cardinality(Adding) + 1
      BY <1>2, <2>1, CallersFinite, FS_AddElement
    <2>3. Cardinality(InEnqueue') <= MaxCallers /\ Cardinality(Adding) <= MaxCallers - 1
      BY <1>1, <2>2, CallersFinite
    <2>4. Cardinality(Adding) * LargestSize <= (MaxCallers - 1) * LargestSize
      BY <2>3, CallersFinite, SizesAddUp
    <2>5. Cardinality(Adding') - 1 = Cardinality(Adding)
      BY <2>2, CallersFinite
    <2>6. consumingRAM + Size[c] <= RamCap
      BY <1>1, <1>4, LargestSizeBounds
    <2>7. /\ Cardinality(Adding) * LargestSize \in Int
          /\ (MaxCallers - 1) * LargestSize \in Int
      BY CallersFinite, SizesAddUp
    <2>8. consumingRAM' + Size[c] + (Cardinality(Adding') - 1) * LargestSize <= Overshoot
      BY <1>1, <2>4, <2>5, <2>6, <2>7, LargestSizeBounds DEF Overshoot
    <2>9. consumingRAM' <= Overshoot
      BY <1>1 DEF RamInv
    <2>10. QED
      BY <2>1, <2>3, <2>8, <2>9 DEF RamInv, Overshoot, LargestSize
  <1>5. QED
    BY <1>3, <1>4

LEMMA CountKeepsRam ==
  ASSUME TypeOK, RamInv, NEW d \in Calls, EnqueueCount(d)
  PROVE  RamInv'
  <1>1. /\ callState[d] = "pushed" /\ callState' = [callState EXCEPT ![d] = "counted"]
        /\ consumingRAM' = consumingRAM + Size[d] /\ consumingRAM \in Int
    BY DEF EnqueueCount, TypeOK
  <1>2. InEnqueue' = InEnqueue
    BY <1>1 DEF InEnqueue, TypeOK
  <1>3. Adding' = Adding \ {d} /\ d \in Adding
    BY <1>1 DEF Adding, TypeOK
  <1>4. Cardinality(Adding') = Cardinality(Adding) - 1 /\ Cardinality(Adding) >= 1
    <2>1. Cardinality(Adding) # 0
      BY <1>3, CallersFinite, FS_EmptySet
    <2>2. Cardinality(Adding \ {d}) = Cardinality(Adding) - 1
      BY <1>3, CallersFinite, FS_RemoveElement
    <2>3. QED
      BY <1>3, <2>1, <2>2, CallersFinite
  <1>5. PICK c \in Adding :
            consumingRAM + Size[c] + (Cardinality(Adding) - 1) * LargestSize <= Overshoot
    BY <1>3 DEF RamInv
  <1> DEFINE n == Cardinality(Adding)
  <1>6. /\ (n - 1) * LargestSize \in Int /\ (n - 2) * LargestSize \in Int
        /\ (n - 1) * LargestSize = (n - 2) * LargestSize + LargestSize
    <2>1. n - 1 = (n - 2) + 1 /\ n - 2 \in Int
      BY CallersFinite
    <2>2. QED
      BY <2>1, SizesAddUp
  <1>7. 0 <= (n - 1) * LargestSize
    BY <1>4, CallersFinite, SizesAddUp
  <1>8. Adding \subseteq Calls
    BY DEF Adding
  <1>9. /\ Size[c] \in Nat /\ Size[d] \in Nat /\ LargestSize \in Nat /\ Overshoot \in Int
        /\ Size[c] <= LargestSize /\ Size[d] <= LargestSize
    BY <1>8, LargestSizeBounds, SizesAddUp
  <1> DEFINE m1 == (n - 1) * LargestSize
             m2 == (n - 2) * LargestSize
  <1>10. /\ m1 \in Int /\ m2 \in Int /\ m1 = m2 + LargestSize /\ 0 <= m1
         /\ consumingRAM + Size[c] + m1 <= Overshoot
    BY <1>5, <1>6, <1>7
  <1>11. (Cardinality(Adding') - 1) * LargestSize = m2
    BY <1>4, CallersFinite
  <1>12. CASE c = d
    <2>1. consumingRAM' <= Overshoot
      <3> HIDE DEF m1, m2
      <3>1. QED
        BY <1>1, <1>9, <1>10, <1>12
    <2>2. ASSUME NEW e \in Adding'
          PROVE  consumingRAM' + Size[e] + m2 <= Overshoot
      <3>1. Size[e] \in Nat /\ Size[e] <= LargestSize
        BY <1>3, <1>8, LargestSizeBounds
      <3> HIDE DEF m1, m2
      <3>2. QED
        BY <1>1, <1>9, <1>10, <1>12, <3>1
    <2>3. QED
      BY <1>2, <1>11, <2>1, <2>2 DEF RamInv, Overshoot, LargestSize
  <1>13. CASE c # d
    <2>1. c \in Adding'
      BY <1>3, <1>13
    <2>2. n >= 2
      <3>1. Cardinality(Adding') >= 1
        <4>1. IsFiniteSet(Adding') /\ Adding' # {}
          BY <1>3, <2>1, CallersFinite, FS_Subset
        <4>2. QED
          BY <4>1, FS_CardinalityType, FS_EmptySet
      <3>2. QED
        BY <1>4, <3>1, CallersFinite
    <2>3. 0 <= m2
      BY <2>2, CallersFinite, SizesAddUp
    <2>4. consumingRAM' + Size[c] + m2 <= Overshoot
      <3> HIDE DEF m1, m2
      <3>1. QED
        BY <1>1, <1>9, <1>10
    <2>5. consumingRAM' <= Overshoot
      <3> HIDE DEF m1, m2
      <3>1. QED
        BY <1>1, <1>9, <1>10, <2>3, <2>4
    <2>6. QED
      BY <1>2, <1>11, <2>1, <2>4, <2>5 DEF RamInv, Overshoot, LargestSize
  <1>14. QED
    BY <1>12, <1>13

\* The other steps admit no call and add nothing.
LEMMA OthersKeepRam ==
  ASSUME RamInv, consumingRAM \in Int, consumingRAM' \in Int, consumingRAM' <= consumingRAM,
         Adding' = Adding, InEnqueue' \subseteq InEnqueue
  PROVE  RamInv'
  <1>1. Cardinality(InEnqueue') <= Cardinality(InEnqueue)
    BY CallersFinite, FS_Subset
  <1>2. Cardinality(InEnqueue') <= MaxCallers
    BY <1>1, CallersFinite DEF RamInv
  <1>3. consumingRAM' <= Overshoot
    BY SizesAddUp DEF RamInv
  <1>4. ASSUME NEW c \in Adding,
               consumingRAM + Size[c] + (Cardinality(Adding) - 1) * LargestSize <= Overshoot
        PROVE  consumingRAM' + Size[c] + (Cardinality(Adding) - 1) * LargestSize <= Overshoot
    <2> DEFINE m == (Cardinality(Adding) - 1) * LargestSize
    <2>1. m \in Int /\ Size[c] \in Nat /\ Overshoot \in Int
      BY CallersFinite, SizesAddUp, LargestSizeBounds DEF Adding
    <2> HIDE DEF m
    <2>2. consumingRAM + Size[c] + m <= Overshoot
      BY <1>4 DEF m
    <2>3. consumingRAM' + Size[c] + m <= Overshoot
      BY <2>1, <2>2
    <2>4. QED
      BY <2>3 DEF m
  <1>5. QED
    BY <1>2, <1>3, <1>4 DEF RamInv, Overshoot, LargestSize

LEMMA RamNext ==
  ASSUME IndInv, RamInv, [Next]_vars
  PROVE  RamInv'
  <1>1. TypeOK /\ consumingRAM \in Int
    BY DEF IndInv, TypeOK
  <1>2. CASE UNCHANGED vars
    BY <1>1, <1>2, OthersKeepRam DEF vars, Adding, InEnqueue
  <1>3. ASSUME NEW c \in Calls, EnqueuePush(c) \/ EnqueueNotify(c)
        PROVE  RamInv'
    <2>1. consumingRAM' = consumingRAM /\ Adding' = Adding /\ InEnqueue' \subseteq InEnqueue
      BY <1>1, <1>3 DEF TypeOK, EnqueuePush, EnqueueNotify, Adding, InEnqueue
    <2>2. QED
      BY <1>1, <2>1, OthersKeepRam
  <1>4. ASSUME NEW w \in Workers, WorkerStep(w)
        PROVE  RamInv'
    <2>1. Adding' = Adding /\ InEnqueue' \subseteq InEnqueue
      BY <1>4 DEF WorkerStep, Receive, DequeuePop, DequeueReturn, Adding, InEnqueue
    <2>2. consumingRAM' \in Int /\ consumingRAM' <= consumingRAM
      <3>1. CASE DequeueReturn(w)
        <4>1. hand[w] \in Calls
          BY <1>1, <3>1 DEF IndInv, TypeOK, Placement, DequeueReturn
        <4>2. QED
          BY <1>1, <3>1, <4>1, LargestSizeBounds DEF DequeueReturn
      <3>2. CASE Receive(w) \/ DequeuePop(w)
        BY <1>1, <3>2 DEF Receive, DequeuePop
      <3>3. QED
        BY <1>4, <3>1, <3>2 DEF WorkerStep
    <2>3. QED
      BY <1>1, <2>1, <2>2, OthersKeepRam
  <1>5. QED
    BY <1>1, <1>2, <1>3, <1>4, CheckKeepsRam, CountKeepsRam DEF Next, EnqueueStep

\* Concurrent callers, all past the check before any has added its size,
\* exceed the cap by less than one largest job per other caller (Enqueue,
\* lines 194-220), whatever the sizes and however many workers take jobs.
THEOREM RamBounded == Spec => []RamOvershootBounded
  <1>1. Init => RamInv
    <2> SUFFICES ASSUME Init PROVE RamInv
      OBVIOUS
    <2>1. InEnqueue = {} /\ Adding = {} /\ consumingRAM = 0
      BY DEF Init, InEnqueue, Adding
    <2>2. 0 <= Overshoot
      BY SizesAddUp
    <2>3. QED
      BY <2>1, <2>2, FS_EmptySet DEF RamInv
  <1>2. RamInv => RamOvershootBounded
    BY DEF RamInv, RamOvershootBounded, Overshoot
  <1>3. QED
    BY <1>1, <1>2, RamNext, Inductive, PTL DEF Spec
=============================================================================
