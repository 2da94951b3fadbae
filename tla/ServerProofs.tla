---------------------------- MODULE ServerProofs ----------------------------
(***************************************************************************)
(* What the server around the jobs guarantees: its rate limiter, for any   *)
(* number of clients and requests, any rate and burst, and however long it *)
(* runs; and its pool of workers, for any limits, jobs and calls of Scale, *)
(* alone and in a Server that gets signals.                                *)
(***************************************************************************)
EXTENDS Server, RateLimiter, FiniteSetTheorems, TLAPS

-----------------------------------------------------------------------------
(* The rate limiter                                                        *)

USE RateAssumption, RequestsAssumption

\* Buckets in use were made, belong to one client, and a bucket that was not
\* made yet has let nothing through.
Ownership ==
    /\ \A r \in Requests :
          /\ phase[r] = "holds" => mine[r] \in Requests
          /\ phase[r] \in {"new", "missed"} => mine[r] = NoBucket
          /\ mine[r] # NoBucket => /\ mine[mine[r]] = mine[r]
                                   /\ client[mine[r]] = client[r]
          /\ mine[r] # r => admitted[r] = 0 /\ tokens[r] = 0
          /\ lastRefill[r] <= now /\ born[r] <= lastRefill[r]
    /\ \A c \in Clients : buckets[c] # NoBucket => /\ mine[buckets[c]] = buckets[c]
                                                   /\ client[buckets[c]] = c
    /\ sweeping # {} => cutoff <= now - Idle

\* What a client got is covered by its present bucket, or by the time gone by
\* when it has none: an evicted bucket would have been full.
Covered(c) ==
    /\ buckets[c] = NoBucket => steady[c] * Minute <= RequestsPerMin * now
    /\ buckets[c] # NoBucket =>
          steady[c] * Minute + tokens[buckets[c]]
              <= Capacity + RequestsPerMin * lastRefill[buckets[c]]

IndInv ==
    /\ TypeOK
    /\ Ownership
    /\ BucketWithinRate
    /\ Capacity <= RequestsPerMin * Idle => \A c \in Clients : Covered(c)

LEMMA CapacityType == Burst \in Nat /\ Capacity \in Nat /\ Idle \in Nat
  BY DEF Burst, Capacity, Idle

LEMMA RateIsLinear ==
  /\ \A a, b \in Int : RequestsPerMin * (a - b) = RequestsPerMin * a - RequestsPerMin * b
  /\ \A a, b \in Int : a <= b => RequestsPerMin * a <= RequestsPerMin * b
  /\ \A a \in Int : RequestsPerMin * a \in Int
  /\ \A a \in Int : a * Minute \in Int /\ (a + 1) * Minute = a * Minute + Minute
  /\ 0 * Minute = 0 /\ RequestsPerMin * 0 = 0
  <1>1. \A m, a, b \in Int : m * (a - b) = m * a - m * b
    BY SMT
  <1>2. \A m \in Nat : \A a, b \in Int : a <= b => m * a <= m * b
    BY SMT
  <1>3. \A m, a \in Int : a * m \in Int /\ (a + 1) * m = a * m + m /\ 0 * m = 0 /\ m * 0 = 0
    BY SMT
  <1>4. \A m, a \in Int : m * a \in Int
    BY SMT
  <1>5. RequestsPerMin \in Nat /\ Minute \in Nat /\ RequestsPerMin \in Int /\ Minute \in Int
    BY SMT
  <1>6. QED
    BY <1>1, <1>2, <1>3, <1>4, <1>5, Zenon

LEMMA InitIndInv == Init => IndInv
  BY RateIsLinear, CapacityType
  DEF Init, IndInv, TypeOK, Ownership, BucketWithinRate, Covered

\* A request asks its bucket.
LEMMA AllowStep ==
  ASSUME IndInv, NEW r \in Requests, Allow(r)
  PROVE  IndInv'
  <1> DEFINE b == mine[r]
             c == client[r]
             ok == Refilled(b) >= Minute
             came == RequestsPerMin * (now - lastRefill[b])
  <1>1. /\ b \in Requests /\ c \in Clients /\ mine[b] = b /\ client[b] = c
        /\ lastRefill[b] \in Int /\ now \in Int /\ lastRefill[b] <= now /\ tokens[b] \in Nat
        /\ admitted[b] \in Nat /\ steady[c] \in Nat /\ strays[c] \in Nat /\ born[b] \in Int
    BY DEF IndInv, TypeOK, Ownership, Allow
  <1>2. came \in Nat
    BY <1>1, RateIsLinear
  <1>3. Refilled(b) \in Nat /\ Refilled(b) <= tokens[b] + came
    BY <1>1, <1>2, CapacityType DEF Refilled
  <1>4. /\ came = RequestsPerMin * now - RequestsPerMin * lastRefill[b]
        /\ RequestsPerMin * (now - born[b]) = RequestsPerMin * now - RequestsPerMin * born[b]
        /\ RequestsPerMin * (lastRefill[b] - born[b])
              = RequestsPerMin * lastRefill[b] - RequestsPerMin * born[b]
        /\ RequestsPerMin * now \in Int /\ RequestsPerMin * lastRefill[b] \in Int
        /\ RequestsPerMin * born[b] \in Int
    BY <1>1, RateIsLinear
  <1>5. /\ admitted[b] * Minute \in Int /\ (admitted[b] + 1) * Minute = admitted[b] * Minute + Minute
        /\ steady[c] * Minute \in Int /\ (steady[c] + 1) * Minute = steady[c] * Minute + Minute
    <2>1. admitted[b] \in Int /\ steady[c] \in Int
      BY <1>1
    <2>2. QED
      BY <2>1, RateIsLinear
  <1>6. TypeOK'
    BY <1>1, <1>3 DEF IndInv, TypeOK, Allow, held
  <1>7. Ownership'
    BY <1>1 DEF IndInv, TypeOK, Ownership, Allow, held
  <1>8. BucketWithinRate'
    <2> SUFFICES ASSUME NEW d \in Requests
                 PROVE  (admitted[d] * Minute + tokens[d]
                           <= Capacity + RequestsPerMin * (lastRefill[d] - born[d]))'
      BY DEF BucketWithinRate
    <2>1. CASE d # b
      BY <2>1 DEF IndInv, TypeOK, BucketWithinRate, Allow, Capacity, Burst
    <2>2. CASE d = b
      <3>1. admitted[b] * Minute + tokens[b] <= Capacity + RequestsPerMin * (lastRefill[b] - born[b])
        BY <1>1 DEF IndInv, BucketWithinRate
      <3>2. CASE ok
        <4>1. /\ admitted'[b] = admitted[b] + 1 /\ tokens'[b] = Refilled(b) - Minute
              /\ lastRefill'[b] = now /\ born'[b] = born[b]
          BY <1>1, <3>2 DEF IndInv, TypeOK, Allow
        <4>2. QED
          BY <1>1, <1>2, <1>3, <1>4, <1>5, <2>2, <3>1, <4>1, CapacityType DEF Capacity, Burst
      <3>3. CASE ~ok
        <4>1. /\ admitted'[b] = admitted[b] /\ tokens'[b] = Refilled(b)
              /\ lastRefill'[b] = now /\ born'[b] = born[b]
          BY <1>1, <3>3 DEF IndInv, TypeOK, Allow
        <4>2. QED
          BY <1>1, <1>2, <1>3, <1>4, <1>5, <2>2, <3>1, <4>1, CapacityType DEF Capacity, Burst
      <3>4. QED
        BY <3>2, <3>3
    <2>3. QED
      BY <2>1, <2>2
  <1>9. ASSUME Capacity <= RequestsPerMin * Idle, NEW d \in Clients
        PROVE  Covered(d)'
    <2>1. Covered(d) /\ Covered(c)
      BY <1>1, <1>9 DEF IndInv
    <2>2. CASE buckets[d] = b
      <3>1. d = c /\ buckets[c] = b
        BY <1>1, <2>2 DEF IndInv, TypeOK, Ownership
      <3>2. steady[c] * Minute + tokens[b] <= Capacity + RequestsPerMin * lastRefill[b]
        BY <1>1, <2>1, <3>1 DEF Covered
      <3>3. CASE ok
        <4>1. /\ steady'[c] = steady[c] + 1 /\ tokens'[b] = Refilled(b) - Minute
              /\ lastRefill'[b] = now /\ buckets'[c] = b
          BY <1>1, <3>1, <3>3 DEF IndInv, TypeOK, Allow, held
        <4>2. QED
          BY <1>1, <1>2, <1>3, <1>4, <1>5, <3>1, <3>2, <4>1, CapacityType
          DEF Covered, Capacity, Burst
      <3>4. CASE ~ok
        <4>1. /\ steady'[c] = steady[c] /\ tokens'[b] = Refilled(b)
              /\ lastRefill'[b] = now /\ buckets'[c] = b
          BY <1>1, <3>1, <3>4 DEF IndInv, TypeOK, Allow, held
        <4>2. QED
          BY <1>1, <1>2, <1>3, <1>4, <1>5, <3>1, <3>2, <4>1, CapacityType
          DEF Covered, Capacity, Burst
      <3>5. QED
        BY <3>3, <3>4
    <2>3. CASE buckets[d] # b
      <3>1. /\ steady'[d] = steady[d] /\ buckets'[d] = buckets[d] /\ now' = now
            /\ buckets[d] # NoBucket => /\ tokens'[buckets[d]] = tokens[buckets[d]]
                                        /\ lastRefill'[buckets[d]] = lastRefill[buckets[d]]
        BY <1>1, <2>3 DEF IndInv, TypeOK, Allow, held
      <3>2. QED
        BY <2>1, <3>1 DEF Covered, Capacity, Burst
    <2>4. QED
      BY <2>2, <2>3
  <1>10. QED
    BY <1>6, <1>7, <1>8, <1>9 DEF IndInv, Capacity, Burst, Idle

\* The map has no bucket for the client: a full one is made.
LEMMA EnterStep ==
  ASSUME IndInv, NEW r \in Requests, CreateBucket(r), buckets[client[r]] = NoBucket, Enter(r)
  PROVE  IndInv'
  <1> DEFINE c == client[r]
  <1>1. /\ c \in Clients /\ now \in Int /\ mine[r] = NoBucket /\ mine[r] # r
        /\ admitted[r] = 0 /\ steady[c] \in Nat
    BY DEF IndInv, TypeOK, Ownership, CreateBucket
  <1>2. TypeOK'
    BY <1>1, CapacityType DEF IndInv, TypeOK, CreateBucket, Enter, history
  <1>3. Ownership'
    BY <1>1 DEF IndInv, TypeOK, Ownership, CreateBucket, Enter, history
  <1>4. BucketWithinRate'
    <2> SUFFICES ASSUME NEW d \in Requests
                 PROVE  (admitted[d] * Minute + tokens[d]
                           <= Capacity + RequestsPerMin * (lastRefill[d] - born[d]))'
      BY DEF BucketWithinRate
    <2>1. CASE d # r
      BY <2>1 DEF IndInv, TypeOK, BucketWithinRate, CreateBucket, Enter, history, Capacity, Burst
    <2>2. CASE d = r
      <3>1. admitted'[r] = 0 /\ tokens'[r] = Capacity /\ lastRefill'[r] - born'[r] = 0
        BY <1>1 DEF IndInv, TypeOK, CreateBucket, Enter, history
      <3>2. /\ admitted'[r] * Minute = 0
            /\ RequestsPerMin * (lastRefill'[r] - born'[r]) = 0
        BY <3>1, RateIsLinear, Zenon
      <3>3. Capacity' = Capacity
        BY DEF Capacity, Burst
      <3>4. Capacity \in Nat
        BY CapacityType
      <3>5. QED
        BY <2>2, <3>1, <3>2, <3>3, <3>4
    <2>3. QED
      BY <2>1, <2>2
  <1>5. ASSUME Capacity <= RequestsPerMin * Idle, NEW d \in Clients
        PROVE  Covered(d)'
    <2>1. Covered(d)
      BY <1>5 DEF IndInv
    <2>2. CASE d = c
      <3>1. /\ steady'[d] = steady[d] /\ buckets'[d] = r /\ tokens'[r] = Capacity
            /\ lastRefill'[r] = now /\ r # NoBucket
        BY <1>1, <2>2 DEF IndInv, TypeOK, CreateBucket, Enter, history
      <3>2. steady[d] * Minute <= RequestsPerMin * now
        BY <2>1, <2>2 DEF Covered
      <3>3. steady[d] * Minute \in Int /\ RequestsPerMin * now \in Int
        <4>1. steady[d] \in Int /\ now \in Int
          BY <1>1, <2>2
        <4>2. QED
          BY <4>1, RateIsLinear
      <3>4. QED
        BY <3>1, <3>2, <3>3, CapacityType DEF Covered, Capacity, Burst
    <2>3. CASE d # c
      <3>1. /\ steady'[d] = steady[d] /\ buckets'[d] = buckets[d] /\ now' = now
            /\ buckets[d] # r
            /\ buckets[d] # NoBucket => /\ tokens'[buckets[d]] = tokens[buckets[d]]
                                        /\ lastRefill'[buckets[d]] = lastRefill[buckets[d]]
        BY <1>1, <2>3 DEF IndInv, TypeOK, Ownership, CreateBucket, Enter, history
      <3>2. QED
        BY <2>1, <3>1 DEF Covered, Capacity, Burst
    <2>4. QED
      BY <2>2, <2>3
  <1>6. QED
    BY <1>2, <1>3, <1>4, <1>5 DEF IndInv, Capacity, Burst, Idle

\* The cleanup evicts a bucket only when it would be full again.
LEMMA VisitStep ==
  ASSUME IndInv, NEW c \in Clients, Visit(c)
  PROVE  IndInv'
  <1>1. TypeOK'
    BY DEF IndInv, TypeOK, Visit, history
  <1>2. Ownership'
    BY DEF IndInv, TypeOK, Ownership, Visit, history, Idle
  <1>3. BucketWithinRate'
    BY DEF IndInv, BucketWithinRate, Visit, history, Capacity, Burst
  <1>4. ASSUME Capacity <= RequestsPerMin * Idle, NEW d \in Clients
        PROVE  Covered(d)'
    <2>1. Covered(d)
      BY <1>4 DEF IndInv
    <2>2. CASE d = c /\ buckets[c] # NoBucket /\ Expired(buckets[c])
      <3> DEFINE b == buckets[c]
      <3>1. /\ b \in Requests /\ lastRefill[b] \in Int /\ now \in Int /\ tokens[b] \in Nat
            /\ steady[c] \in Nat /\ cutoff \in Int /\ cutoff <= now - Idle
        BY <2>2 DEF IndInv, TypeOK, Ownership, Visit
      <3>2. lastRefill[b] + Idle <= now
        BY <2>2, <3>1, CapacityType DEF Expired
      <3>3. /\ Idle <= now - lastRefill[b] /\ now - lastRefill[b] \in Int /\ Idle \in Int
        BY <3>1, <3>2, CapacityType
      <3>4. RequestsPerMin * Idle <= RequestsPerMin * (now - lastRefill[b])
        BY <3>3, RateIsLinear
      <3>5. RequestsPerMin * (now - lastRefill[b])
                = RequestsPerMin * now - RequestsPerMin * lastRefill[b]
        BY <3>1, RateIsLinear
      <3>6. /\ RequestsPerMin * now \in Int /\ RequestsPerMin * lastRefill[b] \in Int
            /\ RequestsPerMin * Idle \in Int /\ steady[c] * Minute \in Int
        BY <3>1, CapacityType, RateIsLinear
      <3>7. steady[c] * Minute + tokens[b] <= Capacity + RequestsPerMin * lastRefill[b]
        BY <2>1, <2>2 DEF Covered
      <3>8. steady[c] * Minute <= RequestsPerMin * now
        <4> HIDE DEF b
        <4>1. QED
          BY <1>4, <3>1, <3>4, <3>5, <3>6, <3>7, CapacityType
      <3>9. buckets'[c] = NoBucket /\ steady' = steady /\ now' = now
        BY <2>2 DEF IndInv, TypeOK, Visit, history
      <3>10. QED
        BY <2>2, <3>8, <3>9 DEF Covered
    <2>3. CASE ~(d = c /\ buckets[c] # NoBucket /\ Expired(buckets[c]))
      <3>1. buckets'[d] = buckets[d]
        BY <2>3 DEF IndInv, TypeOK, Visit
      <3>2. QED
        BY <2>1, <3>1 DEF Covered, Visit, history, Capacity, Burst
    <2>4. QED
      BY <2>2, <2>3
  <1>5. QED
    BY <1>1, <1>2, <1>3, <1>4 DEF IndInv, Capacity, Burst, Idle

LEMMA NextIndInv ==
  ASSUME IndInv, [Next]_vars
  PROVE  IndInv'
  <1>1. CASE Tick
    <2>1. \A c \in Clients : Capacity <= RequestsPerMin * Idle /\ Covered(c) => Covered(c)'
      <3>1. /\ now \in Int /\ now' = now + 1 /\ \A c \in Clients : steady[c] * Minute \in Int
            /\ RequestsPerMin * now <= RequestsPerMin * now'
            /\ RequestsPerMin * now \in Int /\ RequestsPerMin * now' \in Int
        BY <1>1, RateIsLinear DEF IndInv, TypeOK, Tick
      <3>2. QED
        BY <1>1, <3>1 DEF Covered, Tick, held, history, Capacity, Burst
    <2>2. TypeOK' /\ Ownership' /\ BucketWithinRate'
      BY <1>1 DEF IndInv, TypeOK, Ownership, BucketWithinRate, Tick, held, history,
                  Capacity, Burst, Idle
    <2>3. QED
      BY <2>1, <2>2 DEF IndInv, Capacity, Burst, Idle
  <1>2. ASSUME NEW r \in Requests, Lookup(r)
        PROVE  IndInv'
    <2>1. TypeOK' /\ Ownership'
      BY <1>2 DEF IndInv, TypeOK, Ownership, Lookup, held, history, Idle
    <2>2. BucketWithinRate' /\ \A c \in Clients : Covered(c) => Covered(c)'
      BY <1>2 DEF IndInv, BucketWithinRate, Covered, Lookup, held, history, Capacity, Burst
    <2>3. QED
      BY <2>1, <2>2 DEF IndInv, Capacity, Burst, Idle
  <1>3. ASSUME NEW r \in Requests, CreateBucket(r)
        PROVE  IndInv'
    <2>1. CASE buckets[client[r]] = NoBucket /\ Enter(r)
      BY <1>3, <2>1, EnterStep
    <2>2. CASE /\ buckets[client[r]] # NoBucket
               /\ mine' = [mine EXCEPT ![r] = buckets[client[r]]]
               /\ UNCHANGED <<buckets, tokens, lastRefill, born>>
      <3>1. TypeOK' /\ Ownership'
        BY <1>3, <2>2 DEF IndInv, TypeOK, Ownership, CreateBucket, history, Idle
      <3>2. BucketWithinRate' /\ \A c \in Clients : Covered(c) => Covered(c)'
        BY <1>3, <2>2 DEF IndInv, BucketWithinRate, Covered, CreateBucket, history,
                          Capacity, Burst
      <3>3. QED
        BY <3>1, <3>2 DEF IndInv, Capacity, Burst, Idle
    <2>3. QED
      BY <1>3, <2>1, <2>2 DEF CreateBucket
  <1>4. CASE StartCleanup
    <2>1. TypeOK' /\ Ownership'
      BY <1>4, CapacityType DEF IndInv, TypeOK, Ownership, StartCleanup, history, Idle
    <2>2. BucketWithinRate' /\ \A c \in Clients : Covered(c) => Covered(c)'
      BY <1>4 DEF IndInv, BucketWithinRate, Covered, StartCleanup, history, Capacity, Burst
    <2>3. QED
      BY <2>1, <2>2 DEF IndInv, Capacity, Burst, Idle
  <1>5. CASE UNCHANGED vars
    <2>1. TypeOK' /\ Ownership'
      BY <1>5 DEF IndInv, TypeOK, Ownership, vars, Idle
    <2>2. BucketWithinRate' /\ \A c \in Clients : Covered(c) => Covered(c)'
      BY <1>5 DEF IndInv, BucketWithinRate, Covered, vars, Capacity, Burst
    <2>3. QED
      BY <2>1, <2>2 DEF IndInv, Capacity, Burst, Idle
  <1>6. QED
    BY <1>1, <1>2, <1>3, <1>4, <1>5, AllowStep, VisitStep DEF Next

LEMMA IndInvHolds == Spec => []IndInv
  BY InitIndInv, NextIndInv, PTL DEF Spec

\* However requests and the cleanup interleave, the variables have their types
\* (tokens are never negative, lines 52-58).
THEOREM TypeCorrect == Spec => []TypeOK
  <1>1. IndInv => TypeOK
    BY DEF IndInv
  <1>2. QED
    BY <1>1, IndInvHolds, PTL

\* No bucket lets through more than it was made with and what came in since
\* (allow, lines 43-61).
THEOREM BucketsKeepTheRate == Spec => []BucketWithinRate
  <1>1. IndInv => BucketWithinRate
    BY DEF IndInv
  <1>2. QED
    BY <1>1, IndInvHolds, PTL

\* Evicting buckets that are idle gives a client nothing (cleanupLoop, lines
\* 113-130): a bucket is evicted only when it would be full.
THEOREM ClientsKeepTheRate == Spec => []ClientWithinRate
  <1>1. IndInv => ClientWithinRate
    <2> SUFFICES ASSUME IndInv, Capacity <= RequestsPerMin * Idle, NEW c \in Clients
                 PROVE  steady[c] * Minute <= Capacity + RequestsPerMin * now
      BY DEF ClientWithinRate
    <2>1. Covered(c) /\ now \in Int /\ steady[c] \in Nat
      BY DEF IndInv, TypeOK
    <2>2. steady[c] * Minute \in Int /\ RequestsPerMin * now \in Int
      BY <2>1, RateIsLinear
    <2>3. CASE buckets[c] = NoBucket
      BY <2>1, <2>2, <2>3, CapacityType DEF Covered
    <2>4. CASE buckets[c] # NoBucket
      <3> DEFINE b == buckets[c]
      <3>1. b \in Requests /\ lastRefill[b] \in Int /\ lastRefill[b] <= now /\ tokens[b] \in Nat
        BY <2>4 DEF IndInv, TypeOK, Ownership
      <3>2. RequestsPerMin * lastRefill[b] <= RequestsPerMin * now
            /\ RequestsPerMin * lastRefill[b] \in Int
        BY <2>1, <3>1, RateIsLinear
      <3>3. steady[c] * Minute + tokens[b] <= Capacity + RequestsPerMin * lastRefill[b]
        BY <2>1, <2>4 DEF Covered
      <3> HIDE DEF b
      <3>4. QED
        BY <2>2, <3>1, <3>2, <3>3, CapacityType
    <2>5. QED
      BY <2>3, <2>4
  <1>2. QED
    BY <1>1, IndInvHolds, PTL
-----------------------------------------------------------------------------
\* The requests a bucket has let through since t.
Recent(b, t) ==
    {q \in Requests : phase[q] = "allowed" /\ mine[q] = b /\ answeredAt[q] > t}

\* x units are a full bucket, or what comes in within a span of time.
Enough(x, span) == Capacity <= x \/ RequestsPerMin * span <= x

\* From any time on, what a bucket let through and what it holds is a full
\* bucket or what came in since: nothing is lost but what does not fit.
NothingLost ==
    /\ \A q \in Requests : phase[q] = "allowed" =>
          mine[q] \in Requests /\ answeredAt[q] <= lastRefill[mine[q]]
    /\ \A b \in Requests : mine[b] = b =>
          \A t \in Int : t <= lastRefill[b] =>
              Enough(tokens[b] + Cardinality(Recent(b, t)) * Minute, lastRefill[b] - t)

LEMMA RecentIsFinite ==
  ASSUME NEW b, NEW t
  PROVE  IsFiniteSet(Recent(b, t)) /\ Cardinality(Recent(b, t)) \in Nat
  BY FS_Subset, FS_CardinalityType DEF Recent

\* The same of a bucket that has just been refilled.
LEMMA RefilledIsEnough ==
  ASSUME IndInv, NothingLost, NEW b \in Requests, mine[b] = b, NEW t \in Int, t <= now
  PROVE  Enough(Refilled(b) + Cardinality(Recent(b, t)) * Minute, now - t)
  <1> DEFINE let == Cardinality(Recent(b, t)) * Minute
             came == RequestsPerMin * (now - lastRefill[b])
  <1>1. /\ lastRefill[b] \in Int /\ now \in Int /\ lastRefill[b] <= now /\ tokens[b] \in Nat
    BY DEF IndInv, TypeOK, Ownership
  <1>2. Cardinality(Recent(b, t)) \in Nat
    BY RecentIsFinite
  <1>3. let \in Int /\ 0 <= let
    <2>1. \A m, n \in Nat : m * n \in Nat
      BY SMT
    <2>2. QED
      BY <1>2, <2>1
  <1>4. /\ came = RequestsPerMin * now - RequestsPerMin * lastRefill[b]
        /\ RequestsPerMin * (now - t) = RequestsPerMin * now - RequestsPerMin * t
        /\ RequestsPerMin * (lastRefill[b] - t)
              = RequestsPerMin * lastRefill[b] - RequestsPerMin * t
        /\ RequestsPerMin * now \in Int /\ RequestsPerMin * lastRefill[b] \in Int
        /\ RequestsPerMin * t \in Int /\ came \in Int
        /\ RequestsPerMin * lastRefill[b] <= RequestsPerMin * now
    BY <1>1, RateIsLinear
  <1>5. Refilled(b) = (IF tokens[b] + came > Capacity THEN Capacity ELSE tokens[b] + came)
    BY DEF Refilled
  <1>6. CASE t <= lastRefill[b]
    <2>1. \/ Capacity <= tokens[b] + let
          \/ RequestsPerMin * (lastRefill[b] - t) <= tokens[b] + let
      BY <1>6 DEF NothingLost, Enough
    <2> HIDE DEF let, came
    <2>2. \/ Capacity <= Refilled(b) + let
          \/ RequestsPerMin * (now - t) <= Refilled(b) + let
      BY <1>1, <1>3, <1>4, <1>5, <2>1, CapacityType
    <2>3. QED
      BY <2>2 DEF Enough, let
  <1>7. CASE lastRefill[b] < t
    <2>1. RequestsPerMin * lastRefill[b] <= RequestsPerMin * t
      BY <1>1, <1>7, RateIsLinear
    <2> HIDE DEF let, came
    <2>2. \/ Capacity <= Refilled(b) + let
          \/ RequestsPerMin * (now - t) <= Refilled(b) + let
      BY <1>1, <1>3, <1>4, <1>5, <2>1, CapacityType
    <2>3. QED
      BY <2>2 DEF Enough, let
  <1>8. QED
    BY <1>1, <1>6, <1>7

LEMMA AllowLosesNothing ==
  ASSUME IndInv, NothingLost, NEW r \in Requests, Allow(r)
  PROVE  NothingLost'
  <1> DEFINE b == mine[r]
             ok == Refilled(b) >= Minute
  <1>1. /\ b \in Requests /\ mine[b] = b /\ now \in Int /\ tokens[b] \in Nat
        /\ lastRefill[b] <= now /\ lastRefill[b] \in Int /\ phase[r] = "holds"
    BY DEF IndInv, TypeOK, Ownership, Allow
  <1>2. /\ mine' = mine /\ now' = now /\ lastRefill'[b] = now
        /\ tokens'[b] = IF ok THEN Refilled(b) - Minute ELSE Refilled(b)
        /\ \A d \in Requests \ {b} : tokens'[d] = tokens[d] /\ lastRefill'[d] = lastRefill[d]
        /\ answeredAt'[r] = now /\ phase'[r] = (IF ok THEN "allowed" ELSE "refused")
        /\ \A q \in Requests \ {r} : answeredAt'[q] = answeredAt[q] /\ phase'[q] = phase[q]
    BY <1>1 DEF IndInv, TypeOK, Allow, held
  <1>3. \A q \in Requests : phase'[q] = "allowed" =>
            mine'[q] \in Requests /\ answeredAt'[q] <= lastRefill'[mine'[q]]
    <2> SUFFICES ASSUME NEW q \in Requests, phase'[q] = "allowed"
                 PROVE  mine[q] \in Requests /\ answeredAt'[q] <= lastRefill'[mine[q]]
      BY <1>2
    <2>1. CASE q = r
      BY <1>1, <1>2, <2>1
    <2>2. CASE q # r
      <3>1. mine[q] \in Requests /\ answeredAt[q] <= lastRefill[mine[q]] /\ answeredAt[q] \in Int
        BY <1>2, <2>2 DEF NothingLost, IndInv, TypeOK
      <3>2. QED
        BY <1>1, <1>2, <2>2, <3>1
    <2>3. QED
      BY <2>1, <2>2
  <1>4. ASSUME NEW d \in Requests, mine'[d] = d, NEW t \in Int, t <= lastRefill'[d]
        PROVE  Enough(tokens[d] + Cardinality(Recent(d, t)) * Minute, lastRefill[d] - t)'
    <2>1. CASE d # b
      <3>1. Recent(d, t)' = Recent(d, t)
        BY <1>2, <1>1, <2>1 DEF Recent
      <3>2. QED
        BY <1>2, <1>4, <2>1, <3>1 DEF NothingLost, Enough, Capacity, Burst
    <2>2. CASE d = b
      <3> DEFINE n == Cardinality(Recent(b, t))
      <3>1. t <= now /\ Enough(Refilled(b) + n * Minute, now - t)
        BY <1>1, <1>2, <1>4, <2>2, RefilledIsEnough
      <3>2. n \in Nat /\ IsFiniteSet(Recent(b, t))
        BY RecentIsFinite
      <3>3. n * Minute \in Int /\ (n + 1) * Minute = n * Minute + Minute
        BY <3>2, RateIsLinear
      <3>4. Refilled(b) \in Int /\ 0 <= Refilled(b)
        <4>1. now - lastRefill[b] \in Nat /\ \A m, k \in Nat : m * k \in Nat
          BY <1>1, SMT
        <4>2. RequestsPerMin * (now - lastRefill[b]) \in Nat
          BY <4>1
        <4>3. QED
          BY <1>1, <4>2, CapacityType DEF Refilled
      <3>5. CASE ~ok
        <4>1. Recent(b, t)' = Recent(b, t)
          BY <1>1, <1>2, <3>5 DEF Recent
        <4>2. QED
          BY <1>2, <2>2, <3>1, <3>5, <4>1 DEF Enough, Capacity, Burst
      <3>6. CASE ok /\ t < now
        <4>1. Recent(b, t)' = Recent(b, t) \cup {r} /\ r \notin Recent(b, t)
          BY <1>1, <1>2, <3>6 DEF Recent
        <4>2. Cardinality(Recent(b, t)') = n + 1
          BY <3>2, <4>1, FS_AddElement
        <4> HIDE DEF n, ok
        <4>3. tokens'[b] = Refilled(b) - Minute
          BY <1>2, <3>6
        <4>4. tokens'[b] + (n + 1) * Minute = Refilled(b) + n * Minute
          BY <3>3, <3>4, <4>3
        <4>5. QED
          BY <1>2, <2>2, <3>1, <4>2, <4>4 DEF Enough, Capacity, Burst
      <3>7. CASE ok /\ t = now
        <4>1. Cardinality(Recent(b, t)') \in Nat
          BY RecentIsFinite, FS_Subset, FS_CardinalityType DEF Recent
        <4>2. \A m \in Nat : m * Minute \in Nat
          BY SMT
        <4>3. RequestsPerMin * 0 = 0 /\ lastRefill'[b] - t = 0
          BY <1>1, <1>2, <3>7, RateIsLinear
        <4>4. tokens'[b] \in Nat
          BY <1>2, <3>4, <3>7
        <4>5. Cardinality(Recent(b, t)') * Minute \in Nat
          BY <4>1, <4>2
        <4>6. RequestsPerMin * (lastRefill'[b] - t) <= tokens'[b] + Cardinality(Recent(b, t)') * Minute
          BY <4>3, <4>4, <4>5
        <4>7. QED
          BY <2>2, <4>6, <1>2 DEF Enough
      <3>8. QED
        BY <1>1, <3>1, <3>5, <3>6, <3>7
    <2>3. QED
      BY <2>1, <2>2
  <1>5. QED
    BY <1>3, <1>4 DEF NothingLost

LEMMA EnterLosesNothing ==
  ASSUME IndInv, NothingLost, NEW r \in Requests, CreateBucket(r), Enter(r)
  PROVE  NothingLost'
  <1>1. /\ now \in Int /\ mine[r] = NoBucket /\ phase[r] = "missed"
    BY DEF IndInv, TypeOK, Ownership, CreateBucket
  <1>2. /\ mine'[r] = r /\ lastRefill'[r] = now /\ tokens'[r] = Capacity /\ phase'[r] = "holds"
        /\ answeredAt' = answeredAt
        /\ \A d \in Requests \ {r} : /\ tokens'[d] = tokens[d] /\ lastRefill'[d] = lastRefill[d]
                                     /\ mine'[d] = mine[d] /\ phase'[d] = phase[d]
    BY DEF IndInv, TypeOK, CreateBucket, Enter, history
  <1>3. \A q \in Requests : mine[q] # r
    BY <1>1 DEF IndInv, Ownership
  <1>4. \A q \in Requests : phase'[q] = "allowed" =>
            mine'[q] \in Requests /\ answeredAt'[q] <= lastRefill'[mine'[q]]
    BY <1>2, <1>3 DEF NothingLost
  <1>5. ASSUME NEW d \in Requests, mine'[d] = d, NEW t \in Int, t <= lastRefill'[d]
        PROVE  Enough(tokens[d] + Cardinality(Recent(d, t)) * Minute, lastRefill[d] - t)'
    <2>1. CASE d # r
      <3>1. Recent(d, t)' = Recent(d, t)
        BY <1>1, <1>2, <2>1 DEF Recent
      <3>2. QED
        BY <1>2, <1>5, <2>1, <3>1 DEF NothingLost, Enough, Capacity, Burst
    <2>2. CASE d = r
      <3>1. Cardinality(Recent(r, t)') \in Nat
        BY FS_Subset, FS_CardinalityType DEF Recent
      <3>2. \A m \in Nat : m * Minute \in Nat
        BY SMT
      <3>3. Cardinality(Recent(r, t)') * Minute \in Nat
        BY <3>1, <3>2
      <3>4. QED
        BY <1>2, <2>2, <3>3, CapacityType DEF Enough, Capacity, Burst
    <2>3. QED
      BY <2>1, <2>2
  <1>6. QED
    BY <1>4, <1>5 DEF NothingLost

\* A step that leaves the buckets and the answers alone.
LEMMA UnansweredStep ==
  ASSUME IndInv, NothingLost,
         UNCHANGED <<tokens, lastRefill, answeredAt>>,
         \A q \in Requests : phase'[q] = "allowed" <=> phase[q] = "allowed",
         \A q \in Requests : mine'[q] = mine[q] \/ (phase[q] # "allowed" /\ mine'[q] # q)
  PROVE  NothingLost'
  <1>1. ASSUME NEW d, NEW t PROVE Recent(d, t)' = Recent(d, t)
    BY DEF Recent
  <1>2. \A d \in Requests : mine'[d] = d => mine[d] = d
    OBVIOUS
  <1>3. QED
    BY <1>1, <1>2 DEF NothingLost, Enough, Capacity, Burst

LEMMA NextLosesNothing ==
  ASSUME IndInv, NothingLost, [Next]_vars
  PROVE  NothingLost'
  <1>1. CASE Tick \/ StartCleanup \/ (\E c \in Clients : Visit(c)) \/ UNCHANGED vars
    <2>1. UNCHANGED <<tokens, lastRefill, answeredAt, phase, mine>>
      BY <1>1 DEF Tick, StartCleanup, Visit, vars, held, history
    <2>2. QED
      BY <2>1, UnansweredStep
  <1>2. ASSUME NEW r \in Requests, Lookup(r)
        PROVE  NothingLost'
    <2>1. mine[r] = NoBucket /\ \A c \in Clients : buckets[c] # r
      BY <1>2 DEF IndInv, TypeOK, Ownership, Lookup
    <2>2. /\ UNCHANGED <<tokens, lastRefill, answeredAt>>
          /\ \A q \in Requests : phase'[q] = "allowed" <=> phase[q] = "allowed"
      BY <1>2 DEF IndInv, TypeOK, Lookup, Enter, history
    <2>3. /\ phase[r] # "allowed" /\ client[r] \in Clients
          /\ mine' = [mine EXCEPT ![r] = buckets[client[r]]]
      BY <1>2 DEF IndInv, TypeOK, Lookup
    <2>4. \A q \in Requests : mine'[q] = mine[q] \/ (phase[q] # "allowed" /\ mine'[q] # q)
      BY <2>1, <2>3 DEF IndInv, TypeOK
    <2>5. QED
      BY <2>2, <2>4, UnansweredStep
  <1>3. ASSUME NEW r \in Requests, CreateBucket(r), ~Enter(r)
        PROVE  NothingLost'
    <2>1. mine[r] = NoBucket /\ \A c \in Clients : buckets[c] # r
      BY <1>3 DEF IndInv, TypeOK, Ownership, CreateBucket
    <2>2. /\ UNCHANGED <<tokens, lastRefill, answeredAt>>
          /\ \A q \in Requests : phase'[q] = "allowed" <=> phase[q] = "allowed"
      BY <1>3 DEF IndInv, TypeOK, CreateBucket, Enter, history
    <2>3. /\ phase[r] # "allowed" /\ client[r] \in Clients
          /\ mine' = [mine EXCEPT ![r] = buckets[client[r]]]
      BY <1>3 DEF IndInv, TypeOK, CreateBucket
    <2>4. \A q \in Requests : mine'[q] = mine[q] \/ (phase[q] # "allowed" /\ mine'[q] # q)
      BY <2>1, <2>3 DEF IndInv, TypeOK
    <2>5. QED
      BY <2>2, <2>4, UnansweredStep
  <1>4. QED
    BY <1>1, <1>2, <1>3, AllowLosesNothing, EnterLosesNothing DEF Next

LEMMA InitLosesNothing == Init => NothingLost
  BY DEF Init, NothingLost

\* A refused request's bucket holds less than a token although a minute's worth
\* came in: so many requests were let through in that minute.
LEMMA RefusalIsEarned ==
  ASSUME IndInv, NothingLost, NEW r \in Requests, Refuses(r), [Next]_vars
  PROVE  Cardinality({q \in Requests : /\ phase[q] = "allowed" /\ mine[q] = mine[r]
                                       /\ answeredAt[q] > now - Minute}) >= RequestsPerMin
  <1>1. Allow(r)
    BY DEF Refuses, Next, vars, IndInv, TypeOK, Tick, StartCleanup, Visit, Lookup, CreateBucket,
           Allow
  <1> DEFINE b == mine[r]
             t == now - Minute
             n == Cardinality(Recent(b, t))
  <1>2. b \in Requests /\ mine[b] = b /\ now \in Int /\ t \in Int /\ t <= now /\ now - t = Minute
    BY <1>1 DEF IndInv, TypeOK, Ownership, Allow
  <1>3. ~(Refilled(b) >= Minute)
    BY <1>1 DEF Refuses, IndInv, TypeOK, Allow
  <1>4. Refilled(b) \in Int
    <2>1. /\ lastRefill[b] \in Int /\ tokens[b] \in Nat
          /\ RequestsPerMin * (now - lastRefill[b]) \in Int
      BY <1>2, RateIsLinear DEF IndInv, TypeOK
    <2>2. QED
      BY <2>1, CapacityType DEF Refilled
  <1>5. Enough(Refilled(b) + n * Minute, Minute)
    BY <1>2, RefilledIsEnough
  <1>6. RequestsPerMin * Minute <= Capacity
    <2>1. \A x, y, m \in Nat : x <= y => x * m <= y * m
      BY SMT
    <2>2. RequestsPerMin <= Burst /\ Burst \in Nat
      BY DEF Burst
    <2>3. QED
      BY <2>1, <2>2 DEF Capacity
  <1>7. n \in Nat
    BY RecentIsFinite
  <1>8. RequestsPerMin * Minute <= Refilled(b) + n * Minute
    <2>1. n * Minute \in Int /\ RequestsPerMin * Minute \in Int
      BY <1>7, RateIsLinear
    <2> HIDE DEF n, b
    <2>2. QED
      BY <1>4, <1>5, <1>6, <2>1, CapacityType DEF Enough
  <1>9. n >= RequestsPerMin
    <2>1. \A m, x, y, k \in Int : 0 < m /\ x < m /\ k * m <= x + y * m => y >= k
      <3> SUFFICES ASSUME NEW m \in Int, NEW x \in Int, NEW y \in Int, NEW k \in Int,
                          0 < m, x < m, k * m <= x + y * m, y + 1 <= k
                   PROVE  FALSE
        OBVIOUS
      <3>1. (y + 1) * m = y * m + m /\ y * m \in Int
        OBVIOUS
      <3>2. (y + 1) * m <= k * m
        OBVIOUS
      <3>3. QED
        BY <3>1, <3>2
    <2>2. Minute \in Int /\ 0 < Minute /\ RequestsPerMin \in Int /\ n \in Int
      BY <1>7
    <2> HIDE DEF n, b
    <2>3. Refilled(b) < Minute
      BY <1>3, <1>4
    <2>4. QED
      BY <1>4, <1>8, <2>1, <2>2, <2>3
  <1>10. QED
    BY <1>9 DEF Recent

\* Nobody who keeps to the rate is refused (getBucket, lines 98-101, and allow,
\* lines 47-60), for any rate and any burst, the ones below the rate too.
THEOREM RefusalsAreEarned == Spec => RefusedOnlyOverRate
  <1>1. Spec => []NothingLost
    BY InitLosesNothing, NextLosesNothing, IndInvHolds, PTL DEF Spec
  <1>2. IndInv /\ NothingLost /\ [Next]_vars =>
            [\A r \in Requests : Refuses(r) =>
               Cardinality({q \in Requests : /\ phase[q] = "allowed" /\ mine[q] = mine[r]
                                             /\ answeredAt[q] > now - Minute})
                 >= RequestsPerMin]_vars
    BY RefusalIsEarned
  <1>3. QED
    BY <1>1, <1>2, IndInvHolds, PTL DEF Spec, RefusedOnlyOverRate

-----------------------------------------------------------------------------
(* The pool of workers                                                     *)

USE LimitsAssumption, JobsAssumption DEF WorkerIDs


LEMMA SpawnedFinite ==
  ASSUME PoolTypeOK
  PROVE  /\ IsFiniteSet(registered)
         /\ Cardinality(registered) \in Nat
  <1>1. IsFiniteSet(1..nextWorkerID)
    BY FS_Interval DEF PoolTypeOK
  <1>2. QED
    BY <1>1, FS_Subset, FS_CardinalityType DEF PoolTypeOK

\* New workers have new identifiers.
LEMMA SpawnCounts ==
  ASSUME PoolTypeOK, NEW n \in Nat, Spawn(n)
  PROVE  Cardinality(registered') = Cardinality(registered) + n
  <1> DEFINE new == (nextWorkerID + 1)..(nextWorkerID + n)
  <1> DEFINE lo == nextWorkerID + 1
  <1> DEFINE hi == nextWorkerID + n
  <1>0. lo \in Int /\ hi \in Int /\ (IF lo > hi THEN 0 ELSE hi - lo + 1) = n
    BY DEF PoolTypeOK
  <1>1. IsFiniteSet(new) /\ Cardinality(new) = n
    <2> HIDE DEF lo, hi
    <2>1. IsFiniteSet(lo..hi) /\ Cardinality(lo..hi) = IF lo > hi THEN 0 ELSE hi - lo + 1
      BY <1>0, FS_Interval
    <2>2. QED
      BY <1>0, <2>1 DEF lo, hi
  <1>2. registered \cap new = {}
    BY DEF PoolTypeOK
  <1>3. Cardinality(registered \cup new) =
            Cardinality(registered) + Cardinality(new) - Cardinality({})
    BY <1>1, <1>2, SpawnedFinite, FS_Union
  <1>4. QED
    BY <1>1, <1>3, SpawnedFinite, FS_EmptySet DEF Spawn

LEMMA RemoveCounts ==
  ASSUME PoolTypeOK, NEW n \in Nat, Remove(n)
  PROVE  Cardinality(registered') = Cardinality(registered) - n
  <1>1. PICK excess \in SUBSET registered :
            Cardinality(excess) = n /\ registered' = registered \ excess
    BY DEF Remove
  <1>2. registered \cap excess = excess
    BY <1>1
  <1>3. QED
    BY <1>1, <1>2, SpawnedFinite, FS_Difference

LEMMA PoolInvInit == PoolInit => PoolInv
  BY DEF PoolInit, PoolInv, PoolTypeOK, RegisteredIsDesired, WorkersAccounted, RunningIsHeld,
         Busy, Clamp

\* Spawn and Remove, the two ways the set of workers changes under the lock.
LEMMA SpawnStep ==
  ASSUME PoolInv, NEW n \in Nat, Spawn(n),
         desired' = Cardinality(registered) + n, desired' \in MinWorkers..MaxWorkers,
         server' \in {"up", "stopping", "stopped"},
         server' \in {"new", "up"} => server \in {"new", "up"},
         UNCHANGED outcome
  PROVE  PoolInv'
  <1> USE DEF PoolInv
  <1>1. PoolTypeOK'
    BY DEF PoolTypeOK, Spawn
  <1>2. RegisteredIsDesired'
    BY SpawnCounts DEF RegisteredIsDesired
  <1>3. WorkersAccounted'
    BY DEF WorkersAccounted, Spawn, PoolTypeOK
  <1>4. RunningIsHeld'
    BY DEF RunningIsHeld, Busy, Spawn, PoolTypeOK
  <1>5. QED
    BY <1>1, <1>2, <1>3, <1>4

LEMMA RemoveStep ==
  ASSUME PoolInv, NEW n \in Nat, Remove(n),
         desired' = Cardinality(registered) - n, desired' \in MinWorkers..MaxWorkers,
         server # "new", UNCHANGED <<server, outcome>>
  PROVE  PoolInv'
  <1> USE DEF PoolInv
  <1>1. PoolTypeOK'
    BY DEF PoolTypeOK, Remove
  <1>2. RegisteredIsDesired'
    BY RemoveCounts DEF RegisteredIsDesired
  <1>3. WorkersAccounted'
    BY DEF WorkersAccounted, Remove, PoolTypeOK
  <1>4. RunningIsHeld'
    BY DEF RunningIsHeld, Busy, Remove
  <1>5. QED
    BY <1>1, <1>2, <1>3, <1>4

LEMMA PoolInvNext == PoolInv /\ [PoolNext]_poolVars => PoolInv'
  <1> SUFFICES ASSUME PoolInv, [PoolNext]_poolVars PROVE PoolInv'
    OBVIOUS
  <1> USE DEF PoolInv
  <1>1. CASE Start
    <2>1. registered = {} /\ Cardinality(registered) = 0
      <3>1. nextWorkerID = 0
        BY <1>1 DEF Start
      <3>2. 1..0 = {}
        OBVIOUS
      <3>3. registered = {}
        BY <3>1, <3>2 DEF PoolTypeOK
      <3>4. QED
        BY <3>3, FS_EmptySet
    <2>2. desired \in Nat
      BY DEF PoolTypeOK
    <2>3. QED
      BY <1>1, <2>1, <2>2, SpawnStep DEF Start, PoolTypeOK
  <1>2. CASE StopCancel
    BY <1>2 DEF StopCancel, PoolTypeOK, RegisteredIsDesired, WorkersAccounted,
                RunningIsHeld, Busy
  <1>3. CASE StopReturn
    BY <1>3 DEF StopReturn, PoolTypeOK, RegisteredIsDesired, WorkersAccounted,
                RunningIsHeld, Busy
  <1>4. CASE Down
    BY <1>4 DEF Down, PoolTypeOK, RegisteredIsDesired, WorkersAccounted,
                RunningIsHeld, Busy
  <1>5. ASSUME NEW d \in MinWorkers..MaxWorkers, Scale(d) PROVE PoolInv'
    <2> DEFINE current == Cardinality(registered)
    <2>1. current \in Nat /\ d \in Nat
      BY SpawnedFinite
    <2>2. CASE d > current
      <3>1. Spawn(d - current) /\ d - current \in Nat
        BY <1>5, <2>1, <2>2 DEF Scale
      <3>2. QED
        BY <1>5, <2>1, <3>1, SpawnStep DEF Scale
    <2>3. CASE d <= current
      <3>1. Remove(current - d) /\ current - d \in Nat
        BY <1>5, <2>1, <2>3 DEF Scale
      <3>2. QED
        BY <1>5, <2>1, <3>1, RemoveStep DEF Scale
    <2>4. QED
      BY <2>1, <2>2, <2>3
  <1>6. ASSUME NEW j \in Jobs, Arrive(j) PROVE PoolInv'
    BY <1>6 DEF Arrive, PoolTypeOK, RegisteredIsDesired, WorkersAccounted,
                RunningIsHeld, Busy
  <1>7. ASSUME NEW w \in WorkerIDs, NEW j \in Jobs, Take(w, j) PROVE PoolInv'
    <2>1. PoolTypeOK' /\ RegisteredIsDesired' /\ WorkersAccounted'
      BY <1>7 DEF Take, PoolTypeOK, RegisteredIsDesired, WorkersAccounted
    <2>2. RunningIsHeld'
      BY <1>7 DEF Take, PoolTypeOK, RunningIsHeld, Busy
    <2>3. QED
      BY <1>7, <2>1, <2>2 DEF Take
  <1>8. ASSUME NEW w \in WorkerIDs, Exit(w) PROVE PoolInv'
    <2>1. WorkersAccounted'
      BY <1>8 DEF Exit, Done, Stopped, WorkersAccounted
    <2>2. RunningIsHeld'
      BY <1>8 DEF Exit, RunningIsHeld, Busy
    <2>3. QED
      BY <1>8, <2>1, <2>2 DEF Exit, PoolTypeOK, RegisteredIsDesired
  <1>9. ASSUME NEW w \in WorkerIDs, Finish(w) \/ Cut(w) PROVE PoolInv'
    <2>1. PoolTypeOK' /\ RegisteredIsDesired' /\ WorkersAccounted'
      BY <1>9 DEF Finish, Cut, Busy, PoolTypeOK, RegisteredIsDesired, WorkersAccounted
    <2>2. RunningIsHeld'
      BY <1>9 DEF Finish, Cut, Busy, PoolTypeOK, RunningIsHeld
    <2>3. QED
      BY <1>9, <2>1, <2>2 DEF Finish, Cut
  <1>10. CASE UNCHANGED poolVars
    BY <1>10 DEF poolVars, PoolTypeOK, RegisteredIsDesired, WorkersAccounted,
                 RunningIsHeld, Busy
  <1>11. QED
    BY <1>1, <1>2, <1>3, <1>4, <1>5, <1>6, <1>7, <1>8, <1>9, <1>10
    DEF PoolNext, WorkerStep

\* Every reachable state of the pool (pool.go:68-91) satisfies the invariant.
THEOREM PoolInvariant == PoolSpec => []PoolInv
  BY PoolInvInit, PoolInvNext, PTL DEF PoolSpec

\* After any sequence of Scale calls the map of workers has as many entries as
\* were last asked for, within the limits (pool.go:151-191).
THEOREM SizeIsDesired == PoolSpec => []RegisteredIsDesired
  BY PoolInvariant, PTL DEF PoolInv

\* Scale leaks no worker, and what Stats reports as active is alive until Stop
\* (pool.go:172-182, 193-210).
THEOREM NoWorkerLeaked == PoolSpec => []WorkersAccounted
  BY PoolInvariant, PTL DEF PoolInv

\* When Stop returns no job is in flight (pool.go:138-147).
THEOREM StopWaitsForJobs == PoolSpec => StopWaits
  <1>1. PoolInv /\ [PoolNext]_poolVars =>
          (server = "stopping" /\ server' = "stopped" =>
              \A j \in Jobs : outcome'[j] # "running")
    <2> SUFFICES ASSUME PoolInv, PoolNext, server = "stopping", server' = "stopped"
                 PROVE  \A j \in Jobs : outcome'[j] # "running"
      BY DEF poolVars
    <2>1. StopReturn
      BY DEF PoolNext, Start, StopCancel, StopReturn, Down, Scale, Arrive, WorkerStep,
             Take, Exit, Finish, Cut
    <2>2. QED
      BY <2>1 DEF StopReturn, PoolInv, RunningIsHeld, Busy
  <1>2. QED
    BY <1>1, PoolInvariant, PTL DEF PoolSpec, StopWaits

\* The pool of a server whose signals main and the keep-alive goroutine share
\* (main.go:130-186) goes through no states but those of WorkerPool, so that
\* what is proved of the pool holds of the server's.
THEOREM ServerRunsThePool == ServerSpec => PoolSpec
  <1>1. ServerInit => PoolInit
    BY DEF ServerInit
  <1>2. [ServerNext]_serverVars => [PoolNext]_poolVars
    <2> SUFFICES ASSUME [ServerNext]_serverVars PROVE [PoolNext]_poolVars
      OBVIOUS
    <2>1. CASE PoolStep
      BY <2>1 DEF PoolStep, PoolNext
    <2>2. CASE MainReceive
      BY <2>2 DEF MainReceive, PoolNext
    <2>3. CASE Signal \/ KeepAliveLoop \/ KeepAliveReceive
      BY <2>3 DEF Signal, KeepAliveLoop, KeepAliveReceive
    <2>4. CASE UNCHANGED serverVars
      BY <2>4 DEF serverVars
    <2> QED BY <2>1, <2>2, <2>3, <2>4 DEF ServerNext
  <1> QED BY <1>1, <1>2, PTL DEF ServerSpec, PoolSpec
=============================================================================
