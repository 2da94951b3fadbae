---------------------------- MODULE RateLimiter ----------------------------
(***************************************************************************)
(* The HTTP rate limiter, internal/api/middleware/ratelimit.go: a token    *)
(* bucket per client, behind a read-write lock that covers the map and not *)
(* the use of a bucket, and a cleanup that evicts idle buckets.            *)
(*                                                                         *)
(* Time goes by in ticks, Minute of them to the minute.  A token is worth  *)
(* Minute units, so that RequestsPerMin units per tick are the code's      *)
(* RequestsPerMin / 60 tokens per second, without fractions.  A bucket is  *)
(* named by the request that made it.                                      *)
(***************************************************************************)
EXTENDS Integers, FiniteSets

CONSTANTS
    Clients,         \* X-Client-ID headers or remote addresses
    Requests,        \* bound: the requests ever made
    NoBucket,        \* the map has none
    RequestsPerMin,
    BurstSize,
    Minute,          \* ticks per minute, and units per token
    IdleMinutes,     \* cleanup evicts after that many; 5 in the code
    MaxNow           \* bound: how long time goes on

ASSUME RateAssumption ==
    /\ RequestsPerMin \in Nat /\ BurstSize \in Nat
    /\ Minute \in Nat \ {0} /\ IdleMinutes \in Nat /\ MaxNow \in Nat
ASSUME RequestsAssumption == IsFiniteSet(Requests) /\ NoBucket \notin Requests

VARIABLES
    now,         \* the clock
    buckets,     \* the map: client -> bucket
    tokens,      \* units in each bucket
    lastRefill,  \* when each bucket was made or last asked
    phase,       \* how far each request is
    mine,        \* the bucket it got from getBucket
    client,      \* whom it comes from
    sweeping,    \* the entries the cleanup has not visited yet
    cutoff,      \* what the cleanup takes for idle
    answeredAt,  \* history: when each request was answered
    born,        \* history: when each bucket was made
    admitted,    \* history: requests admitted, by bucket
    steady,      \* history: admitted on the bucket in the map, by client
    strays       \* history: admitted on a bucket already evicted, by client

vars == <<now, buckets, tokens, lastRefill, phase, mine, client, sweeping, cutoff,
          answeredAt, born, admitted, steady, strays>>
held == <<buckets, client, sweeping, cutoff>>
history == <<answeredAt, admitted, steady, strays>>

TypeOK ==
    /\ now \in 0..MaxNow
    /\ buckets \in [Clients -> Requests \cup {NoBucket}]
    /\ tokens \in [Requests -> Nat]
    /\ lastRefill \in [Requests -> 0..MaxNow]
    /\ phase \in [Requests -> {"new", "missed", "holds", "allowed", "refused"}]
    /\ mine \in [Requests -> Requests \cup {NoBucket}]
    /\ client \in [Requests -> Clients]
    /\ sweeping \subseteq Clients
    /\ cutoff \in Int
    /\ answeredAt \in [Requests -> 0..MaxNow]
    /\ born \in [Requests -> 0..MaxNow]
    /\ admitted \in [Requests -> Nat]
    /\ steady \in [Clients -> Nat]
    /\ strays \in [Clients -> Nat]

\* Faulty: a burst below the steady rate is kept.
Burst_AsGiven == BurstSize

\* The capacity of a bucket, in tokens and in units.
Burst == IF BurstSize < RequestsPerMin THEN RequestsPerMin ELSE BurstSize
Capacity == Burst * Minute
Idle == IdleMinutes * Minute

Init ==
    /\ now = 0
    /\ buckets = [c \in Clients |-> NoBucket]
    /\ tokens = [b \in Requests |-> 0]
    /\ lastRefill = [b \in Requests |-> 0]
    /\ phase = [r \in Requests |-> "new"]
    /\ mine = [r \in Requests |-> NoBucket]
    /\ client \in [Requests -> Clients]
    /\ sweeping = {}
    /\ cutoff = 0
    /\ answeredAt = [r \in Requests |-> 0]
    /\ born = [b \in Requests |-> 0]
    /\ admitted = [b \in Requests |-> 0]
    /\ steady = [c \in Clients |-> 0]
    /\ strays = [c \in Clients |-> 0]

-----------------------------------------------------------------------------
Tick ==
    /\ now < MaxNow
    /\ now' = now + 1
    /\ UNCHANGED <<held, history, tokens, lastRefill, phase, mine, born>>

\* getBucket under the read lock, which the cleanup does not hold.
Lookup(r) ==
    LET b == buckets[client[r]] IN
    /\ phase[r] = "new" /\ sweeping = {}
    /\ phase' = [phase EXCEPT ![r] = IF b = NoBucket THEN "missed" ELSE "holds"]
    /\ mine' = [mine EXCEPT ![r] = b]
    /\ UNCHANGED <<held, history, now, tokens, lastRefill, born>>

\* A full bucket of the request's own goes into the map.
Enter(r) ==
    /\ buckets' = [buckets EXCEPT ![client[r]] = r]
    /\ mine' = [mine EXCEPT ![r] = r]
    /\ tokens' = [tokens EXCEPT ![r] = Capacity]
    /\ lastRefill' = [lastRefill EXCEPT ![r] = now]
    /\ born' = [born EXCEPT ![r] = now]

\* getBucket under the write lock: it looks again, then makes a bucket.
CreateBucket(r) ==
    LET b == buckets[client[r]] IN
    /\ phase[r] = "missed" /\ sweeping = {}
    /\ phase' = [phase EXCEPT ![r] = "holds"]
    /\ \/ b = NoBucket /\ Enter(r)
       \/ /\ b # NoBucket
          /\ mine' = [mine EXCEPT ![r] = b]
          /\ UNCHANGED <<buckets, tokens, lastRefill, born>>
    /\ UNCHANGED <<history, now, client, sweeping, cutoff>>

\* What a bucket holds once it has been refilled.
Refilled(b) ==
    LET sum == tokens[b] + RequestsPerMin * (now - lastRefill[b]) IN
    IF sum > Capacity THEN Capacity ELSE sum

\* allow, under the bucket's own lock only: the bucket may have been evicted.
Allow(r) ==
    LET b == mine[r]  c == client[r]  ok == Refilled(b) >= Minute IN
    /\ phase[r] = "holds"
    /\ lastRefill' = [lastRefill EXCEPT ![b] = now]
    /\ tokens' = [tokens EXCEPT ![b] = IF ok THEN Refilled(b) - Minute ELSE Refilled(b)]
    /\ phase' = [phase EXCEPT ![r] = IF ok THEN "allowed" ELSE "refused"]
    /\ answeredAt' = [answeredAt EXCEPT ![r] = now]
    /\ admitted' = [admitted EXCEPT ![b] = IF ok THEN @ + 1 ELSE @]
    /\ steady' = [steady EXCEPT ![c] = IF ok /\ buckets[c] = b THEN @ + 1 ELSE @]
    /\ strays' = [strays EXCEPT ![c] = IF ok /\ buckets[c] # b THEN @ + 1 ELSE @]
    /\ UNCHANGED <<held, now, mine, born>>

\* The cleanup takes the write lock and the time, ...
StartCleanup ==
    /\ sweeping = {}
    /\ sweeping' = {c \in Clients : buckets[c] # NoBucket}
    /\ cutoff' = now - Idle
    /\ UNCHANGED <<history, now, buckets, tokens, lastRefill, phase, mine, client, born>>

\* Faulty: evicts whatever was not used at this instant.
Expired_AnyIdle(b) == lastRefill[b] < now

Expired(b) == lastRefill[b] < cutoff

\* ... and visits the entries in any order, a bucket's lock at a time.
Visit(c) ==
    /\ c \in sweeping
    /\ sweeping' = sweeping \ {c}
    /\ buckets' = [buckets EXCEPT ![c] = IF Expired(@) THEN NoBucket ELSE @]
    /\ UNCHANGED <<history, now, tokens, lastRefill, phase, mine, client, cutoff, born>>

Next ==
    \/ Tick
    \/ \E r \in Requests : Lookup(r) \/ CreateBucket(r) \/ Allow(r)
    \/ StartCleanup
    \/ \E c \in Clients : Visit(c)

Spec == Init /\ [][Next]_vars

-----------------------------------------------------------------------------
\* What a bucket has let through and what it still holds is what it was made
\* with and what came in since (allow, lines 43-61): no order of concurrent
\* requests gets more out of it.
BucketWithinRate ==
    \A b \in Requests :
        admitted[b] * Minute + tokens[b] <= Capacity + RequestsPerMin * (lastRefill[b] - born[b])

\* A client gets a burst and the steady rate, whatever buckets of its were
\* evicted and made anew (getBucket and cleanupLoop, lines 82-130), provided a
\* bucket is full by the time it is evicted.  Beside that it gets only the
\* strays: requests that held a bucket while it was evicted.
ClientWithinRate ==
    Capacity <= RequestsPerMin * Idle =>
        \A c \in Clients : steady[c] * Minute <= Capacity + RequestsPerMin * now

Refuses(r) == phase[r] # "refused" /\ phase'[r] = "refused"

\* A client is refused only when its bucket has let RequestsPerMin requests
\* through within the last minute (lines 98-101 and 47-60): nobody who keeps
\* to the rate is told that there were too many requests.
RefusedOnlyOverRate ==
    [][\A r \in Requests : Refuses(r) =>
          Cardinality({q \in Requests : /\ phase[q] = "allowed" /\ mine[q] = mine[r]
                                        /\ answeredAt[q] > now - Minute})
             >= RequestsPerMin]_vars
=============================================================================
