----------------------------- MODULE RateLimiter -----------------------------
(***************************************************************************)
(* The connectionless-packet rate limiter of src/src/sv_main.c: a fixed    *)
(* pool of leaky buckets, one per address, threaded on hash chains; one    *)
(* bucket for all outbound replies; one for bad rcon passwords.  The       *)
(* server is single threaded, so a packet is one step.                     *)
(*                                                                         *)
(* clock is what gettimeofday() says, in milliseconds after the second of  *)
(* the first call.  The two calls of Sys_Milliseconds() in one packet are  *)
(* taken to return the same value.                                         *)
(***************************************************************************)
EXTENDS LeakyBucket, Sequences

CONSTANTS
    Address,            \* the IPv4 addresses packets come from
    MAX_BUCKETS,        \* size of the pool, 16384 in server.h
    MAX_HASHES,         \* number of chains, 1024 in server.h
    HashOf,             \* the hash of each address
    Burst, Period,      \* per-address limit, (10, 1000) at every call
    OutBurst, OutPeriod,\* limit on all replies, (10, 100) at every call
    Second,             \* milliseconds in a second of time(NULL)
    StartClock,         \* first value of the clock
    ClockSteps,         \* how far the clock can move between two packets
    MaxClock            \* bound on the clock, for model checking

ASSUME PoolAssumption ==
    /\ MAX_BUCKETS \in Nat \ {0}
    /\ MAX_HASHES \in Nat \ {0}
    /\ "none" \notin Address
    /\ HashOf \in [Address -> 0..(MAX_HASHES - 1)]

ASSUME LimitAssumption ==
    /\ Burst \in Nat \ {0} /\ Period \in Nat \ {0}
    /\ OutBurst \in Nat \ {0} /\ OutPeriod \in Nat \ {0}
    /\ Second \in Nat \ {0}

ASSUME ClockAssumption ==
    /\ StartClock \in Nat
    /\ ClockSteps \subseteq Int
    /\ MaxClock \in Nat

VARIABLES
    clock,                \* gettimeofday, in milliseconds
    buckets,              \* the pool
    bucketHashes,         \* head of each hash chain
    outboundLeakyBucket,  \* shared by getinfo, getstatus and getchallenge
    rconBucket,           \* static bucket of SVC_RemoteCommand
    lasttime,             \* second of the last bad rcon password let through
    outcome               \* what became of the last packet

vars == <<clock, buckets, bucketHashes, outboundLeakyBucket, rconBucket,
          lasttime, outcome>>

NULL == -1
NoAddress == "none"
Slots == 0..(MAX_BUCKETS - 1)
Hashes == 0..(MAX_HASHES - 1)

\* A bucket as memset(bucket, 0, sizeof(leakyBucket_t)) leaves it: type 0.
FreeBucket == [used |-> FALSE, adr |-> NoAddress, lastTime |-> 0, burst |-> 0,
               hash |-> 0, prev |-> NULL, next |-> NULL]

------------------------------------------------------------------------------
(* Time *)

Sys_Milliseconds == ToInt(clock)

\* time(NULL); the epoch is long before the server starts.
WallSecond == (clock \div Second) + 1

------------------------------------------------------------------------------
(* The pool *)

SVC_HashForAddress(a) == HashOf[a]

\* The walks down chain h: slots joined by next, from the head on.
Walks(h) ==
    {w \in UNION {[1..n -> Slots] : n \in 1..MAX_BUCKETS} :
        /\ w[1] = bucketHashes[h]
        /\ \A n \in 1..(Len(w) - 1) : w[n + 1] = buckets[w[n]].next}

\* The first bucket that holds a on the walk down a's chain.
Lookup(a) ==
    LET finds == {w \in Walks(SVC_HashForAddress(a)) :
                    \A n \in DOMAIN w : buckets[w[n]].adr = a <=> n = Len(w)}
        walk == CHOOSE w \in finds : TRUE
    IN  IF finds = {} THEN NULL ELSE walk[Len(walk)]

Reclaimable(i) == Expired(buckets[i], Sys_Milliseconds, Burst, Period)

\* Mutant: expired buckets are not reclaimed.
AllocatableFreeOnly == {i \in Slots : ~buckets[i].used}

\* The scan stops at the first slot that is free or that it reclaims: a
\* reclaimed slot is free at once.
Allocatable == {i \in Slots : Reclaimable(i) \/ ~buckets[i].used}
FirstAllocatable == CHOOSE i \in Allocatable : \A j \in Allocatable : i <= j

\* Unlinking slot i from its chain and clearing it.
UnlinkedHeads(i) ==
    IF Reclaimable(i) /\ buckets[i].prev = NULL
    THEN [bucketHashes EXCEPT ![buckets[i].hash] = buckets[i].next]
    ELSE bucketHashes

\* Mutant: the next bucket still points back at the cleared one.
UnlinkedPoolOneWay(i) ==
    [j \in Slots |->
        IF j = i THEN FreeBucket
        ELSE [buckets[j] EXCEPT
                !.next = IF j = buckets[i].prev THEN buckets[i].next ELSE @]]

UnlinkedPool(i) ==
    IF Reclaimable(i)
    THEN [j \in Slots |->
            IF j = i THEN FreeBucket
            ELSE [buckets[j] EXCEPT
                    !.next = IF j = buckets[i].prev THEN buckets[i].next ELSE @,
                    !.prev = IF j = buckets[i].next THEN buckets[i].prev ELSE @]]
    ELSE buckets

\* Giving the free slot i of a pool to address a, at the head of its chain.
LinkedHeads(heads, i, a) == [heads EXCEPT ![SVC_HashForAddress(a)] = i]

\* Mutant: the slot is linked in but its burst is not reset.
LinkedPoolKeepsBurst(pool, heads, i, a) ==
    LET h == SVC_HashForAddress(a)
    IN  [j \in Slots |->
            IF j = i
            THEN [used |-> TRUE, adr |-> a, lastTime |-> Sys_Milliseconds,
                  burst |-> buckets[i].burst, hash |-> h, prev |-> NULL,
                  next |-> heads[h]]
            ELSE IF j = heads[h] THEN [pool[j] EXCEPT !.prev = i]
            ELSE pool[j]]

LinkedPool(pool, heads, i, a) ==
    LET h == SVC_HashForAddress(a)
    IN  [j \in Slots |->
            IF j = i
            THEN [used |-> TRUE, adr |-> a, lastTime |-> Sys_Milliseconds,
                  burst |-> 0, hash |-> h, prev |-> NULL, next |-> heads[h]]
            ELSE IF j = heads[h] THEN [pool[j] EXCEPT !.prev = i]
            ELSE pool[j]]

\* The slot SVC_BucketForAddress returns for address a ...
SVC_BucketForAddress(a) ==
    IF Lookup(a) # NULL THEN Lookup(a)
    ELSE IF Allocatable # {} THEN FirstAllocatable ELSE NULL

Allocates(a) == Lookup(a) = NULL /\ Allocatable # {}

\* ... and the pool and the chains it leaves behind.
PoolFor(a) ==
    LET i == FirstAllocatable
    IN  IF Allocates(a)
        THEN LinkedPool(UnlinkedPool(i), UnlinkedHeads(i), i, a)
        ELSE buckets

HeadsFor(a) ==
    LET i == FirstAllocatable
    IN  IF Allocates(a) THEN LinkedHeads(UnlinkedHeads(i), i, a) ELSE bucketHashes

\* Mutant: an address that gets no bucket is let through.
AddressLimitedFailOpen(a) ==
    LET i == SVC_BucketForAddress(a)
    IN  i # NULL /\ Limited(PoolFor(a)[i], Sys_Milliseconds, Burst, Period)

\* SVC_RateLimitAddress: no bucket counts as limited.
AddressLimited(a) ==
    LET i == SVC_BucketForAddress(a)
    IN  i = NULL \/ Limited(PoolFor(a)[i], Sys_Milliseconds, Burst, Period)

SVC_RateLimitAddress(a) ==
    LET i == SVC_BucketForAddress(a)
    IN  /\ bucketHashes' = HeadsFor(a)
        /\ buckets' = IF i = NULL THEN PoolFor(a)
                      ELSE [PoolFor(a) EXCEPT
                              ![i] = SVC_RateLimit(@, Sys_Milliseconds, Burst, Period)]

------------------------------------------------------------------------------
(* The packets *)

Says(a, verdict) == outcome' = [adr |-> a, verdict |-> verdict]

Verdicts == {"none", "addressLimit", "outboundLimit", "badChallenge", "reply",
             "rconLimit", "noPassword", "tooSoon", "guess", "rcon"}

OutboundLimited ==
    Limited(outboundLeakyBucket, Sys_Milliseconds, OutBurst, OutPeriod)

\* getstatus, getinfo and getchallenge.  wellFormed is SV_VerifyChallenge,
\* which only the first two call, and call after both buckets are charged.
Query(a, wellFormed) ==
    /\ SVC_RateLimitAddress(a)
    /\ IF AddressLimited(a)
       THEN Says(a, "addressLimit") /\ UNCHANGED outboundLeakyBucket
       ELSE /\ outboundLeakyBucket' =
                    SVC_RateLimit(outboundLeakyBucket, Sys_Milliseconds,
                                  OutBurst, OutPeriod)
            /\ IF OutboundLimited
               THEN Says(a, "outboundLimit")
               ELSE Says(a, IF wellFormed THEN "reply" ELSE "badChallenge")
    /\ UNCHANGED <<clock, rconBucket, lasttime>>

\* rcon with the right password; the script callback and the engine's own
\* handler come after it.
RconGood(a) ==
    /\ SVC_RateLimitAddress(a)
    /\ Says(a, IF AddressLimited(a) THEN "addressLimit" ELSE "rcon")
    /\ UNCHANGED <<clock, outboundLeakyBucket, rconBucket, lasttime>>

\* Mutant: any change of the second will do, even backwards.
GuessAllowedByChange == WallSecond # lasttime

\* difftime(ttime, lasttime) < 1 turns a wrong password away.
GuessAllowed == WallSecond - lasttime >= 1

\* rcon with a wrong password, or while no password is set.
RconBad(a, passwordSet) ==
    LET passes == ~Limited(rconBucket, Sys_Milliseconds, Burst, Period)
        allowed == passwordSet /\ GuessAllowed
    IN  /\ SVC_RateLimitAddress(a)
        /\ IF AddressLimited(a)
           THEN Says(a, "addressLimit") /\ UNCHANGED <<rconBucket, lasttime>>
           ELSE /\ rconBucket' = SVC_RateLimit(rconBucket, Sys_Milliseconds,
                                               Burst, Period)
                /\ lasttime' = IF passes /\ allowed THEN WallSecond ELSE lasttime
                /\ Says(a, CASE ~passes -> "rconLimit"
                             [] passes /\ ~passwordSet -> "noPassword"
                             [] passes /\ passwordSet /\ ~allowed -> "tooSoon"
                             [] passes /\ allowed -> "guess")
        /\ UNCHANGED <<clock, outboundLeakyBucket>>

\* The machine's clock: it moves on, and an administrator or NTP can set it.
ClockStep(d) ==
    /\ clock + d \in 0..MaxClock
    /\ clock' = clock + d
    /\ Says(NoAddress, "none")
    /\ UNCHANGED <<buckets, bucketHashes, outboundLeakyBucket, rconBucket,
                   lasttime>>

Init ==
    /\ clock = StartClock
    /\ buckets = [i \in Slots |-> FreeBucket]
    /\ bucketHashes = [h \in Hashes |-> NULL]
    /\ outboundLeakyBucket = FreeBucket
    /\ rconBucket = FreeBucket
    /\ lasttime = 0
    /\ outcome = [adr |-> NoAddress, verdict |-> "none"]

Next ==
    \/ \E a \in Address, wellFormed \in BOOLEAN : Query(a, wellFormed)
    \/ \E a \in Address : RconGood(a)
    \/ \E a \in Address, passwordSet \in BOOLEAN : RconBad(a, passwordSet)
    \/ \E d \in ClockSteps : ClockStep(d)

Spec == Init /\ [][Next]_vars

------------------------------------------------------------------------------
(* Invariants *)

Bucket == [used : BOOLEAN, adr : Address \cup {NoAddress}, lastTime : IntRange,
           burst : Nat, hash : Hashes, prev : Slots \cup {NULL},
           next : Slots \cup {NULL}]

\* Every variable has its type; an address bucket never holds more than Burst
\* requests, so the signed char it is kept in does not overflow.
TypeOK ==
    /\ clock \in Int
    /\ buckets \in [Slots -> Bucket]
    /\ \A i \in Slots : buckets[i].burst <= Burst
    /\ bucketHashes \in [Hashes -> Slots \cup {NULL}]
    /\ outboundLeakyBucket \in Bucket /\ outboundLeakyBucket.burst <= OutBurst
    /\ rconBucket \in Bucket /\ rconBucket.burst <= Burst
    /\ lasttime \in Int
    /\ outcome \in [adr : Address \cup {NoAddress}, verdict : Verdicts]

\* A free bucket hangs on no chain.
FreeIsUnlinked(pool, heads) ==
    \A i \in Slots : ~pool[i].used =>
        /\ pool[i] = FreeBucket
        /\ \A h \in Hashes : heads[h] # i
        /\ \A j \in Slots : pool[j].next # i /\ pool[j].prev # i

\* next and prev are inverse of each other and stay within one chain.
DoublyLinked(pool) ==
    \A i, j \in Slots : pool[i].used =>
        /\ pool[i].next = j => pool[j].prev = i /\ pool[j].hash = pool[i].hash
        /\ pool[i].prev = j => pool[j].next = i /\ pool[j].hash = pool[i].hash

\* The head of a chain is its one bucket with no prev, and a bucket lies on the
\* chain its address hashes to.
HeadsAreFirst(pool, heads) ==
    /\ \A i \in Slots : pool[i].used =>
            /\ pool[i].adr \in Address
            /\ pool[i].hash = SVC_HashForAddress(pool[i].adr)
            /\ pool[i].prev = NULL <=> heads[pool[i].hash] = i
    /\ \A h \in Hashes, i \in Slots : heads[h] = i => pool[i].used /\ pool[i].hash = h

WellLinked(pool, heads) ==
    /\ FreeIsUnlinked(pool, heads)
    /\ DoublyLinked(pool)
    /\ HeadsAreFirst(pool, heads)

\* The unlinking and linking done by hand in SVC_BucketForAddress never breaks
\* a chain, in whatever order buckets expire and addresses come.
LinksOK == WellLinked(buckets, bucketHashes)

\* "Reclaim expired buckets" (sv_main.c:653): an address with no bucket is
\* turned away only when each bucket of the pool has had a request within the
\* time it takes to drain.
RefusedOnlyByLiveBuckets ==
    [][ \A a \in Address :
            /\ outcome'.adr = a /\ outcome'.verdict = "addressLimit"
            /\ \A i \in Slots : buckets[i].adr # a
            => \A i \in Slots :
                  Interval(Sys_Milliseconds, buckets[i].lastTime) \in 0..(Burst * Period)
      ]_vars

\* At most one wrong rcon password per second of the wall clock reaches the
\* script callback and the engine, from all addresses together, and setting
\* the clock back buys no attempt.
OneGuessPerSecond ==
    [][ /\ outcome'.verdict = "guess" => lasttime' > lasttime
        /\ lasttime' >= lasttime ]_vars

(* The pool implements a map from addresses to leaky buckets.                *)

SlotOf(a) == {i \in Slots : buckets[i].used /\ buckets[i].adr = a}

Meters ==
    INSTANCE AddressMeters WITH
        meter <- [a \in Address |->
                    LET b == IF SlotOf(a) = {} THEN FreeBucket
                             ELSE buckets[CHOOSE i \in SlotOf(a) : TRUE]
                    IN  [live |-> b.used, lastTime |-> b.lastTime, burst |-> b.burst]],
        passed <- [adr |-> outcome.adr, ok |-> outcome.verdict # "addressLimit"]

\* Seen from the senders of packets, slots, chains, recycling and links are
\* nothing but that map: a bucket is never shared, split or lost before its
\* time, and a refusal is due to a full bucket or to lack of room.
ImplementsAddressMeters == Meters!MeterSpec
==============================================================================
