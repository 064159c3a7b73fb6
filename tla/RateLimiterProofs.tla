-------------------------- MODULE RateLimiterProofs --------------------------
(***************************************************************************)
(* Theorems about RateLimiter and its history, for every pool size, number *)
(* of chains, hash function, limit and clock.                              *)
(***************************************************************************)
EXTENDS RateLimiterHistory, FiniteSetTheorems, WellFoundedInduction, TLAPS

------------------------------------------------------------------------------
(* One bucket *)

\* Reducing a number to the width of an int gives an int.
LEMMA ToIntType == \A x \in Int : ToInt(x) \in IntRange
  <1> SUFFICES ASSUME NEW x \in Int PROVE ToInt(x) \in IntRange
    OBVIOUS
  <1>1. IntLimit \in Nat /\ IntLimit > 0
    BY IntAssumption
  <1>2. (x + IntLimit) % (2 * IntLimit) \in 0..(2 * IntLimit - 1)
    BY <1>1, Z3
  <1>3. QED
    BY <1>1, <1>2 DEF ToInt, IntRange

\* Whole periods of an interval that is not negative are a natural number.
LEMMA QuotientType ==
    ASSUME NEW n \in Nat, NEW period \in Nat \ {0}
    PROVE  n \div period \in Nat /\ n % period \in Nat
  BY Z3

\* What leaking and pouring leave alone: where a bucket belongs and hangs.
SameLinks(b, c) ==
    /\ c.used = b.used /\ c.adr = b.adr /\ c.hash = b.hash
    /\ c.prev = b.prev /\ c.next = b.next

\* Leaking keeps a bucket a bucket and never adds to it.
LEMMA LeakType ==
    ASSUME NEW b \in Bucket, NEW now \in IntRange, NEW period \in Nat \ {0}
    PROVE  /\ Leak(b, now, period) \in Bucket
           /\ Leak(b, now, period).burst <= b.burst
           /\ SameLinks(b, Leak(b, now, period))
  <1> DEFINE interval == Interval(now, b.lastTime)
             expired == interval \div period
  <1>1. IntRange \subseteq Int
    BY IntAssumption DEF IntRange
  <1>2. b.lastTime \in IntRange /\ b.burst \in Nat
    BY DEF Bucket
  <1>3. interval \in IntRange
    <2>1. now \in Int /\ b.lastTime \in Int
      BY <1>2, IntAssumption DEF IntRange
    <2>2. QED
      BY <2>1, ToIntType, now - b.lastTime \in Int DEF Interval
  <1>4. CASE interval < 0 \/ expired > b.burst
    <2>1. Leak(b, now, period) = [b EXCEPT !.burst = 0, !.lastTime = now]
      BY <1>4 DEF Leak
    <2>2. [b EXCEPT !.burst = 0, !.lastTime = now] \in Bucket
      BY DEF Bucket
    <2>3. /\ Leak(b, now, period).burst = 0
          /\ SameLinks(b, Leak(b, now, period))
      BY <2>1 DEF Bucket, SameLinks
    <2>4. QED
      BY <2>1, <2>2, <2>3, <1>2
  <1>5. CASE ~(interval < 0 \/ expired > b.burst)
    <2>1. interval \in Nat
      <3> HIDE DEF interval
      <3>1. QED
        BY <1>5, <1>1, <1>3
    <2>2. expired \in Nat /\ interval % period \in Nat
      BY <2>1, QuotientType
    <2>3. Leak(b, now, period) =
            [b EXCEPT !.burst = @ - expired,
                      !.lastTime = ToInt(now - (interval % period))]
      BY <1>5 DEF Leak
    <2>4. ToInt(now - (interval % period)) \in IntRange
      <3> HIDE DEF interval
      <3>1. now - (interval % period) \in Int
        BY <2>2, <1>1
      <3>2. QED
        BY <3>1, ToIntType
    <2>5. b.burst - expired \in Nat /\ b.burst - expired <= b.burst
      <3> HIDE DEF expired
      <3>1. QED
        BY <2>2, <1>5, <1>2
    <2> HIDE DEF expired, interval
    <2>6. QED
      BY <2>3, <2>4, <2>5, <1>2 DEF Bucket, SameLinks
  <1>6. QED
    BY <1>4, <1>5

\* A request never lifts a bucket above its limit.
LEMMA RateLimitType ==
    ASSUME NEW b \in Bucket, NEW now \in IntRange, NEW period \in Nat \ {0},
           NEW burst \in Nat, b.burst <= burst
    PROVE  /\ SVC_RateLimit(b, now, burst, period) \in Bucket
           /\ SVC_RateLimit(b, now, burst, period).burst <= burst
           /\ SameLinks(b, SVC_RateLimit(b, now, burst, period))
  <1> DEFINE leaked == Leak(b, now, period)
  <1>1. leaked \in Bucket /\ leaked.burst <= b.burst /\ SameLinks(b, leaked)
    BY LeakType
  <1>2. SVC_RateLimit(b, now, burst, period) =
            IF leaked.burst < burst THEN [leaked EXCEPT !.burst = @ + 1] ELSE leaked
    BY DEF SVC_RateLimit
  <1>3. b.burst \in Nat
    BY DEF Bucket
  <1> HIDE DEF leaked
  <1>4. QED
    BY <1>1, <1>2, <1>3 DEF Bucket, SameLinks

------------------------------------------------------------------------------
(* The pool *)

\* A nonempty set of natural numbers has a least element.
LEMMA LeastNat ==
    ASSUME NEW T, T \subseteq Nat, T # {}
    PROVE  \E i \in T : \A j \in T : i <= j
  <1>1. \E i \in T : \A j \in T : ~(<<j, i>> \in OpToRel(<, Nat))
    BY NatLessThanWellFounded, WFMin
  <1>2. ASSUME NEW i \in Nat, NEW j \in Nat, j < i
        PROVE  <<j, i>> \in OpToRel(<, Nat)
    <2>1. <<j, i>> \in Nat \X Nat /\ <<j, i>>[1] < <<j, i>>[2]
      BY <1>2
    <2>2. QED
      BY <2>1, Zenon DEF OpToRel
  <1>3. PICK i \in T : \A j \in T : ~(<<j, i>> \in OpToRel(<, Nat))
    BY <1>1, Zenon
  <1>4. ASSUME NEW j \in T PROVE ~(j < i)
    BY <1>2, <1>3, Zenon
  <1>5. QED
    BY <1>4

\* Buckets are numbered, and NULL is none of them.
LEMMA SlotsAreNat == Slots \subseteq Nat /\ NULL \notin Slots
  BY PoolAssumption DEF Slots, NULL

\* The scan allocates one of the slots it may allocate.
LEMMA FirstAllocatableType ==
    ASSUME Allocatable # {}
    PROVE  FirstAllocatable \in Allocatable /\ FirstAllocatable \in Slots
  <1>1. Allocatable \subseteq Slots
    BY DEF Allocatable
  <1>2. \E i \in Allocatable : \A j \in Allocatable : i <= j
    BY <1>1, SlotsAreNat, LeastNat
  <1>3. QED
    BY <1>1, <1>2 DEF FirstAllocatable

\* A bucket found by the lookup holds the address looked up.
LEMMA LookupType ==
    ASSUME NEW a \in Address, Lookup(a) # NULL
    PROVE  Lookup(a) \in Slots /\ buckets[Lookup(a)].adr = a
  <1> DEFINE finds == {w \in Walks(SVC_HashForAddress(a)) :
                        \A n \in DOMAIN w : buckets[w[n]].adr = a <=> n = Len(w)}
             walk == CHOOSE w \in finds : TRUE
  <1>1. finds # {} /\ Lookup(a) = walk[Len(walk)]
    BY DEF Lookup
  <1>2. walk \in finds
    BY <1>1
  <1>3. PICK n \in 1..MAX_BUCKETS : walk \in [1..n -> Slots]
    BY <1>2 DEF Walks
  <1>4. n \in Nat \ {0} /\ Len(walk) = n /\ n \in DOMAIN walk
    BY <1>3, PoolAssumption
  <1>5. walk[n] \in Slots
    BY <1>3, <1>4
  <1>6. buckets[walk[n]].adr = a
    BY <1>2, <1>4
  <1>7. QED
    BY <1>1, <1>4, <1>5, <1>6

------------------------------------------------------------------------------
(* Links *)

PoolType(pool, heads) ==
    /\ pool \in [Slots -> Bucket]
    /\ \A i \in Slots : pool[i].burst <= Burst
    /\ heads \in [Hashes -> Slots \cup {NULL}]

\* A free bucket is empty.
LEMMA FreeBucketType == FreeBucket \in Bucket /\ FreeBucket.burst <= Burst
  <1>1. 0 \in IntRange /\ 0 \in Hashes /\ Burst \in Nat
    BY IntAssumption, PoolAssumption, LimitAssumption DEF IntRange, Hashes
  <1>2. QED
    BY <1>1 DEF FreeBucket, Bucket

\* Clearing an expired bucket leaves the other buckets well linked.
LEMMA UnlinkKeepsLinks ==
    ASSUME PoolType(buckets, bucketHashes), LinksOK, NEW i \in Slots,
           Reclaimable(i)
    PROVE  /\ PoolType(UnlinkedPool(i), UnlinkedHeads(i))
           /\ WellLinked(UnlinkedPool(i), UnlinkedHeads(i))
           /\ ~UnlinkedPool(i)[i].used
  <1> DEFINE b == buckets[i]
             P == UnlinkedPool(i)
             H == UnlinkedHeads(i)
  <1>1. buckets \in [Slots -> Bucket] /\ bucketHashes \in [Hashes -> Slots \cup {NULL}]
    BY DEF PoolType
  <1>2. b.used
    <2>1. b.lastTime > 0
      BY DEF Reclaimable, Expired
    <2>2. b # FreeBucket
      BY <2>1 DEF FreeBucket
    <2>3. QED
      BY <2>2 DEF LinksOK, WellLinked, FreeIsUnlinked
  <1>3. b.hash \in Hashes /\ b.next \in Slots \cup {NULL} /\ b.prev \in Slots \cup {NULL}
    BY <1>1 DEF Bucket
  <1>4. /\ P[i] = FreeBucket
        /\ \A j \in Slots \ {i} :
            /\ P[j] \in Bucket
            /\ P[j].burst = buckets[j].burst
            /\ P[j].used = buckets[j].used /\ P[j].adr = buckets[j].adr
            /\ P[j].hash = buckets[j].hash /\ P[j].lastTime = buckets[j].lastTime
            /\ P[j].next = IF j = b.prev THEN b.next ELSE buckets[j].next
            /\ P[j].prev = IF j = b.next THEN b.prev ELSE buckets[j].prev
    BY <1>1, <1>3 DEF UnlinkedPool, Bucket
  <1>4a. ASSUME NEW j \in Slots \ {i}, j # b.prev, j # b.next
         PROVE  P[j] = buckets[j]
    <2>1. buckets[j] \in Bucket
      BY <1>1
    <2>2. P[j] = [buckets[j] EXCEPT !.next = buckets[j].next, !.prev = buckets[j].prev]
      BY <1>4a, <2>1 DEF UnlinkedPool, Bucket
    <2>3. QED
      BY <2>1, <2>2 DEF Bucket
  <1>5. P \in [Slots -> Bucket] /\ \A j \in Slots : P[j].burst <= Burst
    <2>1. P = [j \in Slots |-> P[j]]
      BY DEF UnlinkedPool
    <2>2. QED
      BY <2>1, <1>4, FreeBucketType DEF PoolType
  <1>6. /\ H \in [Hashes -> Slots \cup {NULL}]
        /\ \A h \in Hashes : H[h] = IF b.prev = NULL /\ h = b.hash THEN b.next
                                    ELSE bucketHashes[h]
    BY <1>1, <1>3 DEF UnlinkedHeads
  <1>7. /\ FreeIsUnlinked(buckets, bucketHashes)
        /\ DoublyLinked(buckets)
        /\ HeadsAreFirst(buckets, bucketHashes)
    BY DEF LinksOK, WellLinked
  <1>8. NULL \notin Slots
    BY SlotsAreNat
  <1> HIDE DEF P, H
  <1>9. FreeIsUnlinked(P, H)
    <2>1. b.next # i \/ b.prev = i
      BY <1>2, <1>7 DEF DoublyLinked
    <2>2. \A j \in Slots : buckets[j].next = i => b.prev = j
      <3>1. \A j \in Slots : buckets[j].next = i => buckets[j].used
        BY <1>7, <1>8 DEF FreeIsUnlinked, FreeBucket
      <3>2. QED
        BY <3>1, <1>7 DEF DoublyLinked
    <2>3. \A j \in Slots : buckets[j].prev = i => b.next = j
      <3>1. \A j \in Slots : buckets[j].prev = i => buckets[j].used
        BY <1>7, <1>8 DEF FreeIsUnlinked, FreeBucket
      <3>2. QED
        BY <3>1, <1>7 DEF DoublyLinked
    <2>4. \A h \in Hashes : H[h] # i
      BY <1>2, <1>3, <1>6, <1>7, <1>8, <2>1 DEF HeadsAreFirst
    <2>5. \A j \in Slots : P[j].next # i /\ P[j].prev # i
      BY <1>4, <1>8, <2>1, <2>2, <2>3 DEF FreeBucket
    <2>6. ASSUME NEW k \in Slots \ {i}, ~P[k].used
          PROVE  /\ P[k] = FreeBucket
                 /\ \A h \in Hashes : H[h] # k
                 /\ \A j \in Slots : P[j].next # k /\ P[j].prev # k
      <3>1. /\ buckets[k] = FreeBucket
            /\ \A h \in Hashes : bucketHashes[h] # k
            /\ \A j \in Slots : buckets[j].next # k /\ buckets[j].prev # k
        BY <2>6, <1>4, <1>7 DEF FreeIsUnlinked
      <3>2. k # b.next /\ k # b.prev
        BY <3>1
      <3>3. QED
        BY <3>1, <3>2, <1>4, <1>4a, <1>6, <1>8 DEF FreeBucket
    <2>7. QED
      BY <1>4, <2>4, <2>5, <2>6 DEF FreeIsUnlinked
  <1>10. DoublyLinked(P)
    BY <1>2, <1>3, <1>4, <1>7, <1>8
       DEF FreeIsUnlinked, DoublyLinked, HeadsAreFirst, FreeBucket
  <1>11. HeadsAreFirst(P, H)
    <2>1. ASSUME NEW k \in Slots, P[k].used
          PROVE  /\ P[k].adr \in Address
                 /\ P[k].hash = SVC_HashForAddress(P[k].adr)
                 /\ P[k].prev = NULL <=> H[P[k].hash] = k
      <3>1. k # i /\ buckets[k].used
        BY <2>1, <1>4 DEF FreeBucket
      <3>2. /\ buckets[k].adr \in Address
            /\ buckets[k].hash = SVC_HashForAddress(buckets[k].adr)
            /\ buckets[k].prev = NULL <=> bucketHashes[buckets[k].hash] = k
            /\ buckets[k].hash \in Hashes
        BY <3>1, <1>1, <1>7 DEF HeadsAreFirst, Bucket
      <3>3. P[k].hash = buckets[k].hash /\ P[k].adr = buckets[k].adr
        BY <3>1, <1>4
      <3>4. CASE k = b.next
        <4>1. buckets[k].hash = b.hash /\ buckets[k].prev = i /\ P[k].prev = b.prev
          BY <3>1, <3>4, <1>2, <1>4, <1>7 DEF DoublyLinked
        <4>2. bucketHashes[b.hash] # k
          BY <4>1, <3>2, <1>8
        <4>3. QED
          BY <3>2, <3>3, <3>4, <4>1, <4>2, <1>3, <1>6
      <3>5. CASE k # b.next
        <4>1. P[k].prev = buckets[k].prev
          BY <3>1, <3>5, <1>4
        <4>2. b.prev = NULL => bucketHashes[b.hash] = i
          BY <1>2, <1>7 DEF HeadsAreFirst
        <4>3. QED
          BY <3>1, <3>2, <3>3, <3>5, <4>1, <4>2, <1>3, <1>6
      <3>6. QED
        BY <3>2, <3>3, <3>4, <3>5
    <2>2. ASSUME NEW h \in Hashes, NEW k \in Slots, H[h] = k
          PROVE  P[k].used /\ P[k].hash = h
      <3>1. CASE b.prev = NULL /\ h = b.hash
        <4>1. k = b.next
          BY <3>1, <2>2, <1>6
        <4>2. buckets[k].prev = i /\ buckets[k].hash = b.hash
          BY <4>1, <1>2, <1>7 DEF DoublyLinked
        <4>3. buckets[k].used
          BY <4>2, <1>7, <1>8 DEF FreeIsUnlinked, FreeBucket
        <4>4. k # i
          BY <4>2, <3>1, <1>8
        <4>5. QED
          BY <4>2, <4>3, <4>4, <3>1, <1>4
      <3>2. CASE ~(b.prev = NULL /\ h = b.hash)
        <4>1. bucketHashes[h] = k
          BY <3>2, <2>2, <1>6
        <4>2. buckets[k].used /\ buckets[k].hash = h
          BY <4>1, <1>7 DEF HeadsAreFirst
        <4>3. k # i
          BY <4>1, <4>2, <3>2, <1>2, <1>7 DEF HeadsAreFirst
        <4>4. QED
          BY <4>2, <4>3, <1>4
      <3>3. QED
        BY <3>1, <3>2
    <2>3. QED
      BY <2>1, <2>2 DEF HeadsAreFirst
  <1>12. QED
    BY <1>4, <1>5, <1>6, <1>9, <1>10, <1>11 DEF P, H, WellLinked, PoolType, FreeBucket

\* Hanging a free bucket on the head of a chain keeps the pool well linked.
LEMMA LinkKeepsLinks ==
    ASSUME NEW pool, NEW heads, NEW i \in Slots, NEW a \in Address,
           clock \in Int, PoolType(pool, heads), WellLinked(pool, heads),
           ~pool[i].used
    PROVE  /\ PoolType(LinkedPool(pool, heads, i, a), LinkedHeads(heads, i, a))
           /\ WellLinked(LinkedPool(pool, heads, i, a), LinkedHeads(heads, i, a))
           /\ LinkedPool(pool, heads, i, a)[i].used
  <1> DEFINE h == SVC_HashForAddress(a)
             P == LinkedPool(pool, heads, i, a)
             H == LinkedHeads(heads, i, a)
  <1>1. pool \in [Slots -> Bucket] /\ heads \in [Hashes -> Slots \cup {NULL}]
    BY DEF PoolType
  <1>2. h \in Hashes
    BY PoolAssumption DEF SVC_HashForAddress, Hashes
  <1>3. /\ P[i].used /\ P[i].adr = a /\ P[i].burst = 0
        /\ P[i].lastTime = Sys_Milliseconds
        /\ P[i].hash = h /\ P[i].prev = NULL /\ P[i].next = heads[h]
        /\ \A j \in Slots \ {i} :
            /\ P[j] \in Bucket
            /\ P[j].used = pool[j].used /\ P[j].adr = pool[j].adr
            /\ P[j].hash = pool[j].hash /\ P[j].burst = pool[j].burst
            /\ P[j].next = pool[j].next
            /\ P[j].prev = IF j = heads[h] THEN i ELSE pool[j].prev
            /\ j # heads[h] => P[j] = pool[j]
    BY <1>1, <1>2 DEF LinkedPool, Bucket
  <1>4. P \in [Slots -> Bucket] /\ \A j \in Slots : P[j].burst <= Burst
    <2>1. P = [j \in Slots |-> P[j]]
      BY DEF LinkedPool
    <2>2. Sys_Milliseconds \in IntRange
      BY ToIntType DEF Sys_Milliseconds
    <2>3. P[i] \in Bucket
      BY <1>1, <1>2, <2>2 DEF LinkedPool, Bucket
    <2>4. Burst \in Nat
      BY LimitAssumption
    <2> HIDE DEF P
    <2>5. QED
      BY <2>1, <2>3, <2>4, <1>3 DEF PoolType
  <1>5. H \in [Hashes -> Slots \cup {NULL}] /\ H = [heads EXCEPT ![h] = i]
    BY <1>1, <1>2 DEF LinkedHeads
  <1>6. FreeIsUnlinked(pool, heads) /\ DoublyLinked(pool) /\ HeadsAreFirst(pool, heads)
    BY DEF WellLinked
  <1>7. NULL \notin Slots
    BY SlotsAreNat
  <1>8. heads[h] \in Slots \cup {NULL} /\ heads[h] # i
    BY <1>1, <1>2, <1>6 DEF FreeIsUnlinked
  <1>9. h = SVC_HashForAddress(a)
    OBVIOUS
  <1> HIDE DEF P, H, h
  <1>10. FreeIsUnlinked(P, H)
    BY <1>1, <1>2, <1>3, <1>5, <1>6, <1>7, <1>8 DEF FreeIsUnlinked, HeadsAreFirst
  <1>11. DoublyLinked(P)
    BY <1>1, <1>2, <1>3, <1>6, <1>7, <1>8
       DEF FreeIsUnlinked, DoublyLinked, HeadsAreFirst
  <1>12. HeadsAreFirst(P, H)
    BY <1>1, <1>2, <1>3, <1>5, <1>6, <1>7, <1>8, <1>9
       DEF FreeIsUnlinked, DoublyLinked, HeadsAreFirst
  <1>13. QED
    BY <1>3, <1>4, <1>5, <1>10, <1>11, <1>12 DEF P, H, WellLinked, PoolType

\* Pouring a request into a bucket in use leaves every link as it was.
LEMMA PourKeepsLinks ==
    ASSUME NEW pool, NEW heads, NEW i \in Slots, clock \in Int,
           PoolType(pool, heads), WellLinked(pool, heads), pool[i].used
    PROVE  LET poured == [pool EXCEPT
                    ![i] = SVC_RateLimit(@, Sys_Milliseconds, Burst, Period)]
           IN  PoolType(poured, heads) /\ WellLinked(poured, heads)
  <1> DEFINE c == SVC_RateLimit(pool[i], Sys_Milliseconds, Burst, Period)
             P == [pool EXCEPT ![i] = c]
  <1>1. pool \in [Slots -> Bucket] /\ pool[i].burst <= Burst
    BY DEF PoolType
  <1>2. Sys_Milliseconds \in IntRange
    BY ToIntType DEF Sys_Milliseconds
  <1>3. c \in Bucket /\ c.burst <= Burst /\ SameLinks(pool[i], c)
    BY <1>1, <1>2, RateLimitType, LimitAssumption
  <1> HIDE DEF c
  <1>4. PoolType(P, heads)
    BY <1>3 DEF PoolType
  <1>5. \A j \in Slots : SameLinks(pool[j], P[j]) /\ (j # i => P[j] = pool[j])
    BY <1>1, <1>3 DEF SameLinks
  <1>6. FreeIsUnlinked(pool, heads) /\ DoublyLinked(pool) /\ HeadsAreFirst(pool, heads)
    BY DEF WellLinked
  <1> HIDE DEF P
  <1>7. FreeIsUnlinked(P, heads)
    BY <1>5, <1>6 DEF FreeIsUnlinked, SameLinks
  <1>8. DoublyLinked(P)
    BY <1>5, <1>6 DEF DoublyLinked, SameLinks
  <1>9. HeadsAreFirst(P, heads)
    BY <1>5, <1>6 DEF HeadsAreFirst, SameLinks
  <1>10. QED
    BY <1>4, <1>7, <1>8, <1>9 DEF WellLinked, P, c

\* Finding or allocating a bucket for an address.
LEMMA BucketForAddressKeepsLinks ==
    ASSUME NEW a \in Address, clock \in Int,
           PoolType(buckets, bucketHashes), LinksOK
    PROVE  /\ PoolType(PoolFor(a), HeadsFor(a))
           /\ WellLinked(PoolFor(a), HeadsFor(a))
           /\ SVC_BucketForAddress(a) # NULL =>
                /\ SVC_BucketForAddress(a) \in Slots
                /\ PoolFor(a)[SVC_BucketForAddress(a)].used
  <1>1. CASE Lookup(a) # NULL
    <2>1. PoolFor(a) = buckets /\ HeadsFor(a) = bucketHashes
          /\ SVC_BucketForAddress(a) = Lookup(a)
      BY <1>1 DEF PoolFor, HeadsFor, Allocates, SVC_BucketForAddress
    <2>2. Lookup(a) \in Slots /\ buckets[Lookup(a)].adr = a
      BY <1>1, LookupType
    <2>3. buckets[Lookup(a)].used
      <3>1. a # FreeBucket.adr
        BY PoolAssumption DEF FreeBucket, NoAddress
      <3>2. QED
        BY <2>2, <3>1 DEF LinksOK, WellLinked, FreeIsUnlinked
    <2>4. QED
      BY <2>1, <2>2, <2>3 DEF LinksOK
  <1>2. CASE Lookup(a) = NULL /\ Allocatable = {}
    <2>1. PoolFor(a) = buckets /\ HeadsFor(a) = bucketHashes
          /\ SVC_BucketForAddress(a) = NULL
      BY <1>2 DEF PoolFor, HeadsFor, Allocates, SVC_BucketForAddress
    <2>2. QED
      BY <2>1 DEF LinksOK
  <1>3. CASE Lookup(a) = NULL /\ Allocatable # {}
    <2> DEFINE i == FirstAllocatable
    <2>1. /\ PoolFor(a) = LinkedPool(UnlinkedPool(i), UnlinkedHeads(i), i, a)
          /\ HeadsFor(a) = LinkedHeads(UnlinkedHeads(i), i, a)
          /\ SVC_BucketForAddress(a) = i
      BY <1>3 DEF PoolFor, HeadsFor, Allocates, SVC_BucketForAddress
    <2>2. i \in Slots /\ i \in Allocatable
      BY <1>3, FirstAllocatableType
    <2> HIDE DEF i
    <2>3. /\ PoolType(UnlinkedPool(i), UnlinkedHeads(i))
          /\ WellLinked(UnlinkedPool(i), UnlinkedHeads(i))
          /\ ~UnlinkedPool(i)[i].used
      <3>1. CASE Reclaimable(i)
        BY <3>1, <2>2, UnlinkKeepsLinks
      <3>2. CASE ~Reclaimable(i)
        BY <3>2, <2>2 DEF UnlinkedPool, UnlinkedHeads, Allocatable, LinksOK
      <3>3. QED
        BY <3>1, <3>2
    <2>4. QED
      BY <2>1, <2>2, <2>3, LinkKeepsLinks
  <1>4. QED
    BY <1>1, <1>2, <1>3

\* The whole of SVC_RateLimitAddress.
LEMMA RateLimitAddressKeepsLinks ==
    ASSUME NEW a \in Address, TypeOK, LinksOK, SVC_RateLimitAddress(a)
    PROVE  PoolType(buckets', bucketHashes') /\ LinksOK'
  <1> DEFINE i == SVC_BucketForAddress(a)
  <1>1. clock \in Int /\ PoolType(buckets, bucketHashes)
    BY DEF TypeOK, PoolType
  <1>2. /\ PoolType(PoolFor(a), HeadsFor(a)) /\ WellLinked(PoolFor(a), HeadsFor(a))
        /\ i # NULL => i \in Slots /\ PoolFor(a)[i].used
    BY <1>1, BucketForAddressKeepsLinks
  <1>3. /\ bucketHashes' = HeadsFor(a)
        /\ buckets' = IF i = NULL THEN PoolFor(a)
                      ELSE [PoolFor(a) EXCEPT
                              ![i] = SVC_RateLimit(@, Sys_Milliseconds, Burst, Period)]
    BY DEF SVC_RateLimitAddress
  <1> HIDE DEF i
  <1>4. PoolType(buckets', bucketHashes') /\ WellLinked(buckets', bucketHashes')
    <2>1. CASE i = NULL
      BY <2>1, <1>2, <1>3
    <2>2. CASE i # NULL
      BY <2>2, <1>1, <1>2, <1>3, PourKeepsLinks
    <2>3. QED
      BY <2>1, <2>2
  <1>5. QED
    BY <1>4 DEF LinksOK

\* The two buckets that belong to no address.
LEMMA SharedBucketType ==
    ASSUME TypeOK
    PROVE  LET out == SVC_RateLimit(outboundLeakyBucket, Sys_Milliseconds,
                                    OutBurst, OutPeriod)
               rcon == SVC_RateLimit(rconBucket, Sys_Milliseconds, Burst, Period)
           IN  /\ out \in Bucket /\ out.burst <= OutBurst
               /\ rcon \in Bucket /\ rcon.burst <= Burst
  <1>1. Sys_Milliseconds \in IntRange
    BY ToIntType DEF Sys_Milliseconds, TypeOK
  <1>2. QED
    BY <1>1, RateLimitType, LimitAssumption DEF TypeOK

------------------------------------------------------------------------------
(* The invariant of pool and links, and the guesses *)

IInv == TypeOK /\ LinksOK

\* Types and links hold at first.
LEMMA InitEstablishesIInv == Init => IInv
  <1> SUFFICES ASSUME Init PROVE IInv
    OBVIOUS
  <1>1. TypeOK
    <2>1. StartClock \in Int /\ Burst \in Nat /\ OutBurst \in Nat
      BY ClockAssumption, LimitAssumption
    <2>2. FreeBucket.burst = 0
      BY DEF FreeBucket
    <2>3. QED
      BY <2>1, <2>2, FreeBucketType DEF Init, TypeOK, Verdicts
  <1>2. LinksOK
    <2>1. FreeBucket.used = FALSE /\ FreeBucket.next = NULL /\ FreeBucket.prev = NULL
      BY DEF FreeBucket
    <2>2. QED
      BY <2>1, SlotsAreNat
         DEF Init, LinksOK, WellLinked, FreeIsUnlinked, DoublyLinked, HeadsAreFirst
  <1>3. QED
    BY <1>1, <1>2 DEF IInv

\* Every step keeps them.
LEMMA NextKeepsIInv == IInv /\ [Next]_vars => IInv'
  <1> SUFFICES ASSUME IInv, [Next]_vars PROVE IInv'
    OBVIOUS
  <1>1. TypeOK /\ LinksOK
    BY DEF IInv
  <1>2. \A a \in Address \cup {NoAddress}, v \in Verdicts :
            Says(a, v) => outcome' \in [adr : Address \cup {NoAddress},
                                        verdict : Verdicts]
    BY DEF Says
  <1>3. ASSUME NEW a \in Address, NEW wellFormed \in BOOLEAN, Query(a, wellFormed)
        PROVE  IInv'
    <2>1. PoolType(buckets', bucketHashes') /\ LinksOK'
      BY <1>1, <1>3, RateLimitAddressKeepsLinks DEF Query
    <2>2. outboundLeakyBucket' \in Bucket /\ outboundLeakyBucket'.burst <= OutBurst
      BY <1>1, <1>3, SharedBucketType DEF Query, TypeOK
    <2>3. \E v \in Verdicts : Says(a, v)
      BY <1>3 DEF Query, Verdicts
    <2>4. clock' = clock /\ rconBucket' = rconBucket /\ lasttime' = lasttime
      BY <1>3 DEF Query
    <2>5. QED
      BY <1>1, <1>2, <2>1, <2>2, <2>3, <2>4 DEF IInv, TypeOK, PoolType
  <1>4. ASSUME NEW a \in Address, RconGood(a)
        PROVE  IInv'
    <2>1. PoolType(buckets', bucketHashes') /\ LinksOK'
      BY <1>1, <1>4, RateLimitAddressKeepsLinks DEF RconGood
    <2>2. \E v \in Verdicts : Says(a, v)
      BY <1>4 DEF RconGood, Verdicts
    <2>3. /\ clock' = clock /\ rconBucket' = rconBucket /\ lasttime' = lasttime
          /\ outboundLeakyBucket' = outboundLeakyBucket
      BY <1>4 DEF RconGood
    <2>4. QED
      BY <1>1, <1>2, <2>1, <2>2, <2>3 DEF IInv, TypeOK, PoolType
  <1>5. ASSUME NEW a \in Address, NEW passwordSet \in BOOLEAN, RconBad(a, passwordSet)
        PROVE  IInv'
    <2>1. PoolType(buckets', bucketHashes') /\ LinksOK'
      BY <1>1, <1>5, RateLimitAddressKeepsLinks DEF RconBad
    <2>2. rconBucket' \in Bucket /\ rconBucket'.burst <= Burst
      BY <1>1, <1>5, SharedBucketType DEF RconBad, TypeOK
    <2>3. \E v \in Verdicts : Says(a, v)
      <3>1. CASE AddressLimited(a)
        BY <1>5, <3>1 DEF RconBad, Verdicts
      <3>2. CASE ~AddressLimited(a)
        <4> DEFINE passes == ~Limited(rconBucket, Sys_Milliseconds, Burst, Period)
                   allowed == passwordSet /\ GuessAllowed
        <4>1. Says(a, CASE ~passes -> "rconLimit"
                        [] passes /\ ~passwordSet -> "noPassword"
                        [] passes /\ passwordSet /\ ~allowed -> "tooSoon"
                        [] passes /\ allowed -> "guess")
          BY <1>5, <3>2 DEF RconBad
        <4> HIDE DEF passes
        <4>2. QED
          BY <4>1 DEF Verdicts
      <3>3. QED
        BY <3>1, <3>2
    <2>4. lasttime' \in Int
      <3>1. lasttime \in Int /\ WallSecond \in Int
        BY <1>1, LimitAssumption DEF TypeOK, WallSecond
      <3>2. lasttime' \in {WallSecond, lasttime}
        BY <1>5 DEF RconBad
      <3>3. QED
        BY <3>1, <3>2
    <2>5. clock' = clock /\ outboundLeakyBucket' = outboundLeakyBucket
      BY <1>5 DEF RconBad
    <2>6. QED
      BY <1>1, <1>2, <2>1, <2>2, <2>3, <2>4, <2>5 DEF IInv, TypeOK, PoolType
  <1>6. ASSUME NEW d \in ClockSteps, ClockStep(d)
        PROVE  IInv'
    <2>1. clock' \in Int
      BY <1>6 DEF ClockStep
    <2>2. outcome' \in [adr : Address \cup {NoAddress}, verdict : Verdicts]
      BY <1>2, <1>6 DEF ClockStep, Verdicts
    <2>3. QED
      BY <1>1, <1>6, <2>1, <2>2 DEF ClockStep, IInv, TypeOK, LinksOK
  <1>7. CASE UNCHANGED vars
    BY <1>1, <1>7 DEF vars, IInv, TypeOK, LinksOK
  <1>8. QED
    BY <1>3, <1>4, <1>5, <1>6, <1>7 DEF Next

\* Every variable keeps its type, and no bucket ever holds more requests than
\* its limit: the signed char of leakyBucket_t never overflows.
THEOREM TypeCorrect == Spec => []TypeOK
  <1>1. IInv => TypeOK
    BY DEF IInv
  <1>2. QED
    BY InitEstablishesIInv, NextKeepsIInv, <1>1, PTL DEF Spec

\* The hand-made links of SVC_BucketForAddress stay consistent: free buckets
\* hang nowhere, next and prev are inverse, heads are first, and a bucket lies
\* on the chain its address hashes to.
THEOREM LinksCorrect == Spec => []LinksOK
  <1>1. IInv => LinksOK
    BY DEF IInv
  <1>2. QED
    BY InitEstablishesIInv, NextKeepsIInv, <1>1, PTL DEF Spec

\* A wrong rcon password gets through only in a later second of the wall clock
\* than the one before, whoever sent the two and however the clock is set.
THEOREM GuessSpacing == Spec => OneGuessPerSecond
  <1> DEFINE Spaced ==
        /\ outcome'.verdict = "guess" => lasttime' > lasttime
        /\ lasttime' >= lasttime
  <1>1. IInv /\ [Next]_vars => [Spaced]_vars
    <2> SUFFICES ASSUME IInv, Next PROVE Spaced
      OBVIOUS
    <2>1. lasttime \in Int /\ WallSecond \in Int
      BY LimitAssumption DEF IInv, TypeOK, WallSecond
    <2>2. CASE lasttime' = lasttime /\ outcome'.verdict # "guess"
      BY <2>1, <2>2
    <2>3. ASSUME NEW a \in Address, NEW passwordSet \in BOOLEAN,
                 RconBad(a, passwordSet)
          PROVE  Spaced
      <3> DEFINE passes == ~Limited(rconBucket, Sys_Milliseconds, Burst, Period)
                 allowed == passwordSet /\ GuessAllowed
      <3> HIDE DEF passes
      <3>1. CASE AddressLimited(a)
        BY <2>2, <2>3, <3>1 DEF RconBad, Says
      <3>2. CASE ~AddressLimited(a) /\ passes /\ allowed
        <4>1. lasttime' = WallSecond
          BY <2>3, <3>2 DEF RconBad, passes
        <4>2. QED
          BY <4>1, <3>2, <2>1 DEF GuessAllowed
      <3>3. CASE ~AddressLimited(a) /\ ~(passes /\ allowed)
        <4>1. lasttime' = lasttime
          BY <2>3, <3>3 DEF RconBad, passes
        <4>2. outcome'.verdict = CASE ~passes -> "rconLimit"
                        [] passes /\ ~passwordSet -> "noPassword"
                        [] passes /\ passwordSet /\ ~allowed -> "tooSoon"
                        [] passes /\ allowed -> "guess"
          BY <2>3, <3>3 DEF RconBad, Says, passes
        <4>3. outcome'.verdict # "guess"
          BY <4>2, <3>3
        <4>4. QED
          BY <4>1, <4>3, <2>2
      <3>4. QED
        BY <3>1, <3>2, <3>3
    <2>4. ASSUME NEW a \in Address, NEW wellFormed \in BOOLEAN, Query(a, wellFormed)
          PROVE  Spaced
      BY <2>2, <2>4 DEF Query, Says
    <2>5. ASSUME NEW a \in Address, RconGood(a)
          PROVE  Spaced
      BY <2>2, <2>5 DEF RconGood, Says
    <2>6. ASSUME NEW d \in ClockSteps, ClockStep(d)
          PROVE  Spaced
      BY <2>2, <2>6 DEF ClockStep, Says
    <2>7. QED
      BY <2>3, <2>4, <2>5, <2>6 DEF Next
  <1>2. QED
    BY InitEstablishesIInv, NextKeepsIInv, <1>1, PTL DEF Spec, OneGuessPerSecond

------------------------------------------------------------------------------
(* Chains can be walked *)

\* The slots of the pool can be numbered so that next always goes up: no bucket
\* in use lies on a ring, which links that only point back at each other allow.
Ascending(pool, rank) ==
    \A i, j \in Slots : pool[i].used /\ pool[i].next = j => rank[i] < rank[j]

Acyclic(pool) == \E rank \in [Slots -> Nat] : Ascending(pool, rank)

Holds(pool, i, a) == pool[i].used /\ pool[i].adr = a

\* No address has two buckets.
OneBucketEach(pool) ==
    \A i, j \in Slots, a \in Address : Holds(pool, i, a) /\ Holds(pool, j, a) => i = j

\* A walk of n buckets down to slot i, on which the rank goes up.
Path(w, n, i, rank) ==
    /\ w \in [1..n -> Slots]
    /\ w[1] = bucketHashes[buckets[i].hash]
    /\ w[n] = i
    /\ \A k \in 1..(n - 1) : w[k + 1] = buckets[w[k]].next
    /\ \A j, k \in 1..n : j < k => rank[w[j]] < rank[w[k]]

Reached(i, rank) == \E n \in Nat \ {0} : \E w : Path(w, n, i, rank)

\* One more bucket on a walk.
LEMMA LongerPath ==
    ASSUME NEW i \in Slots, NEW p \in Slots, NEW rank \in [Slots -> Nat],
           buckets[p].next = i, buckets[p].hash = buckets[i].hash,
           rank[p] < rank[i], Reached(p, rank)
    PROVE  Reached(i, rank)
  <1>0. PICK n \in Nat \ {0} : \E w : Path(w, n, p, rank)
    BY Zenon DEF Reached
  <1>1. PICK w : Path(w, n, p, rank)
    BY <1>0
  <1> DEFINE v == [k \in 1..(n + 1) |-> IF k = n + 1 THEN i ELSE w[k]]
  <1>2. /\ w \in [1..n -> Slots]
        /\ w[1] = bucketHashes[buckets[p].hash]
        /\ w[n] = p
        /\ \A k \in 1..(n - 1) : w[k + 1] = buckets[w[k]].next
        /\ \A j, k \in 1..n : j < k => rank[w[j]] < rank[w[k]]
    BY <1>1, Zenon DEF Path
  <1>3. v \in [1..(n + 1) -> Slots] /\ v[n + 1] = i /\ \A k \in 1..n : v[k] = w[k]
    BY <1>2
  <1> HIDE DEF v
  <1>4. v[1] = bucketHashes[buckets[i].hash]
    BY <1>2, <1>3, 1 \in 1..n
  <1>5. ASSUME NEW k \in 1..((n + 1) - 1)
        PROVE  v[k + 1] = buckets[v[k]].next
    <2>1. CASE k = n
      BY <2>1, <1>2, <1>3
    <2>2. CASE k # n
      <3>1. k \in 1..(n - 1) /\ k + 1 \in 1..n /\ k \in 1..n
        BY <2>2
      <3>2. v[k + 1] = w[k + 1] /\ v[k] = w[k] /\ w[k + 1] = buckets[w[k]].next
        BY <3>1, <1>2, <1>3
      <3> QED
        BY <3>2
    <2> QED
      BY <2>1, <2>2
  <1>6. ASSUME NEW j \in 1..(n + 1), NEW k \in 1..(n + 1), j < k
        PROVE  rank[v[j]] < rank[v[k]]
    <2>1. j \in 1..n /\ v[j] = w[j]
      BY <1>3, <1>6
    <2>2. CASE k \in 1..n
      BY <2>1, <2>2, <1>2, <1>3, <1>6
    <2>3. CASE k \notin 1..n
      <3>1. v[k] = i
        BY <2>3, <1>3
      <3>2. j = n \/ rank[w[j]] < rank[w[n]]
        BY <2>1, <1>2, n \in 1..n
      <3>3. w[j] \in Slots /\ w[n] = p
        BY <2>1, <1>2
      <3> QED
        BY <2>1, <3>1, <3>2, <3>3
    <2> QED
      BY <2>2, <2>3
  <1>7. Path(v, n + 1, i, rank)
    BY <1>3, <1>4, <1>5, <1>6, Zenon DEF Path
  <1> QED
    BY <1>7, n + 1 \in Nat \ {0}, Zenon DEF Reached

\* A walk from the head of its chain reaches every bucket in use.
LEMMA AllReached ==
    ASSUME TypeOK, LinksOK, NEW rank \in [Slots -> Nat], Ascending(buckets, rank),
           NEW i \in Slots, buckets[i].used
    PROVE  Reached(i, rank)
  <1> DEFINE Lost == {j \in Slots : buckets[j].used /\ ~Reached(j, rank)}
             T == {rank[j] : j \in Lost}
  <1>1. SUFFICES ASSUME Lost # {} PROVE FALSE
    BY Zenon
  <1>2. T \subseteq Nat /\ T # {}
    BY <1>1
  <1>3. PICK m \in T : \A k \in T : m <= k
    BY <1>2, LeastNat
  <1>4. PICK j \in Lost : m = rank[j]
    BY <1>3
  <1>5. j \in Slots /\ buckets[j].used /\ ~Reached(j, rank)
    BY <1>4
  <1>6. \A k \in Lost : rank[j] <= rank[k]
    BY <1>3, <1>4
  <1> HIDE DEF Lost, T
  <1>7. /\ FreeIsUnlinked(buckets, bucketHashes)
        /\ DoublyLinked(buckets)
        /\ HeadsAreFirst(buckets, bucketHashes)
        /\ buckets[j] \in Bucket
    BY <1>5 DEF TypeOK, LinksOK, WellLinked
  <1>8. buckets[j].prev \in Slots \cup {NULL}
    BY <1>7 DEF Bucket
  <1>9. CASE buckets[j].prev = NULL
    <2> DEFINE w == [k \in 1..1 |-> j]
    <2>1. bucketHashes[buckets[j].hash] = j
      BY <1>5, <1>7, <1>9 DEF HeadsAreFirst
    <2>2. Path(w, 1, j, rank)
      BY <2>1, <1>5 DEF Path
    <2> QED
      BY <2>2, <1>5 DEF Reached
  <1>10. CASE buckets[j].prev # NULL
    <2> DEFINE p == buckets[j].prev
    <2>1. p \in Slots /\ buckets[p].next = j /\ buckets[p].hash = buckets[j].hash
      BY <1>5, <1>7, <1>8, <1>10 DEF DoublyLinked
    <2>2. buckets[p].used
      BY <2>1, <1>5, <1>7, SlotsAreNat DEF FreeIsUnlinked, FreeBucket
    <2>3. rank[p] < rank[j]
      BY <2>1, <2>2, <1>5 DEF Ascending
    <2> HIDE DEF p
    <2>4. Reached(p, rank)
      BY <2>1, <2>2, <2>3, <1>5, <1>6 DEF Lost
    <2> QED
      BY <2>1, <2>3, <2>4, <1>5, LongerPath
  <1> QED
    BY <1>9, <1>10

\* A walk on which the rank goes up is no longer than the pool.
LEMMA PathsAreShort ==
    ASSUME NEW rank \in [Slots -> Nat], NEW n \in Nat \ {0}, NEW w, NEW i \in Slots,
           Path(w, n, i, rank)
    PROVE  n \in 1..MAX_BUCKETS /\ \A j, k \in 1..n : w[j] = w[k] => j = k
  <1>1. w \in [1..n -> Slots] /\ \A j, k \in 1..n : j < k => rank[w[j]] < rank[w[k]]
    BY Zenon DEF Path
  <1>2. ASSUME NEW j \in 1..n, NEW k \in 1..n, w[j] = w[k]
        PROVE  j = k
    <2>1. w[j] \in Slots /\ rank[w[j]] \in Nat
      BY <1>1
    <2>2. ~(j < k) /\ ~(k < j)
      BY <2>1, <1>1, <1>2
    <2> QED
      BY <2>2
  <1>3. w \in Injection(1..n, Slots)
    BY <1>1, <1>2 DEF Injection, IsInjective
  <1>4. IsFiniteSet(Slots) /\ Cardinality(Slots) = MAX_BUCKETS
    BY FS_Interval, PoolAssumption DEF Slots
  <1>5. Cardinality(1..n) = n
    BY FS_Interval
  <1>6. Cardinality(1..n) <= Cardinality(Slots)
    BY <1>3, <1>4, FS_Injection
  <1> QED
    BY <1>2, <1>4, <1>5, <1>6, PoolAssumption

\* The lookup finds the bucket of an address that has one.
LEMMA LookupFinds ==
    ASSUME TypeOK, LinksOK, Acyclic(buckets), OneBucketEach(buckets),
           NEW a \in Address, NEW i \in Slots, Holds(buckets, i, a)
    PROVE  Lookup(a) = i
  <1> DEFINE finds == {w \in Walks(SVC_HashForAddress(a)) :
                        \A n \in DOMAIN w : buckets[w[n]].adr = a <=> n = Len(w)}
             walk == CHOOSE w \in finds : TRUE
  <1>1. PICK rank \in [Slots -> Nat] : Ascending(buckets, rank)
    BY Zenon DEF Acyclic
  <1>2. Reached(i, rank)
    BY <1>1, AllReached DEF Holds
  <1>0. PICK n \in Nat \ {0} : \E w : Path(w, n, i, rank)
    BY <1>2, Zenon DEF Reached
  <1>3. PICK w : Path(w, n, i, rank)
    BY <1>0
  <1>4. n \in 1..MAX_BUCKETS /\ \A j, k \in 1..n : w[j] = w[k] => j = k
    BY <1>3, PathsAreShort
  <1>5. /\ w \in [1..n -> Slots]
        /\ w[1] = bucketHashes[buckets[i].hash]
        /\ w[n] = i
        /\ \A k \in 1..(n - 1) : w[k + 1] = buckets[w[k]].next
    BY <1>3, Zenon DEF Path
  <1>6. buckets[i].hash = SVC_HashForAddress(a)
    BY DEF Holds, LinksOK, WellLinked, HeadsAreFirst
  <1>7. Len(w) = n /\ DOMAIN w = 1..n
    BY <1>5
  <1>8. w \in Walks(SVC_HashForAddress(a))
    <2>1. w \in UNION {[1..k -> Slots] : k \in 1..MAX_BUCKETS}
      BY <1>4, <1>5, Zenon
    <2> QED
      BY <2>1, <1>5, <1>6, <1>7 DEF Walks
  <1>9. ASSUME NEW k \in 1..n
        PROVE  buckets[w[k]].adr = a <=> k = n
    <2>1. w[k] \in Slots
      BY <1>5
    <2>2. ASSUME buckets[w[k]].adr = a PROVE k = n
      <3>1. buckets[w[k]].used
        BY <2>1, <2>2, PoolAssumption
           DEF LinksOK, WellLinked, FreeIsUnlinked, FreeBucket, NoAddress
      <3>2. w[k] = i
        BY <2>1, <2>2, <3>1 DEF OneBucketEach, Holds
      <3> QED
        BY <3>2, <1>4, <1>5
    <2>3. ASSUME k = n PROVE buckets[w[k]].adr = a
      BY <2>3, <1>5 DEF Holds
    <2> QED
      BY <2>2, <2>3
  <1>10. w \in finds
    BY <1>7, <1>8, <1>9
  <1>11. walk \in finds
    BY <1>10
  <1>12. Lookup(a) = walk[Len(walk)]
    BY <1>10 DEF Lookup
  <1>13. PICK m \in 1..MAX_BUCKETS : walk \in [1..m -> Slots]
    BY <1>11 DEF Walks
  <1>14. m \in Nat \ {0} /\ Len(walk) = m /\ m \in DOMAIN walk
    BY <1>13, PoolAssumption
  <1>15. walk[m] \in Slots /\ buckets[walk[m]].adr = a
    BY <1>11, <1>13, <1>14
  <1> HIDE DEF walk, finds
  <1>16. buckets[walk[m]].used
    BY <1>15, PoolAssumption
       DEF LinksOK, WellLinked, FreeIsUnlinked, FreeBucket, NoAddress
  <1>17. walk[m] = i
    BY <1>15, <1>16 DEF OneBucketEach, Holds
  <1> QED
    BY <1>12, <1>14, <1>17

\* ... and nothing for one that has none.
LEMMA LookupFails ==
    ASSUME LinksOK, NEW a \in Address, \A i \in Slots : ~Holds(buckets, i, a)
    PROVE  Lookup(a) = NULL
  <1> SUFFICES ASSUME Lookup(a) # NULL PROVE FALSE
    OBVIOUS
  <1>1. Lookup(a) \in Slots /\ buckets[Lookup(a)].adr = a
    BY LookupType
  <1>2. buckets[Lookup(a)].used
    BY <1>1, PoolAssumption
       DEF LinksOK, WellLinked, FreeIsUnlinked, FreeBucket, NoAddress
  <1> QED
    BY <1>1, <1>2 DEF Holds

------------------------------------------------------------------------------
(* Allocating keeps the chains *)

\* What a bucket is worth to the address it belongs to.
SameMeter(b, c) ==
    b.used = c.used /\ b.adr = c.adr /\ b.lastTime = c.lastTime /\ b.burst = c.burst

\* Clearing a slot leaves the others what they were, and their order.
LEMMA UnlinkedIsAcyclic ==
    ASSUME PoolType(buckets, bucketHashes), LinksOK, NEW i \in Slots, Reclaimable(i),
           NEW rank \in [Slots -> Nat], Ascending(buckets, rank)
    PROVE  /\ Ascending(UnlinkedPool(i), rank)
           /\ \A j \in Slots \ {i} : SameMeter(UnlinkedPool(i)[j], buckets[j])
           /\ buckets[i].used
  <1> DEFINE b == buckets[i]
             P == UnlinkedPool(i)
  <1>1. buckets \in [Slots -> Bucket]
    BY DEF PoolType
  <1>2. b.used
    <2>1. b.lastTime > 0
      BY DEF Reclaimable, Expired
    <2>2. b # FreeBucket
      BY <2>1 DEF FreeBucket
    <2> QED
      BY <2>2 DEF LinksOK, WellLinked, FreeIsUnlinked
  <1>3. b.next \in Slots \cup {NULL} /\ b.prev \in Slots \cup {NULL}
    BY <1>1 DEF Bucket
  <1>4. /\ P[i] = FreeBucket
        /\ \A j \in Slots \ {i} :
            /\ SameMeter(P[j], buckets[j])
            /\ P[j].next = IF j = b.prev THEN b.next ELSE buckets[j].next
    BY <1>1, <1>3 DEF UnlinkedPool, Bucket, SameMeter
  <1>5. DoublyLinked(buckets) /\ FreeIsUnlinked(buckets, bucketHashes)
    BY DEF LinksOK, WellLinked
  <1> HIDE DEF P
  <1>6. ASSUME NEW j \in Slots, NEW k \in Slots, P[j].used, P[j].next = k
        PROVE  rank[j] < rank[k]
    <2>1. j # i /\ buckets[j].used
      BY <1>4, <1>6 DEF FreeBucket, SameMeter
    <2>2. CASE j = b.prev
      <3>1. b.next = k
        BY <2>1, <2>2, <1>4, <1>6
      <3>2. buckets[j].next = i
        BY <2>2, <1>2, <1>5 DEF DoublyLinked
      <3>3. rank[j] < rank[i] /\ rank[i] < rank[k]
        BY <2>1, <3>1, <3>2, <1>2 DEF Ascending
      <3> QED
        BY <3>3
    <2>3. CASE j # b.prev
      BY <2>1, <2>3, <1>4, <1>6 DEF Ascending
    <2> QED
      BY <2>2, <2>3
  <1> QED
    BY <1>2, <1>4, <1>6 DEF Ascending, P

\* A bucket hung on the head of a chain comes before all others.
LEMMA LinkedIsAcyclic ==
    ASSUME NEW pool, NEW heads, NEW i \in Slots, NEW a \in Address,
           PoolType(pool, heads), WellLinked(pool, heads), ~pool[i].used,
           NEW rank \in [Slots -> Nat], Ascending(pool, rank)
    PROVE  LET P == LinkedPool(pool, heads, i, a)
           IN  /\ Acyclic(P)
               /\ \A j \in Slots \ {i} : SameMeter(P[j], pool[j])
               /\ Holds(P, i, a) /\ P[i].burst = 0 /\ P[i].lastTime = Sys_Milliseconds
  <1> DEFINE h == SVC_HashForAddress(a)
             P == LinkedPool(pool, heads, i, a)
             above == [j \in Slots |-> IF j = i THEN 0 ELSE rank[j] + 1]
  <1>1. pool \in [Slots -> Bucket] /\ heads \in [Hashes -> Slots \cup {NULL}]
    BY DEF PoolType
  <1>2. h \in Hashes
    BY PoolAssumption DEF SVC_HashForAddress, Hashes
  <1>3. /\ P[i].used /\ P[i].adr = a /\ P[i].burst = 0
        /\ P[i].lastTime = Sys_Milliseconds /\ P[i].next = heads[h]
        /\ \A j \in Slots \ {i} : SameMeter(P[j], pool[j]) /\ P[j].next = pool[j].next
    BY <1>1, <1>2 DEF LinkedPool, Bucket, SameMeter
  <1>4. heads[h] # i
    BY <1>2 DEF WellLinked, FreeIsUnlinked
  <1>5. above \in [Slots -> Nat]
    OBVIOUS
  <1> HIDE DEF P
  <1>6. ASSUME NEW j \in Slots, NEW k \in Slots, P[j].used, P[j].next = k
        PROVE  above[j] < above[k]
    <2>1. CASE j = i
      <3>1. k # i
        BY <2>1, <1>3, <1>4, <1>6
      <3> QED
        BY <2>1, <3>1
    <2>2. CASE j # i
      <3>1. pool[j].used /\ pool[j].next = k
        BY <2>2, <1>3, <1>6 DEF SameMeter
      <3>2. k # i
        BY <3>1 DEF WellLinked, FreeIsUnlinked
      <3>3. rank[j] < rank[k]
        BY <3>1 DEF Ascending
      <3> QED
        BY <2>2, <3>2, <3>3
    <2> QED
      BY <2>1, <2>2
  <1>7. Ascending(P, above)
    BY <1>6 DEF Ascending
  <1> HIDE DEF above
  <1>8. Acyclic(P)
    BY <1>5, <1>7, Zenon DEF Acyclic
  <1> QED
    BY <1>3, <1>8 DEF P, Holds

\* What the buckets of a new address and of all others are after an allocation.
LEMMA Allocation ==
    ASSUME TypeOK, LinksOK, Acyclic(buckets), OneBucketEach(buckets),
           NEW a \in Address, Lookup(a) = NULL, Allocatable # {}
    PROVE  LET i == FirstAllocatable
               P == PoolFor(a)
           IN  /\ i \in Slots /\ SVC_BucketForAddress(a) = i
               /\ buckets[i].used => Reclaimable(i)
               /\ Acyclic(P)
               /\ \A j \in Slots \ {i} : SameMeter(P[j], buckets[j])
               /\ Holds(P, i, a) /\ P[i].burst = 0 /\ P[i].lastTime = Sys_Milliseconds
  <1> DEFINE i == FirstAllocatable
             U == UnlinkedPool(i)
             P == PoolFor(a)
  <1>1. /\ P = LinkedPool(U, UnlinkedHeads(i), i, a)
        /\ SVC_BucketForAddress(a) = i
    BY DEF PoolFor, Allocates, SVC_BucketForAddress
  <1>2. i \in Slots /\ i \in Allocatable
    BY FirstAllocatableType
  <1>3. PoolType(buckets, bucketHashes)
    BY DEF TypeOK, PoolType
  <1>4. PICK rank \in [Slots -> Nat] : Ascending(buckets, rank)
    BY Zenon DEF Acyclic
  <1> HIDE DEF i
  <1>5. /\ PoolType(U, UnlinkedHeads(i))
        /\ WellLinked(U, UnlinkedHeads(i))
        /\ ~U[i].used
        /\ Ascending(U, rank)
        /\ \A j \in Slots \ {i} : SameMeter(U[j], buckets[j])
        /\ buckets[i].used => Reclaimable(i)
    <2>1. CASE Reclaimable(i)
      BY <2>1, <1>2, <1>3, <1>4, UnlinkKeepsLinks, UnlinkedIsAcyclic
    <2>2. CASE ~Reclaimable(i)
      BY <2>2, <1>2, <1>3, <1>4
         DEF UnlinkedPool, UnlinkedHeads, Allocatable, LinksOK, SameMeter
    <2> QED
      BY <2>1, <2>2
  <1> HIDE DEF U
  <1>6. /\ Acyclic(P)
        /\ \A j \in Slots \ {i} : SameMeter(P[j], U[j])
        /\ Holds(P, i, a) /\ P[i].burst = 0 /\ P[i].lastTime = Sys_Milliseconds
    BY <1>1, <1>2, <1>4, <1>5, LinkedIsAcyclic
  <1>7. \A j \in Slots \ {i} : SameMeter(P[j], buckets[j])
    BY <1>5, <1>6 DEF SameMeter
  <1> QED
    BY <1>1, <1>2, <1>5, <1>6, <1>7 DEF i

------------------------------------------------------------------------------
(* A request of one address *)

\* The level and the time that leaking leaves of a level and a time.
LeakedBurst(burst, last, now, period) ==
    LET interval == Interval(now, last)
        expired == interval \div period
    IN  IF interval < 0 \/ expired > burst THEN 0 ELSE burst - expired

LeakedTime(burst, last, now, period) ==
    LET interval == Interval(now, last)
        expired == interval \div period
    IN  IF interval < 0 \/ expired > burst THEN now ELSE ToInt(now - (interval % period))

\* Leaking and pouring ask for nothing but the level and the time of a bucket.
LEMMA PourOfBucket ==
    ASSUME NEW b \in Bucket, NEW now \in IntRange, NEW period \in Nat \ {0}, NEW burst \in Nat
    PROVE  LET level == LeakedBurst(b.burst, b.lastTime, now, period)
               c == SVC_RateLimit(b, now, burst, period)
           IN  /\ Limited(b, now, burst, period) <=> level >= burst
               /\ c.burst = IF level < burst THEN level + 1 ELSE level
               /\ c.lastTime = LeakedTime(b.burst, b.lastTime, now, period)
               /\ level \in Nat
  <1> DEFINE leaked == Leak(b, now, period)
             level == LeakedBurst(b.burst, b.lastTime, now, period)
  <1>1. /\ leaked.burst = level
        /\ leaked.lastTime = LeakedTime(b.burst, b.lastTime, now, period)
    <2> DEFINE interval == Interval(now, b.lastTime)
               expired == interval \div period
               time == ToInt(now - (interval % period))
    <2>1. leaked = IF interval < 0 \/ expired > b.burst
                   THEN [b EXCEPT !.burst = 0, !.lastTime = now]
                   ELSE [b EXCEPT !.burst = @ - expired, !.lastTime = time]
      BY DEF Leak
    <2>2. /\ level = IF interval < 0 \/ expired > b.burst THEN 0 ELSE b.burst - expired
          /\ LeakedTime(b.burst, b.lastTime, now, period) =
                IF interval < 0 \/ expired > b.burst THEN now ELSE time
      BY DEF LeakedBurst, LeakedTime
    <2> HIDE DEF leaked, level, interval, expired, time
    <2> QED
      BY <2>1, <2>2 DEF Bucket
  <1>2. leaked \in Bucket
    BY LeakType
  <1>3. /\ Limited(b, now, burst, period) <=> leaked.burst >= burst
        /\ SVC_RateLimit(b, now, burst, period) =
                IF leaked.burst < burst THEN [leaked EXCEPT !.burst = @ + 1] ELSE leaked
    BY DEF Limited, SVC_RateLimit
  <1> HIDE DEF leaked, level
  <1>4. level \in Nat /\ (Limited(b, now, burst, period) <=> level >= burst)
    BY <1>1, <1>2, <1>3 DEF Bucket
  <1> DEFINE c == SVC_RateLimit(b, now, burst, period)
  <1>5. /\ c.burst = IF level < burst THEN level + 1 ELSE level
        /\ c.lastTime = leaked.lastTime
    <2>1. CASE level < burst
      <3>1. c = [leaked EXCEPT !.burst = @ + 1]
        BY <1>1, <1>3, <2>1
      <3> HIDE DEF c
      <3> QED
        BY <1>1, <1>2, <1>4, <2>1, <3>1 DEF Bucket
    <2>2. CASE ~(level < burst)
      <3>1. c = leaked
        BY <1>1, <1>3, <2>2
      <3> HIDE DEF c
      <3> QED
        BY <1>1, <1>4, <2>2, <3>1
    <2> QED
      BY <2>1, <2>2
  <1> QED
    BY <1>1, <1>4, <1>5, Zenon DEF level

\* An int is what is left of itself.
LEMMA ToIntSame == \A x \in IntRange : ToInt(x) = x
  <1> SUFFICES ASSUME NEW x \in IntRange PROVE ToInt(x) = x
    OBVIOUS
  <1>1. IntLimit \in Nat /\ IntLimit > 0 /\ x \in Int /\ x + IntLimit >= 0
        /\ x + IntLimit < 2 * IntLimit
    BY IntAssumption DEF IntRange
  <1>2. \A y, m \in Int : 0 <= y /\ y < m => y % m = y
    BY Z3
  <1>3. (x + IntLimit) % (2 * IntLimit) = x + IntLimit
    BY <1>1, <1>2
  <1> QED
    BY <1>1, <1>3 DEF ToInt

\* A bucket that has just been allocated has room and nothing to leak.
LEMMA FreshLeaks ==
    ASSUME NEW now \in IntRange, NEW period \in Nat \ {0}
    PROVE  LeakedBurst(0, now, now, period) = 0 /\ LeakedTime(0, now, now, period) = now
  <1>1. now \in Int /\ now - now = 0 /\ 0 \in IntRange
    BY IntAssumption DEF IntRange
  <1>2. Interval(now, now) = 0
    BY <1>1, ToIntSame DEF Interval
  <1>3. 0 \div period = 0 /\ 0 % period = 0
    BY Z3
  <1>4. ToInt(now - 0) = now
    BY <1>1, ToIntSame
  <1> QED
    BY <1>2, <1>3, <1>4 DEF LeakedBurst, LeakedTime

Level(i) == LeakedBurst(buckets[i].burst, buckets[i].lastTime, Sys_Milliseconds, Period)

\* A packet of an address that has a bucket.
PoursInto(a, i) ==
    /\ Holds(buckets, i, a) /\ Holds(buckets', i, a)
    /\ AddressLimited(a) <=> Level(i) >= Burst
    /\ buckets'[i].burst = IF Level(i) < Burst THEN Level(i) + 1 ELSE Level(i)
    /\ buckets'[i].lastTime =
            LeakedTime(buckets[i].burst, buckets[i].lastTime, Sys_Milliseconds, Period)
    /\ \A j \in Slots \ {i} : SameMeter(buckets'[j], buckets[j])

\* The first packet of an address, which gets slot i.
Gets(a, i) ==
    /\ \A j \in Slots : ~Holds(buckets, j, a)
    /\ buckets[i].used => Reclaimable(i)
    /\ Holds(buckets', i, a)
    /\ ~AddressLimited(a)
    /\ buckets'[i].burst = 1 /\ buckets'[i].lastTime = Sys_Milliseconds
    /\ \A j \in Slots \ {i} : SameMeter(buckets'[j], buckets[j])

\* No slot can be allocated.
NoRoom(a) ==
    /\ \A j \in Slots : ~Holds(buckets, j, a)
    /\ Allocatable = {}
    /\ AddressLimited(a)
    /\ buckets' = buckets

ChainInv == IInv /\ Acyclic(buckets) /\ OneBucketEach(buckets)

\* A request pours into the bucket of its address, or gets one, or finds no room.
LEMMA AddressStep ==
    ASSUME ChainInv, NEW a \in Address, SVC_RateLimitAddress(a)
    PROVE  /\ Acyclic(buckets') /\ OneBucketEach(buckets')
           /\ (\E i \in Slots : PoursInto(a, i) \/ Gets(a, i)) \/ NoRoom(a)
  <1>1. /\ TypeOK /\ LinksOK /\ Acyclic(buckets) /\ OneBucketEach(buckets)
        /\ buckets \in [Slots -> Bucket]
        /\ clock \in Int
        /\ PoolType(buckets, bucketHashes)
    BY DEF ChainInv, IInv, TypeOK, PoolType
  <1>2. Sys_Milliseconds \in IntRange /\ Burst \in Nat \ {0} /\ Period \in Nat \ {0}
    BY <1>1, ToIntType, LimitAssumption DEF Sys_Milliseconds
  <1>3. PoolType(PoolFor(a), HeadsFor(a))
    BY <1>1, BucketForAddressKeepsLinks
  <1>4. PoolFor(a) \in [Slots -> Bucket]
    BY <1>3 DEF PoolType
  <1>5. ASSUME NEW i \in Slots, SVC_BucketForAddress(a) = i,
               Acyclic(PoolFor(a)), Holds(PoolFor(a), i, a)
        PROVE  LET b == PoolFor(a)[i]
                   level == LeakedBurst(b.burst, b.lastTime, Sys_Milliseconds, Period)
               IN  /\ Acyclic(buckets') /\ Holds(buckets', i, a)
                   /\ AddressLimited(a) <=> level >= Burst
                   /\ buckets'[i].burst = IF level < Burst THEN level + 1 ELSE level
                   /\ buckets'[i].lastTime =
                        LeakedTime(b.burst, b.lastTime, Sys_Milliseconds, Period)
                   /\ \A j \in Slots \ {i} : buckets'[j] = PoolFor(a)[j]
    <2> DEFINE b == PoolFor(a)[i]
               c == SVC_RateLimit(b, Sys_Milliseconds, Burst, Period)
    <2>1. i # NULL
      BY SlotsAreNat
    <2>2. buckets' = [PoolFor(a) EXCEPT ![i] = c]
      BY <1>5, <2>1 DEF SVC_RateLimitAddress
    <2>3. AddressLimited(a) <=> Limited(b, Sys_Milliseconds, Burst, Period)
      BY <1>5, <2>1 DEF AddressLimited
    <2>4. b \in Bucket /\ b.burst <= Burst
      BY <1>3 DEF PoolType
    <2>5. SameLinks(b, c)
      BY <1>2, <2>4, RateLimitType
    <2>6. buckets'[i] = c /\ \A j \in Slots \ {i} : buckets'[j] = PoolFor(a)[j]
      BY <1>4, <2>2
    <2>7. PICK rank \in [Slots -> Nat] : Ascending(PoolFor(a), rank)
      BY <1>5, Zenon DEF Acyclic
    <2>8. Ascending(buckets', rank)
      BY <2>5, <2>6, <2>7 DEF Ascending, SameLinks
    <2>9. Acyclic(buckets')
      BY <2>8, Zenon DEF Acyclic
    <2>10. Holds(buckets', i, a)
      BY <1>5, <2>5, <2>6 DEF Holds, SameLinks
    <2> HIDE DEF b, c
    <2>11. LET level == LeakedBurst(b.burst, b.lastTime, Sys_Milliseconds, Period)
           IN  /\ Limited(b, Sys_Milliseconds, Burst, Period) <=> level >= Burst
               /\ c.burst = IF level < Burst THEN level + 1 ELSE level
               /\ c.lastTime = LeakedTime(b.burst, b.lastTime, Sys_Milliseconds, Period)
      BY <1>2, <2>4, PourOfBucket DEF c
    <2> QED
      BY <2>3, <2>6, <2>9, <2>10, <2>11, Zenon DEF b
  <1>6. CASE \E i \in Slots : Holds(buckets, i, a)
    <2>1. PICK i \in Slots : Holds(buckets, i, a)
      BY <1>6
    <2>2. Lookup(a) = i
      BY <1>1, <2>1, LookupFinds
    <2>3. i # NULL
      BY SlotsAreNat
    <2>4. PoolFor(a) = buckets /\ SVC_BucketForAddress(a) = i
      BY <2>2, <2>3 DEF PoolFor, Allocates, SVC_BucketForAddress
    <2>5. Acyclic(buckets') /\ PoursInto(a, i)
      <3>1. Acyclic(PoolFor(a)) /\ Holds(PoolFor(a), i, a)
        BY <1>1, <2>1, <2>4
      <3>2. \A j \in Slots \ {i} : buckets'[j] = PoolFor(a)[j]
        BY <1>5, <2>4, <3>1, Zenon
      <3>3. \A j \in Slots \ {i} : SameMeter(buckets'[j], buckets[j])
        BY <2>4, <3>2 DEF SameMeter
      <3> QED
        BY <1>5, <2>1, <2>4, <3>1, <3>3, Zenon DEF PoursInto, Level
    <2>6. OneBucketEach(buckets')
      <3>1. \A j \in Slots, e \in Address : Holds(buckets', j, e) => Holds(buckets, j, e)
        BY <2>1, <2>5 DEF PoursInto, Holds, SameMeter
      <3> QED
        BY <1>1, <3>1, Zenon DEF OneBucketEach
    <2> QED
      BY <2>5, <2>6
  <1>7. CASE (\A i \in Slots : ~Holds(buckets, i, a)) /\ Allocatable # {}
    <2> DEFINE i == FirstAllocatable
               P == PoolFor(a)
    <2>1. Lookup(a) = NULL
      BY <1>1, <1>7, LookupFails
    <2>2. /\ i \in Slots /\ SVC_BucketForAddress(a) = i
          /\ buckets[i].used => Reclaimable(i)
          /\ Acyclic(P)
          /\ \A j \in Slots \ {i} : SameMeter(P[j], buckets[j])
          /\ Holds(P, i, a) /\ P[i].burst = 0 /\ P[i].lastTime = Sys_Milliseconds
      BY <1>1, <1>7, <2>1, Allocation
    <2> HIDE DEF i
    <2>3. LET level == LeakedBurst(0, Sys_Milliseconds, Sys_Milliseconds, Period)
          IN  /\ Acyclic(buckets') /\ Holds(buckets', i, a)
              /\ AddressLimited(a) <=> level >= Burst
              /\ buckets'[i].burst = IF level < Burst THEN level + 1 ELSE level
              /\ buckets'[i].lastTime =
                        LeakedTime(0, Sys_Milliseconds, Sys_Milliseconds, Period)
              /\ \A j \in Slots \ {i} : buckets'[j] = P[j]
      BY <1>5, <2>2
    <2>4. /\ ~AddressLimited(a)
          /\ buckets'[i].burst = 1 /\ buckets'[i].lastTime = Sys_Milliseconds
      BY <1>2, <2>3, FreshLeaks
    <2>5. \A j \in Slots \ {i} : SameMeter(buckets'[j], buckets[j])
      <3>1. \A j \in Slots \ {i} : buckets'[j] = P[j]
        BY <2>3, Zenon
      <3> QED
        BY <2>2, <3>1
    <2>6. Acyclic(buckets') /\ Holds(buckets', i, a)
      BY <2>3, Zenon
    <2>7. Gets(a, i)
      BY <1>7, <2>2, <2>4, <2>5, <2>6, Zenon DEF Gets
    <2>8. OneBucketEach(buckets')
      <3>1. \A j \in Slots \ {i}, e \in Address : Holds(buckets', j, e) => Holds(buckets, j, e)
        BY <2>5 DEF Holds, SameMeter
      <3>2. \A e \in Address : Holds(buckets', i, e) => e = a
        BY <2>6 DEF Holds
      <3> QED
        BY <1>1, <1>7, <3>1, <3>2 DEF OneBucketEach
    <2> QED
      BY <2>2, <2>6, <2>7, <2>8
  <1>8. CASE (\A i \in Slots : ~Holds(buckets, i, a)) /\ Allocatable = {}
    <2>1. Lookup(a) = NULL
      BY <1>1, <1>8, LookupFails
    <2>2. SVC_BucketForAddress(a) = NULL /\ PoolFor(a) = buckets
      BY <1>8, <2>1 DEF SVC_BucketForAddress, PoolFor, Allocates
    <2>3. AddressLimited(a) /\ buckets' = buckets
      BY <2>2 DEF AddressLimited, SVC_RateLimitAddress
    <2> QED
      BY <1>1, <1>8, <2>3, Zenon DEF NoRoom
  <1> QED
    BY <1>6, <1>7, <1>8

\* What a packet of address a does to the pool and to outcome.
Packet(a) ==
    /\ SVC_RateLimitAddress(a)
    /\ outcome'.adr = a
    /\ outcome'.verdict = "addressLimit" <=> AddressLimited(a)
    /\ clock' = clock

\* All a step can be.
LEMMA StepsArePackets ==
    ASSUME Next
    PROVE  (\E a \in Address : Packet(a)) \/ (\E d \in ClockSteps : ClockStep(d))
  <1>1. ASSUME NEW a \in Address, NEW wellFormed \in BOOLEAN, Query(a, wellFormed)
        PROVE  Packet(a)
    <2>1. SVC_RateLimitAddress(a) /\ clock' = clock
      BY <1>1 DEF Query
    <2>2. CASE AddressLimited(a)
      BY <1>1, <2>1, <2>2 DEF Query, Says, Packet
    <2>3. CASE ~AddressLimited(a)
      BY <1>1, <2>1, <2>3 DEF Query, Says, Packet
    <2> QED
      BY <2>2, <2>3
  <1>2. ASSUME NEW a \in Address, RconGood(a)
        PROVE  Packet(a)
    BY <1>2 DEF RconGood, Says, Packet
  <1>3. ASSUME NEW a \in Address, NEW passwordSet \in BOOLEAN, RconBad(a, passwordSet)
        PROVE  Packet(a)
    <2> DEFINE passes == ~Limited(rconBucket, Sys_Milliseconds, Burst, Period)
               allowed == passwordSet /\ GuessAllowed
               verdict == CASE ~passes -> "rconLimit"
                            [] passes /\ ~passwordSet -> "noPassword"
                            [] passes /\ passwordSet /\ ~allowed -> "tooSoon"
                            [] passes /\ allowed -> "guess"
    <2>1. SVC_RateLimitAddress(a) /\ clock' = clock
      BY <1>3 DEF RconBad
    <2>2. CASE AddressLimited(a)
      BY <1>3, <2>1, <2>2 DEF RconBad, Says, Packet
    <2>3. CASE ~AddressLimited(a)
      <3>1. Says(a, verdict)
        BY <1>3, <2>3, Zenon DEF RconBad
      <3> HIDE DEF passes
      <3>2. verdict # "addressLimit"
        OBVIOUS
      <3> HIDE DEF verdict
      <3>3. outcome'.adr = a /\ outcome'.verdict = verdict
        BY <3>1 DEF Says
      <3> QED
        BY <2>1, <2>3, <3>2, <3>3 DEF Packet
    <2> QED
      BY <2>2, <2>3
  <1> QED
    BY <1>1, <1>2, <1>3 DEF Next

\* The invariant of the chains holds at first.
LEMMA ChainInit == Init => ChainInv
  <1> SUFFICES ASSUME Init PROVE ChainInv
    OBVIOUS
  <1>1. \A i \in Slots : ~buckets[i].used
    BY DEF Init, FreeBucket
  <1>2. Ascending(buckets, [i \in Slots |-> 0])
    BY <1>1 DEF Ascending
  <1>3. Acyclic(buckets)
    BY <1>2 DEF Acyclic
  <1>4. OneBucketEach(buckets)
    BY <1>1 DEF OneBucketEach, Holds
  <1> QED
    BY <1>3, <1>4, InitEstablishesIInv DEF ChainInv

\* Every step keeps it.
LEMMA ChainNext == ChainInv /\ [Next]_vars => ChainInv'
  <1> SUFFICES ASSUME ChainInv, [Next]_vars PROVE Acyclic(buckets') /\ OneBucketEach(buckets')
    BY NextKeepsIInv DEF ChainInv
  <1>1. CASE buckets' = buckets
    BY <1>1 DEF ChainInv
  <1>2. ASSUME NEW a \in Address, Packet(a)
        PROVE  Acyclic(buckets') /\ OneBucketEach(buckets')
    BY <1>2, AddressStep DEF Packet
  <1> QED
    BY <1>1, <1>2, StepsArePackets DEF ClockStep, vars

\* It always holds.
LEMMA ChainSafe == Spec => []ChainInv
  BY ChainInit, ChainNext, PTL DEF Spec

------------------------------------------------------------------------------
(* The pool as a map of meters *)

MeterIn(pool, a) ==
    LET held == {i \in Slots : pool[i].used /\ pool[i].adr = a}
        b == IF held = {} THEN FreeBucket ELSE pool[CHOOSE i \in held : TRUE]
    IN  [live |-> b.used, lastTime |-> b.lastTime, burst |-> b.burst]

\* The meter of an address that has a bucket is that bucket.
LEMMA MeterHeld ==
    ASSUME NEW pool, OneBucketEach(pool), NEW a \in Address, NEW i \in Slots,
           Holds(pool, i, a)
    PROVE  MeterIn(pool, a) =
                [live |-> TRUE, lastTime |-> pool[i].lastTime, burst |-> pool[i].burst]
  <1> DEFINE held == {j \in Slots : pool[j].used /\ pool[j].adr = a}
  <1>1. held = {i}
    BY DEF Holds, OneBucketEach
  <1>2. (CHOOSE j \in held : TRUE) = i /\ held # {}
    BY <1>1
  <1> DEFINE b == IF held = {} THEN FreeBucket ELSE pool[CHOOSE j \in held : TRUE]
  <1>3. MeterIn(pool, a) = [live |-> b.used, lastTime |-> b.lastTime, burst |-> b.burst]
    BY DEF MeterIn
  <1>4. b = pool[i]
    BY <1>2
  <1>5. b.used = TRUE
    <2>1. b.used
      BY <1>4 DEF Holds
    <2> QED
      BY <2>1
  <1> HIDE DEF b
  <1> QED
    BY <1>3, <1>4, <1>5, Zenon

\* An address without one has no live meter.
LEMMA MeterFree ==
    ASSUME NEW pool, NEW a \in Address, \A i \in Slots : ~Holds(pool, i, a)
    PROVE  MeterIn(pool, a) = [live |-> FALSE, lastTime |-> 0, burst |-> 0]
  <1> DEFINE held == {j \in Slots : pool[j].used /\ pool[j].adr = a}
             b == IF held = {} THEN FreeBucket ELSE pool[CHOOSE j \in held : TRUE]
  <1>1. held = {}
    BY DEF Holds
  <1>2. MeterIn(pool, a) = [live |-> b.used, lastTime |-> b.lastTime, burst |-> b.burst]
    BY DEF MeterIn
  <1> HIDE DEF held
  <1>3. b = FreeBucket
    BY <1>1
  <1> HIDE DEF b
  <1>4. b.used = FALSE /\ b.lastTime = 0 /\ b.burst = 0
    BY <1>3 DEF FreeBucket
  <1> QED
    BY <1>2, <1>4, Zenon

\* Slots that mean the same to an address give it the same meter.
LEMMA MeterOfOthers ==
    ASSUME NEW P, NEW Q, OneBucketEach(P), OneBucketEach(Q), NEW e \in Address,
           \A j \in Slots : Holds(P, j, e) \/ Holds(Q, j, e) => SameMeter(P[j], Q[j])
    PROVE  MeterIn(P, e) = MeterIn(Q, e)
  <1>1. \A j \in Slots : Holds(P, j, e) <=> Holds(Q, j, e)
    BY DEF Holds, SameMeter
  <1>2. CASE \E j \in Slots : Holds(P, j, e)
    <2>1. PICK j \in Slots : Holds(P, j, e)
      BY <1>2
    <2>2. Holds(Q, j, e) /\ P[j].lastTime = Q[j].lastTime /\ P[j].burst = Q[j].burst
      BY <1>1, <2>1 DEF SameMeter
    <2> QED
      BY <2>1, <2>2, MeterHeld
  <1>3. CASE \A j \in Slots : ~Holds(P, j, e)
    BY <1>1, <1>3, MeterFree
  <1> QED
    BY <1>2, <1>3

\* Leaking and pouring do to a meter what they do to a bucket.
LEMMA PourOfMeter ==
    ASSUME NEW burst \in Nat, NEW last \in IntRange, NEW now \in IntRange,
           NEW period \in Nat \ {0}, NEW limit \in Nat
    PROVE  LET m == [live |-> TRUE, lastTime |-> last, burst |-> burst]
               level == LeakedBurst(burst, last, now, period)
           IN  /\ Meters!Limited(m, now, limit, period) <=> level >= limit
               /\ Meters!SVC_RateLimit(m, now, limit, period) =
                    [live |-> TRUE, lastTime |-> LeakedTime(burst, last, now, period),
                     burst |-> IF level < limit THEN level + 1 ELSE level]
  <1> DEFINE m == [live |-> TRUE, lastTime |-> last, burst |-> burst]
             level == LeakedBurst(burst, last, now, period)
             time == LeakedTime(burst, last, now, period)
             leaked == Meters!Leak(m, now, period)
  <1>1. leaked = [live |-> TRUE, lastTime |-> time, burst |-> level]
    <2> DEFINE interval == Interval(now, last)
               expired == interval \div period
               left == ToInt(now - (interval % period))
    <2>1. leaked = IF interval < 0 \/ expired > m.burst
                   THEN [m EXCEPT !.burst = 0, !.lastTime = now]
                   ELSE [m EXCEPT !.burst = @ - expired, !.lastTime = left]
      BY DEF Meters!Leak, Meters!Interval, Meters!ToInt, Interval, ToInt
    <2>2. /\ level = IF interval < 0 \/ expired > burst THEN 0 ELSE burst - expired
          /\ time = IF interval < 0 \/ expired > burst THEN now ELSE left
      BY DEF LeakedBurst, LeakedTime
    <2> HIDE DEF leaked, level, time, interval, expired, left
    <2> QED
      BY <2>1, <2>2
  <1>2. /\ Meters!Limited(m, now, limit, period) <=> leaked.burst >= limit
        /\ Meters!SVC_RateLimit(m, now, limit, period) =
                IF leaked.burst < limit THEN [leaked EXCEPT !.burst = @ + 1] ELSE leaked
    BY DEF Meters!Limited, Meters!SVC_RateLimit
  <1> HIDE DEF leaked, level, time
  <1>3. leaked.burst = level
    BY <1>1
  <1>4. (IF leaked.burst < limit THEN [leaked EXCEPT !.burst = @ + 1] ELSE leaked) =
            [live |-> TRUE, lastTime |-> time,
             burst |-> IF level < limit THEN level + 1 ELSE level]
    BY <1>1
  <1> QED
    BY <1>2, <1>3, <1>4, Zenon DEF level, time

meterOf == [a \in Address |-> MeterIn(buckets, a)]

\* What a packet is to the map of meters.
LEMMA PacketIsMetered ==
    ASSUME ChainInv, ChainInv', NEW a \in Address, Packet(a)
    PROVE  Meters!Known(a) \/ Meters!New(a) \/ Meters!Turned(a)
  <1> DEFINE now == Sys_Milliseconds
             passed == [adr |-> outcome.adr, ok |-> outcome.verdict # "addressLimit"]
  <1>1. /\ OneBucketEach(buckets) /\ OneBucketEach(buckets')
        /\ buckets \in [Slots -> Bucket]
        /\ now \in IntRange
        /\ Burst \in Nat \ {0} /\ Period \in Nat \ {0}
    BY ToIntType, LimitAssumption DEF ChainInv, IInv, TypeOK, Sys_Milliseconds
  <1>2. clock' = clock /\ Meters!Now = now
    BY DEF Packet, Meters!Now, Meters!ToInt, Sys_Milliseconds, ToInt
  <1>3. ASSUME NEW ok \in BOOLEAN, ok <=> ~AddressLimited(a)
        PROVE  passed' = [adr |-> a, ok |-> ok]
    <2>1. outcome'.adr = a /\ (outcome'.verdict # "addressLimit") = ok
      BY <1>3 DEF Packet
    <2> QED
      BY <2>1, Zenon
  <1>4. ASSUME NEW i \in Slots, PoursInto(a, i)
        PROVE  Meters!Known(a)
    <2> DEFINE level == Level(i)
               m == [live |-> TRUE, lastTime |-> buckets[i].lastTime,
                     burst |-> buckets[i].burst]
               ok == ~Meters!Limited(m, now, Burst, Period)
    <2>1. /\ Holds(buckets, i, a) /\ Holds(buckets', i, a)
          /\ AddressLimited(a) <=> level >= Burst
          /\ buckets'[i].burst = IF level < Burst THEN level + 1 ELSE level
          /\ buckets'[i].lastTime =
                LeakedTime(buckets[i].burst, buckets[i].lastTime, now, Period)
          /\ \A j \in Slots \ {i} : SameMeter(buckets'[j], buckets[j])
      BY <1>4, Zenon DEF PoursInto
    <2>2. buckets[i].lastTime \in IntRange /\ buckets[i].burst \in Nat
      BY <1>1 DEF Bucket
    <2>3. meterOf[a] = m
      BY <1>1, <2>1, MeterHeld DEF meterOf
    <2>4. meterOf'[a] = [live |-> TRUE, lastTime |-> buckets'[i].lastTime,
                         burst |-> buckets'[i].burst]
      BY <1>1, <2>1, MeterHeld DEF meterOf
    <2>5. /\ Meters!Limited(m, now, Burst, Period) <=> level >= Burst
          /\ Meters!SVC_RateLimit(m, now, Burst, Period) = meterOf'[a]
      BY <1>1, <2>1, <2>2, <2>4, PourOfMeter DEF Level
    <2>6. ASSUME NEW e \in Address, e # a
          PROVE  meterOf'[e] = meterOf[e]
      <3>1. \A j \in Slots : Holds(buckets', j, e) \/ Holds(buckets, j, e) => j # i
        BY <2>1, <2>6 DEF Holds
      <3>2. MeterIn(buckets', e) = MeterIn(buckets, e)
        BY <1>1, <2>1, <3>1, MeterOfOthers
      <3> QED
        BY <3>2 DEF meterOf
    <2>7. meterOf' = [meterOf EXCEPT ![a] = Meters!SVC_RateLimit(@, now, Burst, Period)]
      <3>1. /\ meterOf' = [e \in Address |-> meterOf'[e]]
            /\ meterOf = [e \in Address |-> meterOf[e]]
        BY DEF meterOf
      <3> QED
        BY <2>3, <2>5, <2>6, <3>1
    <2> HIDE DEF m, level
    <2>8. passed' = [adr |-> a, ok |-> ~Meters!Limited(m, now, Burst, Period)]
      <3>1. ok \in BOOLEAN /\ (ok <=> ~AddressLimited(a))
        BY <2>1, <2>5
      <3> HIDE DEF ok, passed
      <3>2. passed' = [adr |-> a, ok |-> ok]
        BY <1>3, <3>1
      <3> QED
        BY <3>2, Zenon DEF ok
    <2>9. meterOf[a].live
      BY <2>3 DEF m
    <2> HIDE DEF passed
    <2> QED
      BY <1>2, <2>3, <2>7, <2>8, <2>9, Zenon
         DEF Meters!Known, meterOf, MeterIn, SlotOf, passed, m
  <1>5. ASSUME NEW i \in Slots, Gets(a, i)
        PROVE  Meters!New(a)
    <2> DEFINE fresh == [live |-> TRUE, lastTime |-> now, burst |-> 0]
               gone == IF buckets[i].used THEN {buckets[i].adr} ELSE {}
    <2>1. /\ \A j \in Slots : ~Holds(buckets, j, a)
          /\ buckets[i].used => Reclaimable(i)
          /\ Holds(buckets', i, a)
          /\ ~AddressLimited(a)
          /\ buckets'[i].burst = 1 /\ buckets'[i].lastTime = now
          /\ \A j \in Slots \ {i} : SameMeter(buckets'[j], buckets[j])
      BY <1>5, Zenon DEF Gets
    <2>2. meterOf[a] = [live |-> FALSE, lastTime |-> 0, burst |-> 0]
      BY <2>1, MeterFree DEF meterOf
    <2>3. meterOf'[a] = [live |-> TRUE, lastTime |-> now, burst |-> 1]
      BY <1>1, <2>1, MeterHeld DEF meterOf
    <2>4. Meters!SVC_RateLimit(fresh, now, Burst, Period) = meterOf'[a]
      <3>1. /\ LeakedBurst(0, now, now, Period) = 0
            /\ LeakedTime(0, now, now, Period) = now
        BY <1>1, FreshLeaks
      <3>2. 0 \in Nat /\ 0 < Burst
        BY <1>1
      <3>3. Meters!SVC_RateLimit(fresh, now, Burst, Period) =
                [live |-> TRUE, lastTime |-> LeakedTime(0, now, now, Period),
                 burst |-> IF LeakedBurst(0, now, now, Period) < Burst
                           THEN LeakedBurst(0, now, now, Period) + 1
                           ELSE LeakedBurst(0, now, now, Period)]
        BY <1>1, <3>2, PourOfMeter, Zenon
      <3> DEFINE time == LeakedTime(0, now, now, Period)
                 burst == IF LeakedBurst(0, now, now, Period) < Burst
                          THEN LeakedBurst(0, now, now, Period) + 1
                          ELSE LeakedBurst(0, now, now, Period)
      <3>4. time = now /\ burst = 1
        BY <1>1, <3>1, <3>2
      <3> HIDE DEF time, burst, fresh
      <3>5. Meters!SVC_RateLimit(fresh, now, Burst, Period) =
                [live |-> TRUE, lastTime |-> time, burst |-> burst]
        BY <3>3, Zenon DEF time, burst
      <3> QED
        BY <2>3, <3>4, <3>5, Zenon
    <2>5. ASSUME NEW e \in Address, e # a, e \notin gone
          PROVE  meterOf'[e] = meterOf[e]
      <3>1. \A j \in Slots : Holds(buckets', j, e) \/ Holds(buckets, j, e) => j # i
        BY <2>1, <2>5 DEF Holds
      <3>2. MeterIn(buckets', e) = MeterIn(buckets, e)
        BY <1>1, <2>1, <3>1, MeterOfOthers
      <3> QED
        BY <3>2 DEF meterOf
    <2>6. ASSUME NEW e \in Address, e # a, e \in gone
          PROVE  /\ meterOf'[e] = [live |-> FALSE, lastTime |-> 0, burst |-> 0]
                 /\ meterOf[e].live
                 /\ Meters!Expired(meterOf[e], now, Burst, Period)
      <3>1. Holds(buckets, i, e)
        BY <2>6 DEF Holds
      <3>2. \A j \in Slots : ~Holds(buckets', j, e)
        BY <1>1, <2>1, <2>6, <3>1 DEF OneBucketEach, Holds, SameMeter
      <3>3. meterOf'[e] = [live |-> FALSE, lastTime |-> 0, burst |-> 0]
        BY <3>2, MeterFree DEF meterOf
      <3>4. meterOf[e] = [live |-> TRUE, lastTime |-> buckets[i].lastTime,
                          burst |-> buckets[i].burst]
        BY <1>1, <3>1, MeterHeld DEF meterOf
      <3>5. Expired(buckets[i], now, Burst, Period)
        BY <2>1, <3>1 DEF Holds, Reclaimable
      <3>6. meterOf[e].live /\ meterOf[e].lastTime = buckets[i].lastTime
        BY <3>4
      <3> QED
        BY <3>3, <3>5, <3>6, Zenon
           DEF Expired, Meters!Expired, Meters!Interval, Meters!ToInt, Interval, ToInt
    <2>7. gone \subseteq Address /\ a \notin gone
      BY <2>1 DEF Holds, ChainInv, IInv, LinksOK, WellLinked, HeadsAreFirst
    <2>8. gone \in {{}} \cup {{b} : b \in Meters!Expendable}
      <3>1. CASE gone = {}
        BY <3>1
      <3>2. CASE gone # {}
        <4>1. gone = {buckets[i].adr} /\ buckets[i].adr \in Address /\ buckets[i].adr # a
          BY <2>7, <3>2
        <4> DEFINE e == buckets[i].adr
        <4>2. meterOf[e].live /\ Meters!Expired(meterOf[e], now, Burst, Period)
          BY <2>6, <4>1
        <4>3. e \in Meters!Expendable
          BY <1>2, <4>1, <4>2, Zenon DEF Meters!Expendable, meterOf, MeterIn, SlotOf
        <4> QED
          BY <4>1, <4>3
      <3> QED
        BY <3>1, <3>2
    <2> HIDE DEF gone
    <2>9. meterOf' = [b \in Address |->
                IF b = a THEN Meters!SVC_RateLimit(Meters!Fresh, Meters!Now, Burst, Period)
                ELSE IF b \in gone THEN Meters!NoMeter ELSE meterOf[b]]
      <3>1. meterOf' = [e \in Address |-> meterOf'[e]]
        BY DEF meterOf
      <3>2. Meters!Fresh = fresh
        BY <1>2 DEF Meters!Fresh
      <3>3. Meters!SVC_RateLimit(Meters!Fresh, Meters!Now, Burst, Period) = meterOf'[a]
        BY <1>2, <2>4, <3>2
      <3> QED
        BY <2>5, <2>6, <3>1, <3>3 DEF Meters!NoMeter
    <2>10. passed' = [adr |-> a, ok |-> TRUE]
      BY <1>3, <2>1
    <2>11. ~meterOf[a].live
      BY <2>2
    <2> HIDE DEF passed, fresh
    <2> QED
      BY <1>2, <2>8, <2>9, <2>10, <2>11, Zenon
         DEF Meters!New, meterOf, MeterIn, SlotOf, passed
  <1>6. CASE NoRoom(a)
    <2>1. (\A j \in Slots : ~Holds(buckets, j, a)) /\ AddressLimited(a) /\ buckets' = buckets
      BY <1>6, Zenon DEF NoRoom
    <2>2. meterOf[a] = [live |-> FALSE, lastTime |-> 0, burst |-> 0]
      BY <2>1, MeterFree DEF meterOf
    <2>3. ~meterOf[a].live /\ meterOf' = meterOf
      BY <2>1, <2>2 DEF meterOf
    <2>4. passed' = [adr |-> a, ok |-> FALSE]
      BY <1>3, <2>1
    <2> HIDE DEF passed
    <2> QED
      BY <1>2, <2>3, <2>4, Zenon DEF Meters!Turned, meterOf, MeterIn, SlotOf, passed
  <1> QED
    BY <1>4, <1>5, <1>6, AddressStep, Zenon DEF Packet

\* The clock of the limiter is the clock of the meters.
LEMMA ClockIsMetered ==
    ASSUME ChainInv, ChainInv', NEW d \in ClockSteps, ClockStep(d)
    PROVE  Meters!Time
  <1>1. clock' \in Int /\ buckets' = buckets
    BY DEF ChainInv, IInv, TypeOK, ClockStep
  <1>2. outcome' = [adr |-> NoAddress, verdict |-> "none"]
    BY DEF ClockStep, Says
  <1> DEFINE passed == [adr |-> outcome.adr, ok |-> outcome.verdict # "addressLimit"]
  <1>3. outcome'.adr = "none" /\ (outcome'.verdict # "addressLimit") = TRUE
    BY <1>2 DEF NoAddress
  <1>4. passed' = Meters!Nobody
    BY <1>3, Zenon DEF Meters!Nobody
  <1>5. meterOf' = meterOf
    BY <1>1 DEF meterOf
  <1> HIDE DEF passed
  <1> QED
    BY <1>1, <1>4, <1>5, Zenon DEF Meters!Time, meterOf, MeterIn, SlotOf, passed

\* Seen from the senders of packets, the pool of SVC_BucketForAddress is a map
\* from addresses to buckets: hash chains, reclaiming and the order of slots
\* never make it lose, share or split one.
THEOREM MetersImplemented == Spec => ImplementsAddressMeters
  <1>1. Init => Meters!MeterInit
    <2> SUFFICES ASSUME Init PROVE Meters!MeterInit
      OBVIOUS
    <2>1. clock \in Nat
      BY ClockAssumption DEF Init
    <2>2. \A a \in Address, i \in Slots : ~Holds(buckets, i, a)
      BY DEF Init, FreeBucket, Holds
    <2>3. \A a \in Address : MeterIn(buckets, a) = Meters!NoMeter
      BY <2>2, MeterFree DEF Meters!NoMeter
    <2>4. meterOf = [a \in Address |-> Meters!NoMeter]
      BY <2>3 DEF meterOf
    <2>5. outcome.adr = "none" /\ (outcome.verdict # "addressLimit") = TRUE
      BY DEF Init, NoAddress
    <2>6. [adr |-> outcome.adr, ok |-> outcome.verdict # "addressLimit"] = Meters!Nobody
      BY <2>5, Zenon DEF Meters!Nobody
    <2> QED
      BY <2>1, <2>4, <2>6, Zenon DEF Meters!MeterInit, meterOf, MeterIn, SlotOf
  <1>2. ChainInv /\ ChainInv' /\ [Next]_vars => [Meters!MeterNext]_(Meters!meterVars)
    <2> SUFFICES ASSUME ChainInv, ChainInv', [Next]_vars
                 PROVE  [Meters!MeterNext]_(Meters!meterVars)
      OBVIOUS
    <2>1. CASE UNCHANGED vars
      BY <2>1 DEF vars, Meters!meterVars, SlotOf
    <2>2. ASSUME NEW a \in Address, Packet(a) PROVE Meters!MeterNext
      BY <2>2, PacketIsMetered, Zenon DEF Meters!MeterNext
    <2>3. ASSUME NEW d \in ClockSteps, ClockStep(d) PROVE Meters!MeterNext
      BY <2>3, ClockIsMetered, Zenon DEF Meters!MeterNext
    <2> QED
      BY <2>1, <2>2, <2>3, StepsArePackets, Zenon
  <1> QED
    BY <1>1, <1>2, ChainSafe, PTL DEF Spec, ImplementsAddressMeters, Meters!MeterSpec

------------------------------------------------------------------------------
(* Rates *)

\* The clock is not set back and does not run out of an int.
ForwardOnly == ClockSteps \subseteq Nat /\ StartClock < IntLimit /\ MaxClock < IntLimit

\* Leaking loses no time: a level and a time are worth together what they were,
\* or more, and less than a period is left to leak.
LEMMA LeakLosesNothing ==
    ASSUME NEW now \in 0..(IntLimit - 1), NEW last \in 0..now, NEW burst \in Nat,
           NEW period \in Nat \ {0}
    PROVE  LET level == LeakedBurst(burst, last, now, period)
               time == LeakedTime(burst, last, now, period)
           IN  /\ level \in 0..burst /\ time \in last..now
               /\ now < time + period
               /\ burst * period + last <= level * period + time
  <1> DEFINE interval == now - last
             expired == interval \div period
             rest == interval % period
  <1>1. IntLimit \in Nat \ {0} /\ now \in Nat /\ last \in Nat /\ interval \in Nat
    BY IntAssumption
  <1>2. Interval(now, last) = interval
    BY <1>1, ToIntSame, interval \in IntRange DEF Interval, IntRange
  <1>3. \A n \in Nat : /\ n \div period \in Nat /\ n % period \in 0..(period - 1)
                       /\ n = (n \div period) * period + (n % period)
    BY Z3
  <1>4. /\ expired \in Nat /\ rest \in 0..(period - 1)
        /\ interval = expired * period + rest
    BY <1>1, <1>3
  <1>5. expired * period \in Nat /\ burst * period \in Nat
    BY <1>4
  <1> HIDE DEF expired, rest
  <1>6. CASE expired > burst
    <2>1. LeakedBurst(burst, last, now, period) = 0
          /\ LeakedTime(burst, last, now, period) = now
      BY <1>2, <1>6 DEF LeakedBurst, LeakedTime, expired
    <2>2. burst * period <= expired * period
      <3>1. \A x, y \in Nat : x <= y => x * period <= y * period
        BY Z3
      <3> QED
        BY <1>4, <1>6, <3>1
    <2>3. burst * period + last <= 0 * period + now
      BY <1>1, <1>4, <1>5, <2>2
    <2> QED
      BY <1>1, <2>1, <2>3
  <1>7. CASE expired <= burst
    <2>1. LeakedBurst(burst, last, now, period) = burst - expired
          /\ LeakedTime(burst, last, now, period) = ToInt(now - rest)
      BY <1>1, <1>2, <1>4, <1>7 DEF LeakedBurst, LeakedTime, expired, rest
    <2>2. now - rest = last + expired * period /\ now - rest \in last..now
      BY <1>1, <1>4, <1>5
    <2>3. ToInt(now - rest) = now - rest
      BY <1>1, <2>2, ToIntSame DEF IntRange
    <2>4. (burst - expired) * period = burst * period - expired * period
      <3>1. \A x, y \in Nat : (x - y) * period = x * period - y * period
        BY Z3
      <3> QED
        BY <1>4, <3>1
    <2> QED
      BY <1>1, <1>4, <1>5, <1>7, <2>1, <2>2, <2>3, <2>4
  <1> QED
    BY <1>4, <1>6, <1>7

\* What a bucket is worth covers what has been let through since any time, but
\* for one period that may have begun before it.
Covered(times, worth, period) ==
    \A i \in DOMAIN times : (Len(times) - i + 1) * period <= worth + period - times[i]

Worth(b, period) == b.burst * period + b.lastTime

NotAfter(times, now) == \A i \in DOMAIN times : times[i] <= now

\* A bucket that is worth more covers as much.
LEMMA CoversMore ==
    ASSUME NEW times \in Seq(Nat), NEW worth \in Int, NEW more \in Int, worth <= more,
           NEW period \in Nat, Covered(times, worth, period)
    PROVE  Covered(times, more, period)
  <1> SUFFICES ASSUME NEW i \in DOMAIN times
               PROVE  (Len(times) - i + 1) * period <= more + period - times[i]
    BY DEF Covered
  <1>1. times[i] \in Nat /\ Len(times) \in Nat /\ i \in Nat
    OBVIOUS
  <1>2. (Len(times) - i + 1) * period \in Int
    BY <1>1
  <1> QED
    BY <1>1, <1>2 DEF Covered

\* One packet more is covered by one period more.
LEMMA CoversOneMore ==
    ASSUME NEW times \in Seq(Nat), NEW worth \in Int, NEW now \in Nat,
           NEW period \in Nat, Covered(times, worth, period), now <= worth + period
    PROVE  /\ Append(times, now) \in Seq(Nat)
           /\ Covered(Append(times, now), worth + period, period)
  <1> DEFINE more == Append(times, now)
  <1>1. /\ more \in Seq(Nat) /\ Len(more) = Len(times) + 1 /\ Len(times) \in Nat
        /\ DOMAIN more = 1..(Len(times) + 1) /\ DOMAIN times = 1..Len(times)
        /\ \A i \in 1..Len(times) : more[i] = times[i] /\ times[i] \in Nat
        /\ more[Len(times) + 1] = now
    OBVIOUS
  <1> HIDE DEF more
  <1> SUFFICES ASSUME NEW i \in 1..(Len(times) + 1)
               PROVE  (Len(times) + 1 - i + 1) * period <= (worth + period) + period - more[i]
    BY <1>1 DEF Covered, more
  <1>2. CASE i = Len(times) + 1
    <2>1. (Len(times) + 1 - i + 1) = 1
      BY <1>1, <1>2
    <2> QED
      BY <1>1, <1>2, <2>1
  <1>3. CASE i \in 1..Len(times)
    <2> DEFINE n == Len(times) - i + 1
    <2>1. n \in Nat /\ Len(times) + 1 - i + 1 = n + 1
      BY <1>1, <1>3
    <2>2. n * period <= worth + period - times[i]
      BY <1>1, <1>3 DEF Covered
    <2> HIDE DEF n
    <2>3. (n + 1) * period = n * period + period /\ n * period \in Nat
      BY <2>1
    <2>4. more[i] \in Nat /\ more[i] = times[i]
      BY <1>1, <1>3
    <2>5. (n + 1) * period <= (worth + period) + period - more[i]
      BY <2>2, <2>3, <2>4
    <2> QED
      BY <2>1, <2>5, Zenon
  <1> QED
    BY <1>1, <1>2, <1>3

\* What is covered by no more than the limit is bounded.
LEMMA CoveredIsBounded ==
    ASSUME NEW times \in Seq(Nat), NEW now \in Nat, NEW worth \in Int, NEW limit \in Nat,
           NEW period \in Nat \ {0}, NotAfter(times, now), Bounded(times, limit, period),
           Covered(Append(times, now), worth, period), worth <= limit * period + now
    PROVE  Bounded(Append(times, now), limit, period) /\ NotAfter(Append(times, now), now)
  <1> DEFINE more == Append(times, now)
             last == Len(times) + 1
  <1>1. /\ more \in Seq(Nat) /\ Len(more) = last /\ last \in Nat /\ Len(times) = last - 1
        /\ DOMAIN more = 1..last /\ DOMAIN times = 1..(last - 1)
        /\ \A i \in 1..(last - 1) : more[i] = times[i]
        /\ more[last] = now
        /\ \A i \in 1..last : more[i] \in Nat
    OBVIOUS
  <1>2. Covered(more, worth, period)
    OBVIOUS
  <1> HIDE DEF more, last
  <1>3. ASSUME NEW i \in 1..last
        PROVE  more[i] <= now
    <2>1. CASE i = last
      BY <1>1, <2>1
    <2>2. CASE i # last
      <3>1. i \in DOMAIN times /\ more[i] = times[i]
        BY <1>1, <2>2
      <3> QED
        BY <3>1, Zenon DEF NotAfter
    <2> QED
      BY <2>1, <2>2
  <1>4. ASSUME NEW i \in 1..last, NEW j \in 1..last, i <= j
        PROVE  j - i + 1 <= limit + ((more[j] - more[i]) \div period) + 1
    <2>1. CASE j # last
      <3>1. i \in DOMAIN times /\ j \in DOMAIN times
        BY <1>1, <1>4, <2>1
      <3> QED
        BY <1>1, <1>4, <3>1 DEF Bounded
    <2>2. CASE j = last
      <3> DEFINE x == now - more[i]
                 n == last - i + 1
                 q == x \div period
      <3>1. x \in Nat /\ n \in Nat
        BY <1>1, <1>3
      <3>2. n * period <= worth + period - more[i]
        BY <1>1, <1>2 DEF Covered
      <3>3. \A y \in Nat : y \div period \in Nat /\ y < ((y \div period) + 1) * period
        BY Z3
      <3>4. q \in Nat /\ x < (q + 1) * period
        BY <3>1, <3>3
      <3>5. n * period < (limit + 1 + (q + 1)) * period
        <4>1. worth + period - more[i] <= limit * period + period + x
          BY <1>1
        <4> HIDE DEF x, n, q
        <4>2. (limit + 1 + (q + 1)) * period = limit * period + period + (q + 1) * period
          BY <3>4
        <4>3. n * period \in Nat /\ limit * period \in Nat /\ (q + 1) * period \in Nat
          BY <3>1, <3>4
        <4>4. worth + period - more[i] \in Int /\ x < (q + 1) * period /\ x \in Nat
          BY <1>1, <3>1, <3>4
        <4>5. n * period < limit * period + period + (q + 1) * period
          BY <3>2, <4>1, <4>3, <4>4
        <4> QED
          BY <4>2, <4>5
      <3>6. \A y, z \in Nat : y * period < z * period => y < z
        BY Z3
      <3>7. n < limit + 1 + (q + 1)
        BY <3>1, <3>4, <3>5, <3>6
      <3>8. (more[j] - more[i]) \div period = q /\ j - i + 1 = n
        BY <1>1, <2>2
      <3> HIDE DEF n, q
      <3>9. n <= limit + q + 1
        BY <3>1, <3>4, <3>7
      <3> QED
        BY <3>8, <3>9, Zenon
    <2> QED
      BY <2>1, <2>2
  <1> QED
    BY <1>1, <1>3, <1>4 DEF Bounded, NotAfter, more

------------------------------------------------------------------------------
(* What is let through is covered *)

\* Times lie before now, as those of buckets do.
ClocksOK ==
    /\ clock \in 0..(IntLimit - 1)
    /\ outboundLeakyBucket.lastTime \in 0..clock
    /\ \A i \in Slots : buckets[i].used => buckets[i].lastTime \in 0..clock

\* What has been let through of an address is covered by what its bucket is
\* worth, or by the clock if it has none.
AddressCovered(a) ==
    /\ \A i \in Slots : Holds(buckets, i, a) =>
            Covered(admitted[a], Worth(buckets[i], Period), Period)
    /\ (\A i \in Slots : ~Holds(buckets, i, a)) => Covered(admitted[a], clock, Period)

AddressRate(a) ==
    /\ admitted[a] \in Seq(Nat) /\ NotAfter(admitted[a], clock)
    /\ Bounded(admitted[a], Burst, Period)
    /\ AddressCovered(a)

ReplyRate ==
    /\ replies \in Seq(Nat) /\ NotAfter(replies, clock)
    /\ Bounded(replies, OutBurst, OutPeriod)
    /\ Covered(replies, Worth(outboundLeakyBucket, OutPeriod), OutPeriod)

RateInv ==
    /\ ClocksOK
    /\ admitted \in [Address -> Seq(Nat)]
    /\ \A a \in Address : AddressRate(a)
    /\ ReplyRate

\* Clock steps and packets go by with the clock in range.
LEMMA ClockInRange ==
    ASSUME ForwardOnly, ChainInv, ClocksOK, Next
    PROVE  clock' \in 0..(IntLimit - 1) /\ clock <= clock'
  <1>1. CASE \E a \in Address : Packet(a)
    BY <1>1 DEF Packet, ClocksOK
  <1>2. ASSUME NEW d \in ClockSteps, ClockStep(d)
        PROVE  clock' \in 0..(IntLimit - 1) /\ clock <= clock'
    BY <1>2, ClockAssumption, IntAssumption DEF ForwardOnly, ClocksOK, ClockStep
  <1> QED
    BY <1>1, <1>2, StepsArePackets

\* The bucket a packet is poured into has lost nothing.
LEMMA PouredWorth ==
    ASSUME ChainInv, ClocksOK, NEW a \in Address, NEW i \in Slots, PoursInto(a, i)
    PROVE  /\ buckets'[i].lastTime \in buckets[i].lastTime..clock
           /\ buckets'[i].burst \in 1..Burst
           /\ clock < buckets'[i].lastTime + Period
           /\ Worth(buckets[i], Period)
                <= Worth(buckets'[i], Period) - (IF AddressLimited(a) THEN 0 ELSE Period)
           /\ Worth(buckets[i], Period) \in Int /\ Worth(buckets'[i], Period) \in Int
  <1> DEFINE burst == buckets[i].burst
             last == buckets[i].lastTime
             level == LeakedBurst(burst, last, clock, Period)
             time == LeakedTime(burst, last, clock, Period)
  <1>1. /\ clock \in 0..(IntLimit - 1) /\ last \in 0..clock
        /\ burst \in 0..Burst /\ Burst \in Nat \ {0} /\ Period \in Nat \ {0}
    <2>1. buckets[i].used
      BY DEF PoursInto, Holds
    <2>2. buckets[i].burst \in Nat /\ buckets[i].burst <= Burst
      BY DEF ChainInv, IInv, TypeOK, Bucket
    <2> QED
      BY <2>1, <2>2, LimitAssumption DEF ClocksOK
  <1>2. Sys_Milliseconds = clock
    BY <1>1, ToIntSame, IntAssumption DEF Sys_Milliseconds, IntRange
  <1>3. /\ level \in 0..burst /\ time \in last..clock
        /\ clock < time + Period
        /\ burst * Period + last <= level * Period + time
    <2>1. burst \in Nat
      BY <1>1
    <2> QED
      BY <1>1, <2>1, LeakLosesNothing, Zenon
  <1>4. /\ AddressLimited(a) <=> level >= Burst
        /\ buckets'[i].burst = IF level < Burst THEN level + 1 ELSE level
        /\ buckets'[i].lastTime = time
    BY <1>2 DEF PoursInto, Level
  <1>5. Worth(buckets[i], Period) = burst * Period + last /\ burst * Period + last \in Int
    BY <1>1 DEF Worth
  <1> HIDE DEF level, time, burst, last
  <1>6. CASE level < Burst
    <2>1. buckets'[i].burst = level + 1 /\ ~AddressLimited(a)
      BY <1>1, <1>3, <1>4, <1>6
    <2>2. Worth(buckets'[i], Period) = level * Period + Period + time
      <3>1. Worth(buckets'[i], Period) = (level + 1) * Period + time
        BY <1>4, <2>1, Zenon DEF Worth
      <3>2. (level + 1) * Period = level * Period + Period
        BY <1>1, <1>3
      <3> QED
        BY <3>1, <3>2
    <2>3. level * Period \in Int /\ time \in Int
      BY <1>1, <1>3 DEF last
    <2>4. Worth(buckets[i], Period) <= Worth(buckets'[i], Period) - Period
      BY <1>1, <1>3, <1>5, <2>2, <2>3
    <2>5. buckets'[i].burst \in 1..Burst /\ Worth(buckets'[i], Period) \in Int
      BY <1>1, <1>3, <1>6, <2>1, <2>2, <2>3
    <2> QED
      BY <1>3, <1>4, <1>5, <2>1, <2>4, <2>5 DEF last
  <1>7. CASE ~(level < Burst)
    <2>1. buckets'[i].burst = level /\ AddressLimited(a)
      BY <1>1, <1>3, <1>4, <1>7
    <2>2. Worth(buckets'[i], Period) = level * Period + time
      BY <1>4, <2>1, Zenon DEF Worth
    <2>3. level * Period \in Int /\ time \in Int
      BY <1>1, <1>3 DEF last
    <2>4. Worth(buckets[i], Period) <= Worth(buckets'[i], Period) - 0
      BY <1>1, <1>3, <1>5, <2>2, <2>3
    <2>5. buckets'[i].burst \in 1..Burst /\ Worth(buckets'[i], Period) \in Int
      BY <1>1, <1>3, <1>7, <2>1, <2>2, <2>3
    <2> QED
      BY <1>3, <1>4, <1>5, <2>1, <2>4, <2>5 DEF last
  <1> QED
    BY <1>6, <1>7

\* One record of times, when a packet may have been let through and the bucket
\* has become worth one period more.
LEMMA RecordKeepsRate ==
    ASSUME NEW times \in Seq(Nat), NEW now \in Nat, NEW worth \in Int, NEW more \in Int,
           NEW limit \in Nat, NEW period \in Nat \ {0}, NEW taken \in BOOLEAN,
           NotAfter(times, now), Bounded(times, limit, period),
           Covered(times, worth, period),
           worth <= more, taken => worth + period <= more,
           now <= more, more <= limit * period + now,
           NEW after, after = IF taken THEN Append(times, now) ELSE times
    PROVE  /\ after \in Seq(Nat) /\ NotAfter(after, now)
           /\ Bounded(after, limit, period)
           /\ Covered(after, more, period)
  <1>1. CASE ~taken
    <2>1. Covered(times, more, period)
      BY <1>1, CoversMore
    <2> QED
      BY <1>1, <2>1
  <1>2. CASE taken
    <2>1. more - period \in Int /\ worth <= more - period
      BY <1>2
    <2>2. Covered(times, more - period, period)
      BY <2>1, CoversMore
    <2>3. now <= (more - period) + period /\ (more - period) + period = more
      BY <2>1
    <2>4. Append(times, now) \in Seq(Nat) /\ Covered(Append(times, now), more, period)
      BY <2>1, <2>2, <2>3, CoversOneMore
    <2>5. Bounded(Append(times, now), limit, period) /\ NotAfter(Append(times, now), now)
      BY <2>4, CoveredIsBounded
    <2> QED
      BY <1>2, <2>4, <2>5
  <1> QED
    BY <1>1, <1>2

\* A packet of an address and the record of what was let through of it.
LEMMA OwnRateKept ==
    ASSUME ForwardOnly, ChainInv, ChainInv', ClocksOK, NEW a \in Address, Packet(a), Record,
           admitted \in [Address -> Seq(Nat)], AddressRate(a)
    PROVE  AddressRate(a)'
  <1> DEFINE times == admitted[a]
             after == admitted'[a]
             taken == outcome'.adr = a /\ outcome'.verdict \in Admits
  <1>1. /\ clock \in Nat /\ clock \in 0..(IntLimit - 1) /\ clock' = clock
        /\ Burst \in Nat \ {0} /\ Period \in Nat \ {0}
    BY LimitAssumption DEF ClocksOK, Packet
  <1>2. after = IF taken THEN Append(times, clock) ELSE times
    BY DEF Record
  <1>3. taken => ~AddressLimited(a)
    BY DEF Packet, Admits
  <1>4. taken \in BOOLEAN
    OBVIOUS
  <1>5. /\ times \in Seq(Nat) /\ NotAfter(times, clock) /\ Bounded(times, Burst, Period)
        /\ AddressCovered(a)
    BY DEF AddressRate
  <1>6. OneBucketEach(buckets')
    BY DEF ChainInv
  <1> HIDE DEF times, after, taken
  <1>7. ASSUME NEW worth \in Int, NEW more \in Int, Covered(times, worth, Period),
               worth <= more, taken => worth + Period <= more,
               clock <= more, more <= Burst * Period + clock
        PROVE  /\ after \in Seq(Nat) /\ NotAfter(after, clock)
               /\ Bounded(after, Burst, Period) /\ Covered(after, more, Period)
    BY <1>1, <1>2, <1>4, <1>5, <1>7, RecordKeepsRate
  <1>8. \A x \in 1..Burst :
            x * Period \in Nat /\ Period <= x * Period /\ x * Period <= Burst * Period
    <2>1. \A x, y \in Nat : x <= y => x * Period <= y * Period
      BY <1>1, Z3
    <2>2. \A x \in 1..Burst : 1 * Period <= x * Period /\ x * Period <= Burst * Period
      BY <1>1, <2>1
    <2> QED
      BY <1>1, <2>2
  <1>9. ASSUME NEW i \in Slots, PoursInto(a, i)
        PROVE  AddressRate(a)'
    <2> DEFINE worth == Worth(buckets[i], Period)
               more == Worth(buckets'[i], Period)
               last == buckets'[i].lastTime
               burst == buckets'[i].burst
    <2>1. /\ last \in Nat /\ last <= clock /\ clock < last + Period
          /\ burst \in 1..Burst
          /\ worth <= more - (IF AddressLimited(a) THEN 0 ELSE Period)
          /\ worth \in Int /\ more \in Int
      <3>1. buckets[i].lastTime \in 0..clock
        BY <1>9 DEF PoursInto, Holds, ClocksOK
      <3> QED
        BY <1>1, <1>9, <3>1, PouredWorth
    <2>2. more = burst * Period + last
      BY DEF Worth
    <2>3. Covered(times, worth, Period)
      BY <1>5, <1>9, Zenon DEF AddressCovered, PoursInto, times
    <2> HIDE DEF worth, more, last, burst
    <2>4. worth <= more /\ (taken => worth + Period <= more)
      BY <1>1, <1>3, <2>1
    <2>5. clock <= more /\ more <= Burst * Period + clock
      <3>1. /\ burst * Period \in Nat /\ Burst * Period \in Nat
            /\ Period <= burst * Period /\ burst * Period <= Burst * Period
        BY <1>1, <1>8, <2>1
      <3>2. ASSUME NEW p \in Nat, NEW q \in Nat, Period <= p, p <= q, more = p + last
            PROVE  clock <= more /\ more <= q + clock
        <4>1. /\ last \in Nat /\ last <= clock /\ clock < last + Period
              /\ clock \in Nat /\ Period \in Nat
          BY <1>1, <2>1, Zenon
        <4> QED
          BY <3>2, <4>1
      <3> QED
        BY <2>2, <3>1, <3>2, Zenon
    <2>6. /\ after \in Seq(Nat) /\ NotAfter(after, clock)
          /\ Bounded(after, Burst, Period) /\ Covered(after, more, Period)
      BY <1>7, <2>1, <2>3, <2>4, <2>5
    <2>7. Holds(buckets', i, a) /\ \A j \in Slots : Holds(buckets', j, a) => j = i
      BY <1>6, <1>9, Zenon DEF PoursInto, OneBucketEach
    <2> QED
      BY <1>1, <2>6, <2>7 DEF AddressRate, AddressCovered, after, more
  <1>10. ASSUME NEW i \in Slots, Gets(a, i)
         PROVE  AddressRate(a)'
    <2>1. Covered(times, clock, Period)
      BY <1>5, <1>10, Zenon DEF AddressCovered, Gets, times
    <2>2. Worth(buckets'[i], Period) = Period + clock
      <3>1. buckets'[i].burst = 1 /\ buckets'[i].lastTime = clock
        BY <1>1, <1>10, ToIntSame, IntAssumption DEF Gets, Sys_Milliseconds, IntRange
      <3> QED
        BY <1>1, <3>1 DEF Worth
    <2>3. Period <= Burst * Period /\ Burst * Period \in Nat
      BY <1>1, <1>8
    <2>4. /\ after \in Seq(Nat) /\ NotAfter(after, clock)
          /\ Bounded(after, Burst, Period) /\ Covered(after, Period + clock, Period)
      <3>1. /\ clock \in Int /\ Period + clock \in Int
            /\ clock <= Period + clock /\ clock + Period <= Period + clock
            /\ Period + clock <= Burst * Period + clock
        BY <1>1, <2>3
      <3> QED
        BY <1>7, <2>1, <3>1, Zenon
    <2>5. Holds(buckets', i, a) /\ \A j \in Slots : Holds(buckets', j, a) => j = i
      BY <1>6, <1>10, Zenon DEF Gets, OneBucketEach
    <2> QED
      BY <1>1, <2>2, <2>4, <2>5 DEF AddressRate, AddressCovered, after
  <1>11. CASE NoRoom(a)
    <2>1. ~taken /\ Covered(times, clock, Period)
      BY <1>3, <1>5, <1>11, Zenon DEF AddressCovered, NoRoom, times
    <2>2. Burst * Period \in Nat
      BY <1>1
    <2>3. /\ after \in Seq(Nat) /\ NotAfter(after, clock)
          /\ Bounded(after, Burst, Period) /\ Covered(after, clock, Period)
      <3>1. /\ clock \in Int /\ clock <= clock
            /\ clock <= Burst * Period + clock
        BY <1>1, <2>2
      <3> QED
        BY <1>7, <2>1, <3>1, Zenon
    <2>4. \A j \in Slots : ~Holds(buckets', j, a)
      BY <1>11 DEF NoRoom
    <2> QED
      BY <1>1, <2>3, <2>4 DEF AddressRate, AddressCovered, after
  <1> QED
    BY <1>9, <1>10, <1>11, AddressStep, Zenon DEF Packet

\* What a bucket that is reclaimed was worth is past.
LEMMA ReclaimedIsPast ==
    ASSUME ChainInv, ClocksOK, NEW i \in Slots, buckets[i].used, Reclaimable(i)
    PROVE  Worth(buckets[i], Period) \in Int /\ Worth(buckets[i], Period) <= clock
  <1> DEFINE burst == buckets[i].burst
             last == buckets[i].lastTime
  <1>1. /\ burst \in Nat /\ burst <= Burst
        /\ Burst \in Nat /\ Period \in Nat
    BY LimitAssumption DEF ChainInv, IInv, TypeOK, Bucket
  <1>2. clock \in 0..(IntLimit - 1) /\ last \in 0..clock
    BY DEF ClocksOK
  <1>3. Sys_Milliseconds = clock /\ Interval(clock, last) = clock - last
    BY <1>2, ToIntSame, IntAssumption DEF Sys_Milliseconds, Interval, IntRange
  <1>4. clock - last > Burst * Period \/ clock - last < 0
    BY <1>3, Zenon DEF Reclaimable, Expired, last
  <1>5. burst * Period <= Burst * Period /\ burst * Period \in Nat /\ Burst * Period \in Nat
    <2>1. \A x, y \in Nat : x <= y => x * Period <= y * Period
      BY <1>1, Z3
    <2> QED
      BY <1>1, <2>1
  <1>6. Worth(buckets[i], Period) = burst * Period + last
    BY DEF Worth
  <1> HIDE DEF burst, last
  <1> QED
    BY <1>2, <1>4, <1>5, <1>6

\* A step leaves what was let through of all other addresses covered.
LEMMA OtherRateKept ==
    ASSUME ForwardOnly, ChainInv, ChainInv', ClocksOK, Next, NEW e \in Address,
           admitted'[e] = admitted[e], AddressRate(e),
           \A j \in Slots :
                \/ /\ Holds(buckets', j, e) /\ Holds(buckets, j, e)
                   /\ SameMeter(buckets'[j], buckets[j])
                \/ ~Holds(buckets', j, e) /\ (Holds(buckets, j, e) => Reclaimable(j))
    PROVE  AddressRate(e)'
  <1>1. clock \in Nat /\ clock' \in Nat /\ clock <= clock'
    BY ClockInRange, IntAssumption DEF ClocksOK
  <1>2. /\ admitted[e] \in Seq(Nat) /\ NotAfter(admitted[e], clock)
        /\ Bounded(admitted[e], Burst, Period) /\ AddressCovered(e)
    BY DEF AddressRate
  <1>3. NotAfter(admitted[e], clock')
    <2> SUFFICES ASSUME NEW k \in DOMAIN admitted[e] PROVE admitted[e][k] <= clock'
      BY DEF NotAfter
    <2>1. admitted[e][k] \in Nat /\ admitted[e][k] <= clock
      BY <1>2 DEF NotAfter
    <2> QED
      BY <1>1, <2>1
  <1>4. ASSUME NEW j \in Slots, Holds(buckets', j, e)
        PROVE  Covered(admitted[e], Worth(buckets'[j], Period), Period)
    <2>1. Holds(buckets, j, e) /\ SameMeter(buckets'[j], buckets[j])
      BY <1>4
    <2>2. Worth(buckets'[j], Period) = Worth(buckets[j], Period)
      BY <2>1 DEF SameMeter, Worth
    <2> QED
      BY <1>2, <2>1, <2>2 DEF AddressCovered
  <1>5. ASSUME \A j \in Slots : ~Holds(buckets', j, e)
        PROVE  Covered(admitted[e], clock', Period)
    <2>1. Period \in Nat
      BY LimitAssumption
    <2>2. CASE \A j \in Slots : ~Holds(buckets, j, e)
      <3>1. Covered(admitted[e], clock, Period)
        BY <1>2, <2>2 DEF AddressCovered
      <3> QED
        BY <1>1, <1>2, <2>1, <3>1, CoversMore
    <2>3. ASSUME NEW j \in Slots, Holds(buckets, j, e)
          PROVE  Covered(admitted[e], clock', Period)
      <3>1. Reclaimable(j) /\ buckets[j].used
        BY <1>5, <2>3 DEF Holds
      <3>2. Worth(buckets[j], Period) \in Int /\ Worth(buckets[j], Period) <= clock'
        BY <1>1, <3>1, ReclaimedIsPast
      <3>3. Covered(admitted[e], Worth(buckets[j], Period), Period)
        BY <1>2, <2>3 DEF AddressCovered
      <3> QED
        BY <1>1, <1>2, <2>1, <3>2, <3>3, CoversMore
    <2> QED
      BY <2>2, <2>3
  <1> QED
    BY <1>2, <1>3, <1>4, <1>5 DEF AddressRate, AddressCovered

\* The times of buckets stay in the past.
LEMMA ClocksNext ==
    ASSUME ForwardOnly, ChainInv, ClocksOK, Next
    PROVE  ClocksOK'
  <1>1. clock' \in 0..(IntLimit - 1) /\ clock <= clock' /\ clock \in 0..(IntLimit - 1)
    BY ClockInRange DEF ClocksOK
  <1>2. ASSUME NEW i \in Slots, buckets'[i].used
        PROVE  buckets'[i].lastTime \in 0..clock'
    <2>1. CASE buckets' = buckets
      BY <1>1, <1>2, <2>1, IntAssumption DEF ClocksOK
    <2>2. ASSUME NEW a \in Address, Packet(a)
          PROVE  buckets'[i].lastTime \in 0..clock'
      <3>1. ASSUME NEW k \in Slots, \A j \in Slots \ {k} : SameMeter(buckets'[j], buckets[j]),
                   i # k
            PROVE  buckets'[i].lastTime \in 0..clock'
        <4>1. buckets[i].used /\ buckets'[i].lastTime = buckets[i].lastTime
          BY <1>2, <3>1 DEF SameMeter
        <4> QED
          BY <1>1, <4>1, IntAssumption DEF ClocksOK
      <3>2. ASSUME NEW k \in Slots, PoursInto(a, k)
            PROVE  buckets'[i].lastTime \in 0..clock'
        <4>1. CASE i = k
          <5>1. buckets[i].lastTime \in 0..clock
            BY <3>2, <4>1 DEF PoursInto, Holds, ClocksOK
          <5>2. buckets'[i].lastTime \in buckets[i].lastTime..clock
            BY <3>2, <4>1, PouredWorth
          <5> QED
            BY <1>1, <5>1, <5>2, IntAssumption
        <4>2. CASE i # k
          BY <3>1, <3>2, <4>2, Zenon DEF PoursInto
        <4> QED
          BY <4>1, <4>2
      <3>3. ASSUME NEW k \in Slots, Gets(a, k)
            PROVE  buckets'[i].lastTime \in 0..clock'
        <4>1. CASE i = k
          <5>1. buckets'[i].lastTime = Sys_Milliseconds
            BY <3>3, <4>1, Zenon DEF Gets
          <5>2. Sys_Milliseconds = clock
            BY <1>1, ToIntSame, IntAssumption DEF Sys_Milliseconds, IntRange
          <5> QED
            BY <1>1, <5>1, <5>2, IntAssumption
        <4>2. CASE i # k
          BY <3>1, <3>3, <4>2, Zenon DEF Gets
        <4> QED
          BY <4>1, <4>2
      <3>4. CASE NoRoom(a)
        BY <2>1, <3>4 DEF NoRoom
      <3> QED
        BY <2>2, <3>2, <3>3, <3>4, AddressStep, Zenon DEF Packet
    <2> QED
      BY <2>1, <2>2, StepsArePackets DEF ClockStep
  <1>3. outboundLeakyBucket'.lastTime \in 0..clock'
    <2>1. \/ outboundLeakyBucket' = outboundLeakyBucket
          \/ outboundLeakyBucket' =
                SVC_RateLimit(outboundLeakyBucket, Sys_Milliseconds, OutBurst, OutPeriod)
      BY DEF Next, Query, RconGood, RconBad, ClockStep
    <2>2. CASE outboundLeakyBucket' = outboundLeakyBucket
      BY <1>1, <2>2, IntAssumption DEF ClocksOK
    <2>3. CASE outboundLeakyBucket' =
                SVC_RateLimit(outboundLeakyBucket, Sys_Milliseconds, OutBurst, OutPeriod)
      <3>1. Sys_Milliseconds = clock /\ clock \in IntRange
        BY <1>1, ToIntSame, IntAssumption DEF Sys_Milliseconds, IntRange
      <3>2. /\ outboundLeakyBucket \in Bucket /\ outboundLeakyBucket.burst \in Nat
            /\ outboundLeakyBucket.lastTime \in 0..clock
            /\ OutBurst \in Nat /\ OutPeriod \in Nat \ {0}
        BY LimitAssumption DEF ChainInv, IInv, TypeOK, Bucket, ClocksOK
      <3> DEFINE time == LeakedTime(outboundLeakyBucket.burst,
                                    outboundLeakyBucket.lastTime, clock, OutPeriod)
      <3>3. outboundLeakyBucket'.lastTime = time
        BY <2>3, <3>1, <3>2, PourOfBucket
      <3>4. time \in outboundLeakyBucket.lastTime..clock
        BY <1>1, <3>2, LeakLosesNothing
      <3> HIDE DEF time
      <3> QED
        BY <1>1, <3>2, <3>3, <3>4, IntAssumption
    <2> QED
      BY <2>1, <2>2, <2>3
  <1> QED
    BY <1>1, <1>2, <1>3 DEF ClocksOK

\* A reply goes out only if the bucket of replies had room, and fills it.
LEMMA RepliesPour ==
    ASSUME Next, outcome'.verdict \in {"reply", "badChallenge"}
    PROVE  /\ ~OutboundLimited /\ clock' = clock
           /\ outboundLeakyBucket' =
                SVC_RateLimit(outboundLeakyBucket, Sys_Milliseconds, OutBurst, OutPeriod)
  <1>1. ASSUME NEW a \in Address, NEW wellFormed \in BOOLEAN, Query(a, wellFormed)
        PROVE  /\ ~OutboundLimited /\ clock' = clock
               /\ outboundLeakyBucket' =
                    SVC_RateLimit(outboundLeakyBucket, Sys_Milliseconds, OutBurst, OutPeriod)
    BY <1>1 DEF Query, Says
  <1>2. ASSUME NEW a \in Address, RconGood(a)
        PROVE  FALSE
    BY <1>2 DEF RconGood, Says
  <1>3. ASSUME NEW a \in Address, NEW passwordSet \in BOOLEAN, RconBad(a, passwordSet)
        PROVE  FALSE
    <2> DEFINE passes == ~Limited(rconBucket, Sys_Milliseconds, Burst, Period)
               allowed == passwordSet /\ GuessAllowed
               verdict == CASE ~passes -> "rconLimit"
                            [] passes /\ ~passwordSet -> "noPassword"
                            [] passes /\ passwordSet /\ ~allowed -> "tooSoon"
                            [] passes /\ allowed -> "guess"
    <2>1. CASE AddressLimited(a)
      BY <1>3, <2>1 DEF RconBad, Says
    <2>2. CASE ~AddressLimited(a)
      <3>1. Says(a, verdict)
        BY <1>3, <2>2, Zenon DEF RconBad
      <3> HIDE DEF passes
      <3>2. verdict \notin {"reply", "badChallenge"}
        OBVIOUS
      <3> HIDE DEF verdict
      <3>3. outcome'.verdict = verdict
        BY <3>1 DEF Says
      <3> QED
        BY <3>2, <3>3
    <2> QED
      BY <2>1, <2>2
  <1>4. ASSUME NEW d \in ClockSteps, ClockStep(d)
        PROVE  FALSE
    BY <1>4 DEF ClockStep, Says
  <1> QED
    BY <1>1, <1>2, <1>3, <1>4 DEF Next

------------------------------------------------------------------------------
(* The rates, and refusals *)

\* What pouring does to the worth of the bucket of replies.
LEMMA ReplyWorth ==
    ASSUME ChainInv, ClocksOK,
           outboundLeakyBucket' =
                SVC_RateLimit(outboundLeakyBucket, Sys_Milliseconds, OutBurst, OutPeriod),
           NEW worth, worth = Worth(outboundLeakyBucket, OutPeriod),
           NEW more, more = Worth(outboundLeakyBucket', OutPeriod)
    PROVE  /\ worth \in Int /\ more \in Int /\ worth <= more
           /\ ~OutboundLimited =>
                /\ worth + OutPeriod <= more
                /\ clock <= more /\ more <= OutBurst * OutPeriod + clock
  <1> DEFINE burst == outboundLeakyBucket.burst
             last == outboundLeakyBucket.lastTime
             level == LeakedBurst(burst, last, clock, OutPeriod)
             time == LeakedTime(burst, last, clock, OutPeriod)
  <1>1. /\ clock \in 0..(IntLimit - 1) /\ clock \in Nat /\ clock \in IntRange
        /\ last \in 0..clock
        /\ burst \in Nat
        /\ outboundLeakyBucket \in Bucket
        /\ OutBurst \in Nat \ {0} /\ OutPeriod \in Nat \ {0}
    BY LimitAssumption, IntAssumption DEF ChainInv, IInv, TypeOK, Bucket, ClocksOK, IntRange
  <1>2. Sys_Milliseconds = clock
    BY <1>1, ToIntSame DEF Sys_Milliseconds
  <1>3. /\ level \in 0..burst /\ time \in last..clock
        /\ clock < time + OutPeriod
        /\ burst * OutPeriod + last <= level * OutPeriod + time
    BY <1>1, LeakLosesNothing, Zenon
  <1>4. /\ OutboundLimited <=> level >= OutBurst
        /\ outboundLeakyBucket'.burst = IF level < OutBurst THEN level + 1 ELSE level
        /\ outboundLeakyBucket'.lastTime = time
    <2>1. outboundLeakyBucket' = SVC_RateLimit(outboundLeakyBucket, clock, OutBurst, OutPeriod)
      BY <1>2
    <2>2. OutboundLimited <=> Limited(outboundLeakyBucket, clock, OutBurst, OutPeriod)
      BY <1>2 DEF OutboundLimited
    <2>3. OutBurst \in Nat
      BY <1>1
    <2> DEFINE b == outboundLeakyBucket
               c == SVC_RateLimit(b, clock, OutBurst, OutPeriod)
    <2>4. b \in Bucket
      BY <1>1
    <2> HIDE DEF b, c
    <2>5. /\ Limited(b, clock, OutBurst, OutPeriod) <=>
                LeakedBurst(b.burst, b.lastTime, clock, OutPeriod) >= OutBurst
          /\ c.burst = IF LeakedBurst(b.burst, b.lastTime, clock, OutPeriod) < OutBurst
                       THEN LeakedBurst(b.burst, b.lastTime, clock, OutPeriod) + 1
                       ELSE LeakedBurst(b.burst, b.lastTime, clock, OutPeriod)
          /\ c.lastTime = LeakedTime(b.burst, b.lastTime, clock, OutPeriod)
      BY <1>1, <2>3, <2>4, PourOfBucket DEF c
    <2> QED
      BY <2>1, <2>2, <2>5, Zenon DEF b, c, burst, last, level, time
  <1>5. worth = burst * OutPeriod + last /\ worth \in Int
    BY <1>1 DEF Worth
  <1> HIDE DEF level, time, burst, last
  <1>6. CASE level < OutBurst
    <2>1. outboundLeakyBucket'.burst = level + 1
      BY <1>4, <1>6
    <2>2. more = (level + 1) * OutPeriod + time
      BY <1>4, <2>1, Zenon DEF Worth
    <2>3. /\ (level + 1) * OutPeriod = level * OutPeriod + OutPeriod
          /\ level * OutPeriod \in Nat /\ OutBurst * OutPeriod \in Nat
          /\ level * OutPeriod + OutPeriod <= OutBurst * OutPeriod
      <3>1. \A x, y \in Nat : x <= y => x * OutPeriod <= y * OutPeriod
        BY <1>1, Z3
      <3>2. level \in Nat /\ level + 1 \in Nat /\ OutBurst \in Nat /\ level + 1 <= OutBurst
        BY <1>1, <1>3, <1>6
      <3>3. (level + 1) * OutPeriod <= OutBurst * OutPeriod
        BY <3>1, <3>2
      <3>4. (level + 1) * OutPeriod = level * OutPeriod + OutPeriod
        BY <1>1, <3>2
      <3> QED
        BY <1>1, <3>2, <3>3, <3>4
    <2>4. more = level * OutPeriod + OutPeriod + time /\ time \in Nat /\ time <= clock
      BY <1>1, <1>3, <2>2, <2>3
    <2>5. ASSUME NEW p \in Nat, NEW q \in Nat, p + OutPeriod <= q,
                 more = p + OutPeriod + time, worth <= p + time
          PROVE  /\ more \in Int /\ worth + OutPeriod <= more /\ worth <= more
                 /\ clock <= more /\ more <= q + clock
      BY <1>1, <1>3, <1>5, <2>4, <2>5
    <2> QED
      BY <1>3, <1>5, <2>3, <2>4, <2>5, Zenon
  <1>7. CASE ~(level < OutBurst)
    <2>1. outboundLeakyBucket'.burst = level /\ OutboundLimited
      BY <1>1, <1>3, <1>4, <1>7
    <2>2. more = level * OutPeriod + time
      BY <1>4, <2>1, Zenon DEF Worth
    <2>3. level * OutPeriod \in Nat /\ time \in Nat
      BY <1>1, <1>3
    <2> QED
      BY <1>3, <1>5, <2>1, <2>2, <2>3
  <1> QED
    BY <1>6, <1>7

\* Replies are covered by the outbound bucket.
LEMMA ReplyRateKept ==
    ASSUME ForwardOnly, ChainInv, ClocksOK, Next, Record, ReplyRate
    PROVE  ReplyRate'
  <1> DEFINE worth == Worth(outboundLeakyBucket, OutPeriod)
             more == Worth(outboundLeakyBucket', OutPeriod)
             taken == outcome'.verdict \in {"reply", "badChallenge"}
  <1>1. /\ clock \in Nat /\ clock' \in Nat /\ clock <= clock'
        /\ OutBurst \in Nat /\ OutPeriod \in Nat \ {0} /\ OutPeriod \in Nat
    BY ClockInRange, LimitAssumption, IntAssumption DEF ClocksOK
  <1>2. /\ replies \in Seq(Nat) /\ NotAfter(replies, clock)
        /\ Bounded(replies, OutBurst, OutPeriod)
        /\ Covered(replies, worth, OutPeriod)
    BY DEF ReplyRate
  <1>3. worth \in Int
    <2>1. outboundLeakyBucket.burst \in Nat /\ outboundLeakyBucket.lastTime \in Int
      BY IntAssumption DEF ChainInv, IInv, TypeOK, Bucket, IntRange
    <2> QED
      BY <1>1, <2>1 DEF Worth
  <1> HIDE DEF worth, more
  <1>4. CASE taken
    <2>1. /\ ~OutboundLimited /\ clock' = clock
          /\ outboundLeakyBucket' =
                SVC_RateLimit(outboundLeakyBucket, Sys_Milliseconds, OutBurst, OutPeriod)
      BY <1>4, RepliesPour
    <2>2. /\ worth \in Int /\ more \in Int /\ worth <= more
          /\ worth + OutPeriod <= more
          /\ clock <= more /\ more <= OutBurst * OutPeriod + clock
      BY <2>1, ReplyWorth DEF worth, more
    <2>3. replies' = IF TRUE THEN Append(replies, clock) ELSE replies
      BY <1>4 DEF Record
    <2>4. /\ replies' \in Seq(Nat) /\ NotAfter(replies', clock)
          /\ Bounded(replies', OutBurst, OutPeriod)
          /\ Covered(replies', more, OutPeriod)
      <3> DEFINE yes == TRUE
      <3>1. yes \in BOOLEAN /\ replies' = IF yes THEN Append(replies, clock) ELSE replies
        BY <2>3
      <3> HIDE DEF yes
      <3> QED
        BY <1>1, <1>2, <2>2, <3>1, RecordKeepsRate
    <2> QED
      BY <2>1, <2>4 DEF ReplyRate, more
  <1>5. CASE ~taken
    <2>1. replies' = replies
      BY <1>5 DEF Record
    <2>2. NotAfter(replies, clock')
      <3> SUFFICES ASSUME NEW k \in DOMAIN replies PROVE replies[k] <= clock'
        BY DEF NotAfter
      <3>1. replies[k] \in Nat /\ replies[k] <= clock
        BY <1>2 DEF NotAfter
      <3> QED
        BY <1>1, <3>1
    <2>3. more \in Int /\ worth <= more
      <3>1. \/ outboundLeakyBucket' = outboundLeakyBucket
            \/ outboundLeakyBucket' =
                  SVC_RateLimit(outboundLeakyBucket, Sys_Milliseconds, OutBurst, OutPeriod)
        BY DEF Next, Query, RconGood, RconBad, ClockStep
      <3>2. CASE outboundLeakyBucket' = outboundLeakyBucket
        <4>1. more = worth
          BY <3>2 DEF more, worth
        <4> QED
          BY <1>3, <4>1
      <3>3. CASE outboundLeakyBucket' =
                  SVC_RateLimit(outboundLeakyBucket, Sys_Milliseconds, OutBurst, OutPeriod)
        BY <3>3, ReplyWorth DEF worth, more
      <3> QED
        BY <3>1, <3>2, <3>3
    <2>4. Covered(replies, more, OutPeriod)
      BY <1>1, <1>2, <1>3, <2>3, CoversMore
    <2> QED
      BY <1>2, <2>1, <2>2, <2>4 DEF ReplyRate, more
  <1> QED
    BY <1>4, <1>5

\* How a packet of one address, or a step of the clock, leaves the buckets of
\* another address.
LEMMA OthersKept ==
    ASSUME ChainInv, Next, NEW e \in Address, outcome'.adr # e, NEW j \in Slots
    PROVE  \/ Holds(buckets', j, e) /\ Holds(buckets, j, e) /\ SameMeter(buckets'[j], buckets[j])
           \/ ~Holds(buckets', j, e) /\ (Holds(buckets, j, e) => Reclaimable(j))
  <1>1. CASE buckets' = buckets
    BY <1>1 DEF SameMeter
  <1>2. ASSUME NEW k \in Slots, j # k, \A i \in Slots \ {k} : SameMeter(buckets'[i], buckets[i])
        PROVE  \/ /\ Holds(buckets', j, e) /\ Holds(buckets, j, e)
                  /\ SameMeter(buckets'[j], buckets[j])
               \/ ~Holds(buckets', j, e) /\ (Holds(buckets, j, e) => Reclaimable(j))
    <2>1. SameMeter(buckets'[j], buckets[j])
      BY <1>2
    <2> QED
      BY <2>1 DEF Holds, SameMeter
  <1>3. ASSUME NEW a \in Address, Packet(a)
        PROVE  \/ /\ Holds(buckets', j, e) /\ Holds(buckets, j, e)
                  /\ SameMeter(buckets'[j], buckets[j])
               \/ ~Holds(buckets', j, e) /\ (Holds(buckets, j, e) => Reclaimable(j))
    <2>1. a # e
      BY <1>3 DEF Packet
    <2>2. ASSUME NEW k \in Slots, PoursInto(a, k)
          PROVE  \/ /\ Holds(buckets', j, e) /\ Holds(buckets, j, e)
                    /\ SameMeter(buckets'[j], buckets[j])
                 \/ ~Holds(buckets', j, e) /\ (Holds(buckets, j, e) => Reclaimable(j))
      <3>1. CASE j = k
        BY <2>1, <2>2, <3>1 DEF PoursInto, Holds
      <3> QED
        BY <1>2, <2>2, <3>1, Zenon DEF PoursInto
    <2>3. ASSUME NEW k \in Slots, Gets(a, k)
          PROVE  \/ /\ Holds(buckets', j, e) /\ Holds(buckets, j, e)
                    /\ SameMeter(buckets'[j], buckets[j])
                 \/ ~Holds(buckets', j, e) /\ (Holds(buckets, j, e) => Reclaimable(j))
      <3>1. CASE j = k
        <4>1. Holds(buckets', j, a) /\ (buckets[j].used => Reclaimable(j))
          BY <2>3, <3>1, Zenon DEF Gets
        <4> QED
          BY <2>1, <4>1 DEF Holds
      <3> QED
        BY <1>2, <2>3, <3>1, Zenon DEF Gets
    <2> QED
      BY <1>1, <1>3, <2>2, <2>3, AddressStep, Zenon DEF Packet, NoRoom
  <1> QED
    BY <1>1, <1>3, StepsArePackets DEF ClockStep

\* At first nothing has been let through.
LEMMA RatesInit == ASSUME ForwardOnly, HistoryInit PROVE RateInv
  <1>1. ClocksOK
    BY ClockAssumption, IntAssumption DEF ForwardOnly, HistoryInit, Init, FreeBucket, ClocksOK
  <1>2. /\ <<>> \in Seq(Nat) /\ DOMAIN <<>> = {}
    OBVIOUS
  <1>3. \A now, worth, period, burst :
            /\ NotAfter(<<>>, now) /\ Covered(<<>>, worth, period)
            /\ Bounded(<<>>, burst, period)
    BY <1>2 DEF NotAfter, Covered, Bounded
  <1>4. admitted = [a \in Address |-> <<>>] /\ replies = <<>>
    BY DEF HistoryInit
  <1>5. admitted \in [Address -> Seq(Nat)]
    BY <1>2, <1>4
  <1>6. \A a \in Address : AddressRate(a)
    BY <1>2, <1>3, <1>4 DEF AddressRate, AddressCovered
  <1>7. ReplyRate
    BY <1>2, <1>3, <1>4 DEF ReplyRate
  <1> QED
    BY <1>1, <1>5, <1>6, <1>7 DEF RateInv

\* Every step keeps what was let through covered.
LEMMA RatesNext ==
    ASSUME ForwardOnly, ChainInv, ChainInv', RateInv, [Next /\ Record]_historyVars
    PROVE  RateInv'
  <1>1. CASE UNCHANGED historyVars
    <2>1. UNCHANGED <<clock, buckets, outboundLeakyBucket, admitted, replies>>
      BY <1>1 DEF historyVars, vars
    <2> QED
      BY <2>1 DEF RateInv, ClocksOK, AddressRate, AddressCovered, ReplyRate
  <1>2. CASE Next /\ Record
    <2>1. ClocksOK' /\ ReplyRate'
      BY <1>2, ClocksNext, ReplyRateKept DEF RateInv
    <2>2. ASSUME NEW e \in Address
          PROVE  AddressRate(e)'
      <3>1. CASE outcome'.adr = e
        <4>1. \A d \in ClockSteps : ~ClockStep(d)
          BY <3>1, PoolAssumption DEF ClockStep, Says, NoAddress
        <4>2. PICK a \in Address : Packet(a)
          BY <1>2, <4>1, StepsArePackets
        <4>3. a = e
          BY <3>1, <4>2 DEF Packet
        <4> QED
          BY <1>2, <4>2, <4>3, OwnRateKept DEF RateInv
      <3>2. CASE outcome'.adr # e
        <4>1. admitted'[e] = admitted[e]
          BY <1>2, <3>2 DEF Record
        <4>2. \A j \in Slots :
                \/ /\ Holds(buckets', j, e) /\ Holds(buckets, j, e)
                   /\ SameMeter(buckets'[j], buckets[j])
                \/ ~Holds(buckets', j, e) /\ (Holds(buckets, j, e) => Reclaimable(j))
          BY <1>2, <3>2, OthersKept
        <4>3. ClocksOK /\ AddressRate(e)
          BY DEF RateInv
        <4> QED
          BY <1>2, <4>1, <4>2, <4>3, OtherRateKept
      <3> QED
        BY <3>1, <3>2
    <2>3. admitted' \in [Address -> Seq(Nat)]
      <3>1. \A e \in Address : admitted'[e] \in Seq(Nat)
        BY <2>2 DEF AddressRate
      <3>2. admitted' = [e \in Address |-> admitted'[e]]
        BY <1>2 DEF Record
      <3> QED
        BY <3>1, <3>2
    <2> QED
      BY <2>1, <2>2, <2>3 DEF RateInv
  <1> QED
    BY <1>1, <1>2

\* Whatever the arrival times and however buckets are reclaimed in between, in
\* every window of time an address gets no more past its limit, and the server
\* no more replies out, than the two limits of sv_main.c say.
THEOREM RatesHold == ASSUME ForwardOnly PROVE HistorySpec => []RatesAreBounded
  <1>1. HistoryInit => ChainInv /\ RateInv
    BY ChainInit, RatesInit DEF HistoryInit
  <1>2. ChainInv /\ RateInv /\ [Next /\ Record]_historyVars => (ChainInv /\ RateInv)'
    <2> SUFFICES ASSUME ChainInv, RateInv, [Next /\ Record]_historyVars
                 PROVE  (ChainInv /\ RateInv)'
      OBVIOUS
    <2>1. [Next]_vars
      BY DEF historyVars
    <2>2. ChainInv'
      BY <2>1, ChainNext
    <2> QED
      BY <2>2, RatesNext
  <1>3. RateInv => RatesAreBounded
    BY DEF RateInv, AddressRate, ReplyRate, RatesAreBounded
  <1> QED
    BY <1>1, <1>2, <1>3, PTL DEF HistorySpec

\* A bucket in use has a time of its own, and the time of its last request.
UsedInPast ==
    /\ clock \in 1..(IntLimit - 1)
    /\ \A i \in Slots : buckets[i].used => buckets[i].lastTime \in 1..clock

\* Buckets in use have been used, and not in the future.
LEMMA UsedInPastNext ==
    ASSUME ForwardOnly, ChainInv, ClocksOK, UsedInPast, Next
    PROVE  UsedInPast'
  <1>1. clock' \in 1..(IntLimit - 1) /\ clock <= clock' /\ clock \in 1..(IntLimit - 1)
    BY ClockInRange, IntAssumption DEF UsedInPast
  <1>2. ASSUME NEW i \in Slots, buckets'[i].used
        PROVE  buckets'[i].lastTime > 0
    <2>1. ASSUME NEW k \in Slots, i # k, \A j \in Slots \ {k} : SameMeter(buckets'[j], buckets[j])
          PROVE  buckets'[i].lastTime > 0
      <3>1. buckets[i].used /\ buckets'[i].lastTime = buckets[i].lastTime
        BY <1>2, <2>1 DEF SameMeter
      <3> QED
        BY <1>1, <3>1 DEF UsedInPast
    <2>2. CASE buckets' = buckets
      BY <1>1, <1>2, <2>2 DEF UsedInPast
    <2>3. ASSUME NEW a \in Address, NEW k \in Slots, PoursInto(a, k)
          PROVE  buckets'[i].lastTime > 0
      <3>1. CASE i = k
        <4>1. buckets[i].lastTime \in 1..clock
          BY <2>3, <3>1 DEF PoursInto, Holds, UsedInPast
        <4>2. buckets'[i].lastTime \in buckets[i].lastTime..clock
          BY <2>3, <3>1, PouredWorth
        <4> QED
          BY <1>1, <4>1, <4>2
      <3> QED
        BY <2>1, <2>3, <3>1, Zenon DEF PoursInto
    <2>4. ASSUME NEW a \in Address, NEW k \in Slots, Gets(a, k)
          PROVE  buckets'[i].lastTime > 0
      <3>1. CASE i = k
        <4>1. buckets'[i].lastTime = Sys_Milliseconds
          BY <2>4, <3>1, Zenon DEF Gets
        <4>2. Sys_Milliseconds = clock
          BY <1>1, ToIntSame, IntAssumption DEF Sys_Milliseconds, IntRange
        <4> QED
          BY <1>1, <4>1, <4>2
      <3> QED
        BY <2>1, <2>4, <3>1, Zenon DEF Gets
    <2>5. ASSUME NEW a \in Address, Packet(a)
          PROVE  buckets'[i].lastTime > 0
      BY <2>2, <2>3, <2>4, <2>5, AddressStep, Zenon DEF Packet, NoRoom
    <2> QED
      BY <2>2, <2>5, StepsArePackets DEF ClockStep
  <1>3. ClocksOK'
    BY ClocksNext
  <1> QED
    BY <1>1, <1>2, <1>3, IntAssumption DEF UsedInPast, ClocksOK

\* An address without a bucket is turned away only when every bucket of the
\* pool has had a request within the time it takes to drain: from the second
\* millisecond on, as a bucket last used at 0 is taken for one never used.
THEOREM RefusalsAreDue ==
    ASSUME ForwardOnly, StartClock > 0
    PROVE  Spec => RefusedOnlyByLiveBuckets
  <1> DEFINE Inv == ChainInv /\ ClocksOK /\ UsedInPast
             Due == \A a \in Address :
                        /\ outcome'.adr = a /\ outcome'.verdict = "addressLimit"
                        /\ \A i \in Slots : buckets[i].adr # a
                        => \A i \in Slots :
                              Interval(Sys_Milliseconds, buckets[i].lastTime)
                                    \in 0..(Burst * Period)
  <1>1. Init => Inv
    <2> SUFFICES ASSUME Init PROVE ClocksOK /\ UsedInPast
      BY ChainInit
    <2>1. clock \in 1..(IntLimit - 1) /\ clock \in Nat
      BY ClockAssumption, IntAssumption DEF Init, ForwardOnly
    <2>2. \A i \in Slots : ~buckets[i].used
      BY DEF Init, FreeBucket
    <2>3. outboundLeakyBucket.lastTime = 0
      BY DEF Init, FreeBucket
    <2> QED
      BY <2>1, <2>2, <2>3, IntAssumption DEF ClocksOK, UsedInPast
  <1>2. Inv /\ [Next]_vars => Inv'
    <2>1. CASE UNCHANGED vars
      BY <2>1, ChainNext DEF vars, ClocksOK, UsedInPast
    <2>2. CASE Next
      BY <2>2, ChainNext, ClocksNext, UsedInPastNext
    <2> QED
      BY <2>1, <2>2
  <1>3. Inv /\ [Next]_vars => [Due]_vars
    <2> SUFFICES ASSUME Inv, Next, NEW a \in Address,
                        outcome'.adr = a, outcome'.verdict = "addressLimit",
                        \A i \in Slots : buckets[i].adr # a, NEW i \in Slots
                 PROVE  Interval(Sys_Milliseconds, buckets[i].lastTime) \in 0..(Burst * Period)
      OBVIOUS
    <2>1. /\ clock \in 1..(IntLimit - 1) /\ clock \in IntRange
          /\ buckets[i].used => buckets[i].lastTime \in 1..clock
      BY IntAssumption DEF UsedInPast, IntRange
    <2>2. Sys_Milliseconds = clock
      BY <2>1, ToIntSame DEF Sys_Milliseconds
    <2>3. PICK e \in Address : Packet(e)
      BY StepsArePackets, PoolAssumption DEF ClockStep, Says
    <2>4. e = a
      BY <2>3 DEF Packet
    <2>5. Packet(a) /\ AddressLimited(a) /\ \A j \in Slots : ~Holds(buckets, j, a)
      BY <2>3, <2>4 DEF Packet, Holds
    <2>6. NoRoom(a)
      BY <2>5, AddressStep, Zenon DEF Packet, PoursInto, Gets
    <2>7. buckets[i].used /\ ~Reclaimable(i)
      BY <2>6 DEF NoRoom, Allocatable
    <2>8. ~(Interval(clock, buckets[i].lastTime) > Burst * Period)
      BY <2>1, <2>2, <2>7 DEF Reclaimable, Expired
    <2>9. Interval(clock, buckets[i].lastTime) = clock - buckets[i].lastTime
      BY <2>1, <2>7, ToIntSame, IntAssumption DEF Interval, IntRange
    <2>10. Burst * Period \in Nat
      BY LimitAssumption
    <2> QED
      BY <2>1, <2>2, <2>7, <2>8, <2>9, <2>10
  <1> QED
    BY <1>1, <1>2, <1>3, PTL DEF Spec, RefusedOnlyByLiveBuckets
==============================================================================
