---------------------------- MODULE AddressMeters ----------------------------
(***************************************************************************)
(* What the pool of RateLimiter stands for: a map from addresses to leaky  *)
(* buckets, with no slots, no hash chains and no links.  An address may be *)
(* forgotten only when its bucket has expired, one at a time, to make room *)
(* for a new address; a new address may also be refused for want of room.  *)
(***************************************************************************)
EXTENDS LeakyBucket

CONSTANTS Address, Burst, Period

VARIABLES
    clock,   \* what gettimeofday says
    meter,   \* the bucket of each address that has one
    passed   \* the address the last packet came from and whether it passed

meterVars == <<clock, meter, passed>>

NoMeter == [live |-> FALSE, lastTime |-> 0, burst |-> 0]
Nobody == [adr |-> "none", ok |-> TRUE]

Now == ToInt(clock)
Fresh == [live |-> TRUE, lastTime |-> Now, burst |-> 0]
Expendable == {b \in Address : /\ meter[b].live
                               /\ Expired(meter[b], Now, Burst, Period)}

\* A packet of an address that has a bucket.
Known(a) ==
    /\ meter[a].live
    /\ meter' = [meter EXCEPT ![a] = SVC_RateLimit(@, Now, Burst, Period)]
    /\ passed' = [adr |-> a, ok |-> ~Limited(meter[a], Now, Burst, Period)]
    /\ UNCHANGED clock

\* The first packet of an address, which may take the place of another.
New(a) ==
    /\ ~meter[a].live
    /\ \E gone \in {{}} \cup {{b} : b \in Expendable} :
        meter' = [b \in Address |->
                    IF b = a THEN SVC_RateLimit(Fresh, Now, Burst, Period)
                    ELSE IF b \in gone THEN NoMeter ELSE meter[b]]
    /\ passed' = [adr |-> a, ok |-> TRUE]
    /\ UNCHANGED clock

\* No room.
Turned(a) ==
    /\ ~meter[a].live
    /\ passed' = [adr |-> a, ok |-> FALSE]
    /\ UNCHANGED <<clock, meter>>

Time ==
    /\ clock' \in Int
    /\ passed' = Nobody
    /\ UNCHANGED meter

MeterInit ==
    /\ clock \in Nat
    /\ meter = [a \in Address |-> NoMeter]
    /\ passed = Nobody

MeterNext ==
    \/ \E a \in Address : Known(a) \/ New(a) \/ Turned(a)
    \/ Time

MeterSpec == MeterInit /\ [][MeterNext]_meterVars
==============================================================================
