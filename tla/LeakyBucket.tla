----------------------------- MODULE LeakyBucket -----------------------------
(***************************************************************************)
(* The arithmetic of one leaky bucket (leakyBucket_t in src/src/server.h,  *)
(* SVC_RateLimit in src/src/sv_main.c).  A bucket is any record with the   *)
(* fields burst and lastTime; now is the value of Sys_Milliseconds().      *)
(***************************************************************************)
EXTENDS Integers

CONSTANT IntLimit  \* 2^31: an int holds -IntLimit..(IntLimit - 1)

ASSUME IntAssumption == IntLimit \in Nat \ {0}

IntRange == -IntLimit..(IntLimit - 1)

ToInt(x) == ((x + IntLimit) % (2 * IntLimit)) - IntLimit

\* now - lastTime.  Where it overflows, the compiled code subtracts modulo 2^32
\* and tests the sign of the result (the difference has several uses, so gcc
\* does not turn "interval < 0" into a comparison of its operands).
Interval(now, lastTime) == ToInt(now - lastTime)

\* The bucket after leaking what its elapsed time is worth.
Leak(b, now, period) ==
    LET interval == Interval(now, b.lastTime)
        expired == interval \div period
    IN  IF interval < 0 \/ expired > b.burst
        THEN [b EXCEPT !.burst = 0, !.lastTime = now]
        ELSE [b EXCEPT !.burst = @ - expired,
                       !.lastTime = ToInt(now - (interval % period))]

\* Mutant: off by one at the limit.
PourOffByOne(b, now, burst, period) ==
    LET leaked == Leak(b, now, period)
    IN  IF leaked.burst <= burst THEN [leaked EXCEPT !.burst = @ + 1] ELSE leaked

\* SVC_RateLimit answers "limited" when the leaked bucket is still full ...
Limited(b, now, burst, period) == Leak(b, now, period).burst >= burst

\* ... and pours one request in when it is not.
SVC_RateLimit(b, now, burst, period) ==
    LET leaked == Leak(b, now, period)
    IN  IF leaked.burst < burst THEN [leaked EXCEPT !.burst = @ + 1] ELSE leaked

\* A bucket the pool may reclaim.  lastTime 0 is taken for "never used".
Expired(b, now, burst, period) ==
    /\ b.lastTime > 0
    /\ \/ Interval(now, b.lastTime) > burst * period
       \/ Interval(now, b.lastTime) < 0
==============================================================================
