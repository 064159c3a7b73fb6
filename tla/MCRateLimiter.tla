---------------------------- MODULE MCRateLimiter ----------------------------
(* A small instance of RateLimiter.  All addresses but adrD share chain 0.   *)
EXTENDS RateLimiter, TLC

CONSTANTS adrA, adrB, adrC, adrD

MCAddress == {adrA, adrB, adrC, adrD}
MCAddress2 == {adrA, adrD}
MCHashOf == [x \in Address |-> IF x = adrD THEN 1 ELSE 0]
Colliding == Permutations({adrA, adrB, adrC})

Forward == {1}
WithSteps == {1, -2}

\* The pool evolves on its own: no action that changes it reads the other
\* variables.  lasttime is there for OneGuessPerSecond.
PoolView == <<clock, buckets, bucketHashes, lasttime>>
==============================================================================
