------------------------- MODULE MCRateLimiterHistory -------------------------
(* Two addresses compete for a pool of one bucket.                           *)
EXTENDS RateLimiterHistory

MCAddress == {"a", "b"}
MCHashOf == [x \in MCAddress |-> 0]
Forward == {1, 2}

\* What became of rcon packets adds nothing to admitted or to replies.
HistoryView ==
    <<clock, buckets, bucketHashes, outboundLeakyBucket, admitted, replies>>
==============================================================================
