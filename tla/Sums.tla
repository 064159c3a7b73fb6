-------------------------------- MODULE Sums --------------------------------
(* How long a string is that is put together of parts of known lengths. *)
EXTENDS Integers, Sequences

\* The sum of a sequence of numbers.
Total(w) ==
    LET sum[k \in 0..Len(w)] == IF k = 0 THEN 0 ELSE sum[k - 1] + w[k]
    IN  sum[Len(w)]
=============================================================================
