-------------------------- MODULE RateLimiterHistory --------------------------
(***************************************************************************)
(* RateLimiter with a history of what it let through, to say what the      *)
(* limits amount to over any stretch of time.                              *)
(***************************************************************************)
EXTENDS RateLimiter

VARIABLES
    admitted,  \* for each address, when a packet of it passed its own limit
    replies    \* when a reply went out, to any address

historyVars == <<vars, admitted, replies>>

\* Verdicts on packets that the address's own bucket let pass.
Admits == Verdicts \ {"none", "addressLimit"}

Record ==
    /\ admitted' = [a \in Address |->
            IF outcome'.adr = a /\ outcome'.verdict \in Admits
            THEN Append(admitted[a], clock) ELSE admitted[a]]
    /\ replies' = IF outcome'.verdict \in {"reply", "badChallenge"}
                  THEN Append(replies, clock) ELSE replies

HistoryInit ==
    /\ Init
    /\ admitted = [a \in Address |-> <<>>]
    /\ replies = <<>>

HistorySpec == HistoryInit /\ [][Next /\ Record]_historyVars

\* Whatever the arrival times, no more than burst requests, one for each
\* period elapsed, and one for a period begun, lie between two of them.
Bounded(times, burst, period) ==
    \A i, j \in DOMAIN times : i <= j =>
        j - i + 1 <= burst + ((times[j] - times[i]) \div period) + 1

\* (10, 1000) lets an address send 10 packets, and then one per second, in
\* every window of time, however its bucket is recycled in between; and (10, 100)
\* bounds what the server sends out in answer to unauthenticated packets of all
\* addresses together (sv_main.c:698).
RatesAreBounded ==
    /\ \A a \in Address : Bounded(admitted[a], Burst, Period)
    /\ Bounded(replies, OutBurst, OutPeriod)
==============================================================================
