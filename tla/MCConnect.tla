----------------------------- MODULE MCConnect -----------------------------
(* Small instances of Connect.  Endpoints one and moved are the same client  *)
(* before and after its router gave it another UDP port.                     *)
EXTENDS Connect

one == [ip |-> 1, port |-> 1, qport |-> 1]
moved == [ip |-> 1, port |-> 2, qport |-> 1]
other == [ip |-> 2, port |-> 1, qport |-> 2]

TwoClients == {one, other}
OneClient == {one, moved}
MCPlayer == {"A", "B"}
MCMUIDOf == [e \in Endpoint |-> IF e.ip = 1 THEN "A" ELSE "B"]
MCChallenge == {0, 1}
MCChallenge1 == {0}
MCBanned == {"B"}
NoneBanned == {}

\* The outcome of the last connect is read only in the step that sets it.
StateView == <<challengeVars, clients>>
==============================================================================
