--------------------------- MODULE ClientNumbers ---------------------------
(* The numbers of the client slots: indices of svs.clients and of x_clients. *)
EXTENDS Integers

CONSTANT sv_maxclients

ASSUME ClientNumbersAssumption == sv_maxclients \in Nat \ {0}

ClientNum == 0..(sv_maxclients - 1)
============================================================================
