----------------------------- MODULE Endpoints -----------------------------
(***************************************************************************)
(* Where connects come from, and how the server compares the addresses     *)
(* of clients: with NET_CompareAdr and NET_CompareBaseAdr of net_chan.c.   *)
(***************************************************************************)
EXTENDS Naturals

CONSTANTS
    Endpoint,       \* clients: records with an ip, a port and a qport
    Player,         \* the mUIDs players have
    MUIDOf          \* the mUID of the player at each endpoint

ASSUME EndpointAssumption ==
    /\ \A e \in Endpoint : e \in [ip : Nat \ {0}, port : Nat, qport : Nat]
    /\ MUIDOf \in [Endpoint -> Player] /\ "none" \notin Player

NoMUID == "none"

SameAdr(e, f) == e.ip = f.ip /\ e.port = f.port

\* Same IP address, and same qport or same UDP port.
SameClient(e, f) ==
    /\ e.ip = f.ip
    /\ e.qport = f.qport \/ e.port = f.port
============================================================================
