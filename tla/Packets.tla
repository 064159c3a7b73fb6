------------------------------ MODULE Packets ------------------------------
(***************************************************************************)
(* How packets come in: Sys_GetPacket reads one packet from two sockets,   *)
(* looks at it with SV_NocPacket and hands it to the engine, which comes   *)
(* back to SV_ConnectionlessPacket; and the two packets by which the       *)
(* master tells the newest version of the client and a text for players.   *)
(*                                                                         *)
(* The engine asks for packets until Sys_GetPacket has none, and again in  *)
(* the next frame.  The other connectionless packets are in RateLimiter,   *)
(* Connect and Challenges.                                                 *)
(***************************************************************************)
EXTENDS Integers, Sequences

CONSTANTS
    OpenSockets,        \* those of the sockets 1 and 2 that are open
    Packet,             \* packets and errors that come in
    MaxQueued           \* bound on the packets waiting at a socket

\* Too large, or in place of a packet an error of recvfrom; the answer with the
\* header -2 that has a version; with the header -1 "chandelier", which has a
\* version and a text, "" if it is none, and another command.
Kinds == {"oversize", "error", "clientversionresponse", "chandelier", "getinfo"}

Tells(p) == p.kind \in {"clientversionresponse", "chandelier"}

ASSUME PacketsAssumption ==
    /\ OpenSockets \subseteq {1, 2}
    /\ \A p \in Packet : p.from \in {"master", "other"} /\ p.kind \in Kinds
    /\ MaxQueued \in Nat

VARIABLES
    x_master,           \* who is taken for the master: "master", or "nobody"
    sockets,            \* packets that wait at each socket
    received,           \* the packet the engine has been given, if any
    polling,            \* does the engine ask for more in this frame?
    clientversion,
    x_print_connect_message,
    masterSaid          \* history: packets of the master that were received

packetvars == <<x_master, sockets, received, polling, clientversion, x_print_connect_message,
                masterSaid>>

NoPacket == [kind |-> "nothing"]

------------------------------------------------------------------------------
\* The name of the master is looked up once, and that can fail.
SV_Init(resolved) ==
    /\ x_master = "unset"
    /\ x_master' = IF resolved THEN "master" ELSE "nobody"
    /\ UNCHANGED <<sockets, received, polling, clientversion, x_print_connect_message, masterSaid>>

Arrives(k, p) ==
    /\ Len(sockets[k]) < MaxQueued
    /\ sockets' = [sockets EXCEPT ![k] = Append(@, p)]
    /\ UNCHANGED <<x_master, received, polling, clientversion, x_print_connect_message, masterSaid>>

\* Packets with another header are left to the engine.
SV_NocPacket(p) ==
    IF p.kind = "clientversionresponse" /\ p.from = x_master
    THEN clientversion' = p.version
    ELSE UNCHANGED clientversion

Good(p) == p.kind \notin {"oversize", "error"}

\* Takes one packet or error from the first socket; if that was no good, one
\* from the second.
Sys_GetPacket ==
    LET has(k) == k \in OpenSockets /\ sockets[k] # <<>>
        first == has(1) /\ Good(Head(sockets[1]))
        second == ~first /\ has(2) /\ Good(Head(sockets[2]))
        p == IF first THEN Head(sockets[1]) ELSE Head(sockets[2])
    IN  /\ x_master # "unset" /\ polling /\ received.kind = "nothing"
        /\ sockets' = [k \in {1, 2} |-> IF has(k) /\ (k = 1 \/ ~first)
                                        THEN Tail(sockets[k]) ELSE sockets[k]]
        /\ IF first \/ second
           THEN /\ SV_NocPacket(p)
                /\ received' = p
                /\ polling' = TRUE
                /\ masterSaid' = masterSaid \cup {q \in {p} : q.from = "master" /\ Tells(q)}
           ELSE polling' = FALSE /\ UNCHANGED <<clientversion, received, masterSaid>>
        /\ UNCHANGED <<x_master, x_print_connect_message>>

\* An empty text leaves the old one.
SVC_Chandelier(p) ==
    IF p.from = x_master
    THEN /\ clientversion' = p.version
         /\ x_print_connect_message' = IF p.text = "" THEN x_print_connect_message ELSE p.text
    ELSE UNCHANGED <<clientversion, x_print_connect_message>>

SV_ConnectionlessPacket ==
    /\ received.kind # "nothing"
    /\ IF received.kind = "chandelier" THEN SVC_Chandelier(received)
       ELSE UNCHANGED <<clientversion, x_print_connect_message>>
    /\ received' = NoPacket
    /\ UNCHANGED <<x_master, sockets, polling, masterSaid>>

NextFrame ==
    /\ ~polling
    /\ polling' = TRUE
    /\ UNCHANGED <<x_master, sockets, received, clientversion, x_print_connect_message, masterSaid>>

\* A script asks whether a client has the newest version.
PlayerCmd_IsUsingClient(clientbuild) == clientbuild = clientversion

------------------------------------------------------------------------------
PacketsInit ==
    /\ x_master = "unset"
    /\ sockets = [k \in {1, 2} |-> <<>>]
    /\ received = NoPacket
    /\ polling = TRUE
    /\ clientversion = 0
    /\ x_print_connect_message = ""
    /\ masterSaid = {}

PacketsNext ==
    \/ \E resolved \in BOOLEAN : SV_Init(resolved)
    \/ \E k \in OpenSockets, p \in Packet : Arrives(k, p)
    \/ Sys_GetPacket
    \/ SV_ConnectionlessPacket
    \/ NextFrame

PacketsSpec == PacketsInit /\ [][PacketsNext]_packetvars

------------------------------------------------------------------------------
\* The version and the text are the master's, and none if it is not known
\* (sv_main.c:167, :415); what is no good is never handed on (unix_net.c:83).
PacketsTypeOK ==
    /\ x_master \in {"unset", "master", "nobody"}
    /\ \A k \in {1, 2} : sockets[k] \in Seq(Packet) /\ Len(sockets[k]) <= MaxQueued
    /\ received # NoPacket => received \in Packet /\ Good(received)
    /\ polling \in BOOLEAN
    /\ clientversion \in {0} \cup {p.version : p \in masterSaid}
    /\ x_print_connect_message \in
        {""} \cup {p.text : p \in {q \in masterSaid : q.kind = "chandelier"}}
    /\ x_master # "master" => PlayerCmd_IsUsingClient(0)
============================================================================
