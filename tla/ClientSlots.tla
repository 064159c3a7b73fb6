----------------------------- MODULE ClientSlots -----------------------------
(***************************************************************************)
(* The client slots as SV_DirectConnect of sv_client.c sees them: who may  *)
(* take which slot.  CS_CONNECTED stands for every state from CS_CONNECTED *)
(* on.  A slot keeps its address and its connect time after the client has *)
(* gone; a slot cleared by memset has the connect time 0, long ago.        *)
(***************************************************************************)
EXTENDS ClientNumbers, FiniteSets, Endpoints

CONSTANTS
    sv_privateClients,  \* the first slots, for those who know the password
    ReconnectLimit      \* sv_reconnectlimit, in ticks

ASSUME SlotAssumption ==
    /\ sv_privateClients \in 0..sv_maxclients
    /\ ReconnectLimit \in Nat

VARIABLE clients

CS_FREE == "free"
CS_ZOMBIE == "zombie"
CS_CONNECTED == "connected"

\* The address of a bot, type NA_BOT, and of a slot never used: all zero.
Bot == [ip |-> 0, port |-> 0, qport |-> 0]

First(S) == CHOOSE i \in S : \A j \in S : i <= j

Cleared(adr, mUID) == [state |-> CS_FREE, adr |-> adr, mUID |-> mUID,
                       connectAge |-> ReconnectLimit]

ClientsInit == clients = [i \in ClientNum |-> Cleared(Bot, NoMUID)]

Live(i) == clients[i].state # CS_FREE

\* The slots, free ones too, that remember a connect of this client.
Records(e) == {i \in ClientNum : SameClient(e, clients[i].adr)}

\* Mutant: off by one.
TooSoonOffByOne(e) ==
    /\ Records(e) # {}
    /\ clients[First(Records(e))].connectAge < ReconnectLimit - 1

\* "reconnect rejected : too soon": only the first such slot is looked at.
TooSoon(e) ==
    /\ Records(e) # {}
    /\ clients[First(Records(e))].connectAge < ReconnectLimit

\* Mutant: a client that is still in a slot gets another one.
HeldZombie(e) == {i \in Records(e) : clients[i].state = CS_ZOMBIE}

\* The slots the client already holds; the first is taken over.
Held(e) == {i \in Records(e) : Live(i)}

\* Free slots for someone who knows the private password or does not.
FreeSlots(knowsPassword) ==
    {i \in ClientNum : /\ ~Live(i)
                       /\ i >= (IF knowsPassword THEN 0 ELSE sv_privateClients)}

\* The slots a connect may get; it gets the first.
SlotsFor(e, knowsPassword) ==
    IF e # Bot /\ Held(e) # {} THEN Held(e) ELSE FreeSlots(knowsPassword)

\* The slot after the script callback has accepted or denied the client.
Taken(adr, mUID, denied) ==
    IF denied THEN Cleared(adr, mUID)
    ELSE [state |-> CS_CONNECTED, adr |-> adr, mUID |-> mUID, connectAge |-> 0]

Take(adr, mUID, knowsPassword, denied) ==
    clients' = IF SlotsFor(adr, knowsPassword) = {} THEN clients
               ELSE [clients EXCEPT ![First(SlotsFor(adr, knowsPassword))] =
                        Taken(adr, mUID, denied)]

\* SV_DropClient and, when the zombie time is over, SV_CheckTimeouts.
Leave(i) ==
    /\ clients[i].state = CS_CONNECTED
    /\ clients' = [clients EXCEPT ![i].state = CS_ZOMBIE]

Release(i) ==
    /\ clients[i].state = CS_ZOMBIE
    /\ clients' = [clients EXCEPT ![i].state = CS_FREE]

ClientsTick ==
    clients' = [i \in ClientNum |->
        [clients[i] EXCEPT !.connectAge =
            IF @ < ReconnectLimit THEN @ + 1 ELSE ReconnectLimit]]
==============================================================================
