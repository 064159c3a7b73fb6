------------------------------ MODULE Players ------------------------------
(***************************************************************************)
(* What administrators do to players, and the names players have: the      *)
(* array x_clients, which mute and mutename write and SV_DirectConnect     *)
(* clears; the names SV_UserinfoChanged lets through; the search for       *)
(* players by name that kick is built on; and what is said in the game.    *)
(*                                                                         *)
(* Which slot a connect gets is the subject of ClientSlots; here it is any *)
(* that is free, or that of the client who connects again.  Colours in     *)
(* names and words are left out.                                           *)
(***************************************************************************)
EXTENDS ClientNumbers, FiniteSets

CONSTANTS
    Name,           \* names clients ask for
    Printable,      \* what is left of each: 31 characters, the printable ones
    Word,           \* the words searched for: each is the set of names it is in
    x_deadchat,     \* may the dead talk?
    MaxConnects     \* bound on the connects

ASSUME PlayersAssumption ==
    /\ Name # {}
    /\ Printable \in [Name -> Name]
    /\ \A n \in Name : Printable[Printable[n]] = Printable[n]
    /\ Word \subseteq SUBSET Name
    /\ x_deadchat \in BOOLEAN
    /\ MaxConnects \in Nat

VARIABLES
    slots,          \* svs.clients: the state, the connect and the name of each
    x_clients,      \* what administrators have set for the client of each slot
    search_players, \* the slots the last search has left in this array
    connects,       \* history: the number of connects so far
    muteOrders,     \* history: has the client of that connect been muted?
    last            \* history: what the last step was

pvars == <<slots, x_clients, search_players, connects, muteOrders, last>>

Session == 0..MaxConnects
State == {"CS_FREE", "CS_ZOMBIE", "CS_CONNECTED"}
Slot == [state : State, bot : BOOLEAN, session : Session, name : Name]

Event(kind, session, what) == [kind |-> kind, session |-> session, what |-> what]
Nothing == Event("nothing", 0, {})
Silent == last' = Nothing

Unset == [muted |-> FALSE, namemuted |-> FALSE]

\* Nothing reads the name of a free slot.
Empty == [state |-> "CS_FREE", bot |-> FALSE, session |-> 0,
          name |-> CHOOSE n \in Name : TRUE]

InUse(i) == slots[i].state = "CS_CONNECTED"

------------------------------------------------------------------------------
(* Names and connects *)

\* SV_UserinfoChanged for a client c with a new name in its userinfo.
UserinfoChanged(c, namemuted, asked) ==
    IF namemuted THEN c ELSE [c EXCEPT !.name = Printable[asked]]

\* Mutant: x_clients is not cleared.
ClearNothing(i) == x_clients' = x_clients

\* memset of the slot's x_clients in SV_DirectConnect.
ClearSettings(i) == x_clients' = [x_clients EXCEPT ![i] = Unset]

\* The part of SV_DirectConnect that fills a slot.  A name that is not
\* printable is refused before; a bot brings any.
SV_DirectConnect(i, asked, bot, denied) ==
    /\ connects < MaxConnects
    /\ slots[i].state = "CS_FREE" \/ (~bot /\ ~slots[i].bot)
    /\ bot \/ Printable[asked] = asked
    /\ ClearSettings(i)
    /\ connects' = connects + 1
    /\ slots' = [slots EXCEPT ![i] =
            IF denied THEN Empty
            ELSE UserinfoChanged([Empty EXCEPT !.state = "CS_CONNECTED",
                                               !.bot = bot,
                                               !.session = connects + 1],
                                 FALSE, asked)]
    /\ Silent
    /\ UNCHANGED <<search_players, muteOrders>>

\* The command userinfo of a client.
Userinfo(i, asked) ==
    /\ InUse(i) /\ ~slots[i].bot
    /\ slots' = [slots EXCEPT ![i] =
                    UserinfoChanged(@, x_clients[i].namemuted, asked)]
    /\ Silent
    /\ UNCHANGED <<x_clients, search_players, connects, muteOrders>>

\* renamebot of scripts, which sets the name as it is.
PlayerCmd_renamebot(i, asked) ==
    /\ InUse(i) /\ slots[i].bot
    /\ slots' = [slots EXCEPT ![i].name = asked]
    /\ Silent
    /\ UNCHANGED <<x_clients, search_players, connects, muteOrders>>

\* SV_DropClient leaves a zombie, which goes some time later.
SV_DropClient(i) ==
    slots' = IF InUse(i) THEN [slots EXCEPT ![i].state = "CS_ZOMBIE"] ELSE slots

Leave(i) ==
    /\ InUse(i)
    /\ SV_DropClient(i)
    /\ Silent
    /\ UNCHANGED <<x_clients, search_players, connects, muteOrders>>

SV_CheckTimeouts(i) ==
    /\ slots[i].state = "CS_ZOMBIE"
    /\ slots' = [slots EXCEPT ![i] = Empty]
    /\ Silent
    /\ UNCHANGED <<x_clients, search_players, connects, muteOrders>>

PlayerCmd_kickbot(i) ==
    /\ InUse(i)
    /\ slots' = [slots EXCEPT ![i] = Empty]
    /\ Silent
    /\ UNCHANGED <<x_clients, search_players, connects, muteOrders>>

------------------------------------------------------------------------------
(* Commands of the console *)

\* mute toggles, for any slot, whether somebody is in it or not.
SV_Mute(i) ==
    /\ x_clients' = [x_clients EXCEPT ![i].muted = ~@]
    /\ muteOrders' = IF InUse(i)
                     THEN [muteOrders EXCEPT ![slots[i].session] = ~@]
                     ELSE muteOrders
    /\ Silent
    /\ UNCHANGED <<slots, search_players, connects>>

SV_MuteName(i) ==
    /\ x_clients' = [x_clients EXCEPT ![i].namemuted = ~@]
    /\ Silent
    /\ UNCHANGED <<slots, search_players, connects, muteOrders>>

\* The clients a search finds, zombies among them.
Found(word) == {i \in ClientNum : slots[i].state # "CS_FREE" /\ slots[i].name \in word}

\* X_GetPlayersByName clears the array from p on, and p is not initialised.
X_GetPlayersByName(word, p) ==
    search_players' = {i \in search_players : i < p} \cup Found(word)

\* Mutant: the last of several is dropped as well.
KickAny(word, p) ==
    /\ X_GetPlayersByName(word, p)
    /\ IF search_players' = {} THEN slots' = slots
       ELSE SV_DropClient(CHOOSE i \in search_players' : TRUE)
    /\ last' = Event("kick", 0, word)
    /\ UNCHANGED <<x_clients, connects, muteOrders>>

\* kick drops the player found if there is one; the form for several players
\* is behind a test of the number of arguments that is never passed.
SV_Kick_f(word, p) ==
    /\ X_GetPlayersByName(word, p)
    /\ IF Cardinality(search_players') = 1
       THEN SV_DropClient(CHOOSE i \in search_players' : TRUE)
       ELSE slots' = slots
    /\ last' = Event("kick", 0, word)
    /\ UNCHANGED <<x_clients, connects, muteOrders>>

------------------------------------------------------------------------------
(* Chat *)

\* The test of SV_ClientCommand, which names say_team twice.
MuteStops(i, cmd) == cmd = "say_team" /\ x_clients[i].muted

\* say and say_team, through SV_ClientCommand and hG_Say; stopped is the answer
\* of the script's callback.
Say(i, cmd, stopped, dead) ==
    /\ InUse(i)
    /\ last' = IF MuteStops(i, cmd) \/ stopped \/ (dead /\ ~x_deadchat)
               THEN Nothing
               ELSE Event("heard", slots[i].session, {cmd})
    /\ UNCHANGED <<slots, x_clients, search_players, connects, muteOrders>>

PlayersInit ==
    /\ slots = [i \in ClientNum |-> Empty]
    /\ x_clients = [i \in ClientNum |-> Unset]
    /\ search_players = {}
    /\ connects = 0
    /\ muteOrders = [k \in Session |-> FALSE]
    /\ last = Nothing

PlayersNext ==
    \/ \E i \in ClientNum, asked \in Name :
        \/ \E bot, denied \in BOOLEAN : SV_DirectConnect(i, asked, bot, denied)
        \/ Userinfo(i, asked)
        \/ PlayerCmd_renamebot(i, asked)
    \/ \E i \in ClientNum :
        \/ Leave(i) \/ SV_CheckTimeouts(i) \/ PlayerCmd_kickbot(i)
        \/ SV_Mute(i) \/ SV_MuteName(i)
        \/ \E cmd \in {"say", "say_team"}, stopped, dead \in BOOLEAN :
                Say(i, cmd, stopped, dead)
    \/ \E word \in Word, p \in 0..sv_maxclients : SV_Kick_f(word, p)

PlayersSpec == PlayersInit /\ [][PlayersNext]_pvars

------------------------------------------------------------------------------
(* Properties *)

\* Types; and the name of a player is printable, however it came to it.
PlayersTypeOK ==
    /\ slots \in [ClientNum -> Slot]
    /\ x_clients \in [ClientNum -> [muted : BOOLEAN, namemuted : BOOLEAN]]
    /\ search_players \in SUBSET ClientNum
    /\ connects \in Session
    /\ muteOrders \in [Session -> BOOLEAN]
    /\ \A i \in ClientNum :
            InUse(i) /\ ~slots[i].bot => Printable[slots[i].name] = slots[i].name

\* Who is muted is who the administrator has muted, however slots change hands:
\* SV_DirectConnect clears what x_clients kept of the last client
\* (sv_client.c:752), and mute is given the number of a slot (sv_commands.c:822).
MuteIsOwn ==
    \A i \in ClientNum : InUse(i) => x_clients[i].muted = muteOrders[slots[i].session]

\* What a client that has been muted says to its team is not heard
\* (sv_client.c:1068), whoever had the slot before and whatever was typed since.
TeamMuteHolds ==
    [][\A k \in Session :
            last' = Event("heard", k, {"say_team"}) => ~muteOrders[k]]_pvars

\* "can this player chat?" (server.h:432): nothing a muted client says is heard.
MutedIsSilent ==
    [][\A k \in Session, cmd \in {"say", "say_team"} :
            last' = Event("heard", k, {cmd}) => ~muteOrders[k]]_pvars

\* "There were no search_players found" and "Multiple search_players were
\* found" (sv_commands.c:438 and 446): a kick for a word that is in somebody's
\* name drops nobody else, and nobody at all if it is in several, even when
\* the array still holds the finds of an earlier search.
KickHitsMatch ==
    [][\A word \in Word :
            last' = Event("kick", 0, word) /\ Found(word) # {} =>
                \A i \in ClientNum : slots'[i] # slots[i] => Found(word) = {i}]_pvars
============================================================================
