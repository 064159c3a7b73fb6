--------------------------- MODULE ClientMessages ---------------------------
(***************************************************************************)
(* The messages of one client: custom_SV_ExecuteClientMessage and          *)
(* SV_ClientCommand of sv_client.c, between a client that repeats its      *)
(* commands until the server confirms them and a server that changes and   *)
(* restarts maps.  Packets get lost either way; the netchan hands over     *)
(* none out of order and none twice.                                       *)
(*                                                                         *)
(* Message numbers only matter against gamestateMessageNum, the number of  *)
(* the last gamestate: a rank says whether a message is older than that    *)
(* gamestate (-1), is it (0), or is later (1).                             *)
(***************************************************************************)
EXTENDS Integers, SequencesExt

CONSTANTS
    KindOf,         \* the commands the client is going to give, by number
    MaxMap,         \* bound on changes of the map
    MaxRestart,     \* bound on restarts of a map, below the 16 of the nibble
    MaxInFlight,    \* bound on the packets under way in each direction
    sv_pure

Kinds == {"say", "score", "userinfo", "follownext", "disconnect"}

ASSUME MessageAssumption ==
    /\ KindOf \in Seq(Kinds)
    /\ MaxMap \in Nat /\ MaxRestart \in 0..15 /\ MaxInFlight \in Nat \ {0}
    /\ sv_pure \in BOOLEAN

VARIABLES
    serverId,   \* sv_serverId: the map, and how often it was restarted
    cl,         \* the client_t
    player,     \* the client's own side
    toServer,   \* packets under way
    toClient,
    ran         \* the commands handed to a ucmd or to the game, in order

vars == <<serverId, cl, player, toServer, toClient, ran>>

CS_ZOMBIE == 1
CS_CONNECTED == 2
CS_PRIMED == 3
CS_ACTIVE == 4

ServerIds == [map : 0..MaxMap, restart : 0..MaxRestart]
NoServer == [map |-> -1, restart |-> 0]
Commands == DOMAIN KindOf

------------------------------------------------------------------------------
(* What the server sends *)

\* Sends msg after packets; the oldest of too many gets lost.
Put(packets, msg) ==
    Append(IF Len(packets) < MaxInFlight THEN packets ELSE Tail(packets), msg)

Older(packets) == [k \in DOMAIN packets |-> [packets[k] EXCEPT !.rank = -1]]

\* SV_SendClientGameState, of the engine, for a client in record c: every
\* message before it is now older than the gamestate.
SendGameState(c) ==
    /\ cl' = [c EXCEPT !.state = CS_PRIMED, !.pureAuthentic = 0, !.ackRank = -1]
    /\ toClient' = Put(Older(toClient),
            [type |-> "gamestate", rank |-> 0, serverId |-> serverId,
             last |-> c.lastClientCommand])
    /\ toServer' = Older(Tail(toServer))
    /\ player' = [player EXCEPT !.rank = -1]

\* A client in the game hears of a restart with the snapshots; one that is
\* loading does not.
Snapshot(c) ==
    [type |-> IF c.state = CS_ACTIVE THEN "snapshot" ELSE "message",
     rank |-> 1, serverId |-> serverId, last |-> c.lastClientCommand]

------------------------------------------------------------------------------
(* SV_ClientCommand *)

Exempt(n) == KindOf[n] = "score"     \* and team, mr
Ucmd(n) == KindOf[n] \in {"userinfo", "disconnect"}
Skipped(n) == KindOf[n] = "follownext"

\* The flood test reads a field 4 * 68360 bytes into client_t where the time of
\* the next command is kept 68360 bytes into it: it can come out either way.
MayRefuse(c, n) == c.state >= CS_ACTIVE /\ ~Exempt(n)

\* lastClientCommand >= seq is an old command.
New(c, n) == n > c.lastClientCommand

\* Mutant: the flood test comes before the ucmds.
RunsIfNotRefused(n, refused) == ~refused /\ ~Skipped(n)

\* Whether command n reaches a ucmd or the game.
Runs(n, refused) == Ucmd(n) \/ (~refused /\ ~Skipped(n))

\* Mutant: the next command counts as one too many.
LostFromNext(c, msg) == msg.from <= msg.to /\ msg.from > c.lastClientCommand

\* EXE_LOSTRELIABLECOMMANDS: the first command is not the next one.
Lost(c, msg) == msg.from <= msg.to /\ msg.from > c.lastClientCommand + 1

\* The commands from..to of a message, in order, up to a disconnect.
Taken(c, from, to) ==
    {n \in from..to : /\ New(c, n)
                      /\ \A k \in from..(n - 1) : New(c, k) => KindOf[k] # "disconnect"}

InOrder(S) ==
    CHOOSE s \in [1..Cardinality(S) -> S] :
        ToSet(s) = S /\ \A a, b \in DOMAIN s : a < b => s[a] < s[b]

RanBy(taken, refused) == InOrder({n \in taken : Runs(n, n \in refused)})

AfterCommands(c, taken) ==
    IF taken = {} THEN c
    ELSE [c EXCEPT !.lastClientCommand = Max(taken),
                   !.state = IF \E n \in taken : KindOf[n] = "disconnect"
                             THEN CS_ZOMBIE ELSE @]

------------------------------------------------------------------------------
(* custom_SV_ExecuteClientMessage *)

DropLost(c) ==
    /\ cl' = [c EXCEPT !.state = CS_ZOMBIE, !.lost = TRUE]
    /\ toServer' = Tail(toServer)
    /\ UNCHANGED <<player, toClient, ran>>

\* Mutant: the client is left as it was for the last snapshot.
AfterImpureLeftActive(c) == [c EXCEPT !.state = CS_ACTIVE]

\* SV_DropClient, a snapshot to the client as if it were in the game, and
\* CS_ZOMBIE again.
AfterImpure(c) == [c EXCEPT !.state = CS_ZOMBIE]

Impure(c) == sv_pure /\ c.pureAuthentic = 2

\* SV_UserMove, of the engine: a primed client enters the world.
AfterMove(c, msg) ==
    IF msg.move /\ c.state = CS_PRIMED THEN [c EXCEPT !.state = CS_ACTIVE] ELSE c

RunMessage(c, msg) ==
    LET taken == Taken(c, msg.from, msg.to)
    IN  \E refused \in SUBSET {n \in taken : MayRefuse(c, n)} :
            LET done == AfterCommands(c, taken)
            IN  /\ ran' = ran \o RanBy(taken, refused)
                /\ toServer' = Tail(toServer)
                /\ IF done.state = CS_ZOMBIE
                   THEN cl' = done /\ UNCHANGED toClient
                   ELSE IF Impure(done)
                   THEN /\ cl' = AfterMove(AfterImpure(done), msg)
                        /\ toClient' = Put(toClient,
                                Snapshot([done EXCEPT !.state = CS_ACTIVE]))
                   ELSE cl' = AfterMove(done, msg) /\ UNCHANGED toClient
                /\ UNCHANGED player

Ignore(c) ==
    /\ cl' = c
    /\ toServer' = Tail(toServer)
    /\ UNCHANGED <<player, toClient>>

\* Mutant: as the engine's own handler, which the hook replaces.
ResendsNeverOnSameMap(c) == FALSE

\* "DL STUCK ISSUE OCCURRED, UNSTUCK": loading, and the map was restarted.
ResendsOnSameMap(c) == c.ackRank = 1 /\ c.state = CS_PRIMED

ExecuteClientMessage ==
    /\ toServer # <<>> /\ cl.state # CS_ZOMBIE
    /\ LET msg == Head(toServer)
           c == [cl EXCEPT !.ackRank = msg.rank]
       IN  IF msg.serverId = serverId \/ c.downloading
           THEN IF Lost(c, msg) THEN DropLost(c) ELSE RunMessage(c, msg)
           ELSE /\ IF msg.serverId.map = serverId.map
                   THEN IF ResendsOnSameMap(c) THEN SendGameState(c) ELSE Ignore(c)
                   ELSE IF c.ackRank = 1 THEN SendGameState(c) ELSE Ignore(c)
                /\ UNCHANGED ran
    /\ UNCHANGED serverId

------------------------------------------------------------------------------
(* The engine and the client *)

SendSnapshot ==
    /\ cl.state # CS_ZOMBIE
    /\ Len(toClient) < MaxInFlight
    /\ toClient' = Append(toClient, Snapshot(cl))
    /\ UNCHANGED <<serverId, cl, player, toServer, ran>>

\* SV_SpawnServer puts every client back to CS_CONNECTED.
ChangeMap ==
    /\ serverId.map < MaxMap
    /\ serverId' = [map |-> serverId.map + 1, restart |-> 0]
    /\ cl' = IF cl.state = CS_ZOMBIE THEN cl ELSE [cl EXCEPT !.state = CS_CONNECTED]
    /\ UNCHANGED <<player, toServer, toClient, ran>>

RestartMap ==
    /\ serverId.restart < MaxRestart
    /\ serverId' = [serverId EXCEPT !.restart = @ + 1]
    /\ UNCHANGED <<cl, player, toServer, toClient, ran>>

\* cp: the client turns out to have other pk3 files than the server.
VerifyPaks ==
    /\ sv_pure /\ cl.state \in {CS_PRIMED, CS_ACTIVE} /\ cl.pureAuthentic = 0
    /\ player.loaded /\ player.serverId = serverId
    /\ \E v \in {1, 2} : cl' = [cl EXCEPT !.pureAuthentic = v]
    /\ UNCHANGED <<serverId, player, toServer, toClient, ran>>

\* A download keeps the client in CS_CONNECTED; once it is over the client
\* gets the gamestate.
StartDownload ==
    /\ cl.state = CS_PRIMED /\ player.loaded /\ ~cl.downloading /\ ~cl.downloaded
    /\ cl' = [cl EXCEPT !.state = CS_CONNECTED, !.downloading = TRUE]
    /\ player' = [player EXCEPT !.loaded = FALSE]
    /\ UNCHANGED <<serverId, toServer, toClient, ran>>

EndDownload ==
    /\ cl.downloading /\ cl.state # CS_ZOMBIE /\ toServer # <<>>
    /\ SendGameState([cl EXCEPT !.downloading = FALSE, !.downloaded = TRUE])
    /\ UNCHANGED <<serverId, ran>>

IssueCommand ==
    /\ player.issued < Len(KindOf)
    /\ player' = [player EXCEPT !.issued = @ + 1]
    /\ UNCHANGED <<serverId, cl, toServer, toClient, ran>>

\* Every packet has all commands that are not confirmed yet, and a move once
\* there is a gamestate to move in.
SendPacket ==
    /\ Len(toServer) < MaxInFlight
    /\ toServer' = Append(toServer,
            [serverId |-> player.serverId, rank |-> player.rank,
             from |-> player.confirmed + 1, to |-> player.issued,
             move |-> player.loaded])
    /\ UNCHANGED <<serverId, cl, player, toClient, ran>>

Receive ==
    /\ toClient # <<>>
    /\ toClient' = Tail(toClient)
    /\ LET msg == Head(toClient)
       IN  player' = [player EXCEPT
                !.rank = msg.rank,
                !.confirmed = msg.last,
                !.loaded = @ \/ msg.type = "gamestate",
                !.serverId = IF msg.type = "message" THEN @ ELSE msg.serverId]
    /\ UNCHANGED <<serverId, cl, toServer, ran>>

LoseToServer ==
    /\ toServer # <<>>
    /\ toServer' = Tail(toServer)
    /\ UNCHANGED <<serverId, cl, player, toClient, ran>>

LoseToClient ==
    /\ toClient # <<>>
    /\ toClient' = Tail(toClient)
    /\ UNCHANGED <<serverId, cl, player, toServer, ran>>

\* After SV_DirectConnect: gamestateMessageNum is -1, before every message.
Init ==
    /\ serverId = [map |-> 0, restart |-> 0]
    /\ cl = [state |-> CS_CONNECTED, ackRank |-> 1, lastClientCommand |-> 0,
             pureAuthentic |-> 0, downloading |-> FALSE, downloaded |-> FALSE,
             lost |-> FALSE]
    /\ player = [serverId |-> NoServer, rank |-> 1, loaded |-> FALSE,
               confirmed |-> 0, issued |-> 0]
    /\ toServer = <<>> /\ toClient = <<>>
    /\ ran = <<>>

Next ==
    \/ ExecuteClientMessage
    \/ SendSnapshot
    \/ ChangeMap \/ RestartMap
    \/ VerifyPaks
    \/ StartDownload \/ EndDownload
    \/ IssueCommand \/ SendPacket
    \/ Receive
    \/ LoseToServer \/ LoseToClient

Spec == Init /\ [][Next]_vars

\* Both sides go on sending, downloads end, and what is sent again and again
\* arrives some time: a packet that knows the running map, one that does not,
\* a gamestate, and anything else.
Arrives(current) ==
    /\ toServer # <<>>
    /\ Head(toServer).rank = 1 /\ (Head(toServer).serverId = serverId) = current
    /\ ExecuteClientMessage

ReceiveType(type) == toClient # <<>> /\ Head(toClient).type = type /\ Receive

FairSpec ==
    /\ Spec
    /\ WF_vars(SendPacket) /\ WF_vars(SendSnapshot)
    /\ WF_vars(ExecuteClientMessage) /\ SF_vars(EndDownload)
    /\ \A current \in BOOLEAN : SF_vars(Arrives(current))
    /\ \A type \in {"gamestate", "message", "snapshot"} : SF_vars(ReceiveType(type))

------------------------------------------------------------------------------
(* Properties *)

\* A client that repeats its commands until it sees them confirmed is never
\* dropped with EXE_LOSTRELIABLECOMMANDS, whatever packets get lost, and the
\* number the server has reached lies between what the client has seen confirmed
\* and what it has given.
NeverLost ==
    /\ ~cl.lost
    /\ player.confirmed <= cl.lastClientCommand
    /\ cl.lastClientCommand <= player.issued

\* However often a command is repeated it is run once, and commands run in the
\* order they were given; and the flood test, which can refuse any command,
\* swallows none of those that it exempts and none of the ucmds, though the client
\* will never repeat a command that has been counted (sv_client.c:1029).
RunsOnceInOrder ==
    /\ \A a, b \in DOMAIN ran : a < b => ran[a] < ran[b]
    /\ \A n \in 1..cl.lastClientCommand : Exempt(n) \/ Ucmd(n) => n \in ToSet(ran)

\* A client with impure files that the running map still applies to is out in
\* the end, and stays out, though its state is CS_ACTIVE for a moment.
ImpureGoes ==
    cl.pureAuthentic = 2 ~> cl.state = CS_ZOMBIE \/ cl.pureAuthentic # 2

\* A client that does not know the running map gets into the game or is out,
\* even if maps are restarted while it loads or downloads and gamestates get lost.
EntersGame ==
    player.serverId # serverId /\ ~cl.downloading
        ~> cl.state \in {CS_ACTIVE, CS_ZOMBIE} \/ cl.downloading
=============================================================================
