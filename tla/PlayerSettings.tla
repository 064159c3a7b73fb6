--------------------------- MODULE PlayerSettings ---------------------------
(***************************************************************************)
(* What scripts set for players, and where it shows: the ping on the       *)
(* scoreboard and in answers to getstatus, the speed, and perks.  Pings    *)
(* and speed are kept in customPlayerState by the number of the slot and   *)
(* survive its owner; perks are kept in xclients, which SV_DirectConnect   *)
(* clears.                                                                 *)
(*                                                                         *)
(* An argument of setping is a set: a number, or {} for undefined, or more *)
(* than one number for a value of another type.  Gravity and hiding from   *)
(* the scoreboard are left out: nothing sets them.                         *)
(***************************************************************************)
EXTENDS ClientNumbers, SequencesExt, Sums

CONSTANTS
    Pings,          \* numbers scripts give as pings
    PingCalls,      \* the lists of arguments they give to setping
    Measured,       \* the ping the engine has measured, of anybody
    Speeds,         \* numbers scripts give as speeds
    g_speed,        \* the speed the engine gives
    Perk,           \* the perks there are
    sv_privateClients,
    MAX_BOARD,      \* characters the scoreboard may have, 1024
    MAX_STATUS      \* size of the list of players in an answer to getstatus

ASSUME SettingsAssumption ==
    /\ Pings \subseteq Int
    /\ PingCalls \subseteq Seq(SUBSET Pings)
    /\ Speeds \subseteq Int
    /\ Measured \in Nat /\ g_speed \in Nat /\ sv_privateClients \in Nat
    /\ MAX_BOARD \in Nat /\ MAX_STATUS \in Nat \ {0}

VARIABLES
    players,        \* of each slot: "free", "connecting" or "playing"
    settings,       \* overridePing, ping, overrideStatusPing, statusPing, speed
    perks,          \* xclients[].perks
    asked,          \* history: what scripts have asked for
    shown           \* history: what the last step has sent or done

setvars == <<players, settings, perks, asked, shown>>

NoSettings == [overridePing |-> FALSE, ping |-> 0,
               overrideStatusPing |-> FALSE, statusPing |-> 0, speed |-> 0]

\* The pings that may be seen, {} if it is the engine's; the speed; the perks
\* given to the player who has the slot.
NothingAsked == [board |-> {}, status |-> {}, speed |-> 0, perks |-> {}]

Shows(what) == shown' = what
NothingShown == [kind |-> "nothing"]
ShowsNothing == Shows(NothingShown)

------------------------------------------------------------------------------
(* Players come and go *)

PlayerConnects(id) ==
    /\ players' = [players EXCEPT ![id] = "connecting"]
    /\ perks' = [perks EXCEPT ![id] = {}]
    /\ asked' = [asked EXCEPT ![id].perks = {}]
    /\ ShowsNothing
    /\ UNCHANGED settings

EntersOrLeaves(id) ==
    /\ \/ players[id] = "connecting" /\ players' = [players EXCEPT ![id] = "playing"]
       \/ players[id] # "free" /\ players' = [players EXCEPT ![id] = "free"]
    /\ ShowsNothing
    /\ UNCHANGED <<settings, perks, asked>>

------------------------------------------------------------------------------
(* What scripts call *)

\* A perk that there is not is reported on the console.
PlayerCmd_SetPerk(id, perk) ==
    /\ players[id] # "free"
    /\ perks' = [perks EXCEPT ![id] = @ \cup ({perk} \cap Perk)]
    /\ asked' = [asked EXCEPT ![id].perks = @ \cup ({perk} \cap Perk)]
    /\ ShowsNothing
    /\ UNCHANGED <<players, settings>>

PlayerCmd_UnsetPerk(id, perk) ==
    /\ players[id] # "free"
    /\ perks' = [perks EXCEPT ![id] = @ \ {perk}]
    /\ asked' = [asked EXCEPT ![id].perks = @ \ {perk}]
    /\ ShowsNothing
    /\ UNCHANGED <<players, settings>>

\* Returns true or nothing.
PlayerCmd_HasPerk(id, perk) ==
    /\ players[id] # "free"
    /\ Shows([kind |-> "perk", client |-> id, perk |-> perk, has |-> perk \in perks[id]])
    /\ UNCHANGED <<players, settings, perks, asked>>

\* A negative speed is an error.
gsc_player_setspeed(id, speed) ==
    /\ players[id] # "free" /\ speed >= 0
    /\ settings' = [settings EXCEPT ![id].speed = speed]
    /\ asked' = [asked EXCEPT ![id].speed = speed]
    /\ ShowsNothing
    /\ UNCHANGED <<players, perks>>

IsInt(arg) == \E n \in Pings : arg = {n}
TheInt(arg) == CHOOSE n \in Pings : arg = {n}

SetBoardPing(s, arg) == [s EXCEPT !.overridePing = IsInt(arg),
                                  !.ping = IF IsInt(arg) THEN TheInt(arg) ELSE 0]

SetStatusPing(s, arg) == [s EXCEPT !.overrideStatusPing = IsInt(arg),
                                   !.statusPing = IF IsInt(arg) THEN TheInt(arg) ELSE 0]

\* With one argument the second is the first, read as a number: undefined is
\* then an error of the script, which comes after the override is switched on.
AloneForStatus(s, arg) == IF IsInt(arg) THEN SetStatusPing(s, arg)
                          ELSE [s EXCEPT !.overrideStatusPing = TRUE]

WrongType(arg) == arg # {} /\ ~IsInt(arg)

\* An error in the first argument leaves all as it was; one in the second does
\* not take back what the first has done.
gsc_player_setping(id, args) ==
    LET first == SetBoardPing(settings[id], args[1]) IN
    /\ players[id] # "free"
    /\ args # <<>> /\ ~WrongType(args[1])
    /\ settings' = [settings EXCEPT ![id] =
            IF Len(args) = 1 THEN AloneForStatus(first, args[1])
            ELSE IF WrongType(args[2]) THEN first
            ELSE SetStatusPing(first, args[2])]
    /\ asked' = [asked EXCEPT ![id].board = args[1],
            ![id].status = IF Len(args) = 1
                           THEN IF IsInt(args[1]) THEN args[1] ELSE Pings \cup {0}
                           ELSE IF WrongType(args[2]) THEN asked[id].status ELSE args[2]]
    /\ ShowsNothing
    /\ UNCHANGED <<players, perks>>

------------------------------------------------------------------------------
(* Where it shows *)

\* The frame of a player, who may be watching: the engine sets his speed first.
custom_ClientEndFrame(id, watches) ==
    /\ players[id] = "playing"
    /\ Shows([kind |-> "speed", client |-> id, watches |-> watches,
              speed |-> IF ~watches /\ settings[id].speed > 0
                        THEN settings[id].speed ELSE g_speed])
    /\ UNCHANGED <<players, settings, perks, asked>>

SV_GetClientPing(id) ==
    IF settings[id].overridePing THEN settings[id].ping ELSE Measured

\* The characters of %i: a sign, and as many digits as there are powers of ten
\* that are not greater.
Digits(n) ==
    (IF n < 0 THEN 1 ELSE 0) +
    (IF n = 0 THEN 1 ELSE Cardinality({e \in 0..9 : 10^e <= IF n < 0 THEN -n ELSE n}))

\* " %i %i %i %i %i" for each entry, of which the score, the deaths and the icon
\* are one digit each.
BoardEntryLength(e) == 8 + Digits(e.client) + Digits(e.ping)
BoardLength(entries) == Total([k \in DOMAIN entries |-> BoardEntryLength(entries[k])])

\* "%i %i \"%s\"\n", with a score and a name of one character each.
StatusLineLength(e) == 7 + Digits(e.ping)
StatusLength(entries) == Total([k \in DOMAIN entries |-> StatusLineLength(entries[k])])

\* Mutant: the settings of the slot whose number is the place on the board.
EntryByPlace(order, k) ==
    [client |-> order[k],
     ping |-> IF players[order[k]] = "connecting" THEN -1 ELSE SV_GetClientPing(k - 1)]

Entry(order, k) ==
    [client |-> order[k],
     ping |-> IF players[order[k]] = "connecting" THEN -1 ELSE SV_GetClientPing(order[k])]

\* As many entries, from the first, as fit on the board, and in a status answer.
Visible(entries) ==
    SubSeq(entries, 1, Max({n \in 0..Len(entries) :
                                BoardLength(SubSeq(entries, 1, n)) <= MAX_BOARD}))

Listed(entries) ==
    SubSeq(entries, 1, Max({n \in 0..Len(entries) :
                                StatusLength(SubSeq(entries, 1, n)) < MAX_STATUS}))

Connected == {id \in ClientNum : players[id] # "free"}

\* sortedClients is any order of the players who are connected.
custom_DeathmatchScoreboardMessage(order) ==
    LET visible == Visible([k \in DOMAIN order |-> Entry(order, k)])
    IN  /\ Shows([kind |-> "board", count |-> Len(visible), entries |-> visible,
                  order |-> order])
        /\ UNCHANGED <<players, settings, perks, asked>>

\* In the order of the slots.
SVC_StatusAnswer(order) ==
    LET line(id) == [client |-> id,
                     ping |-> IF settings[id].overrideStatusPing THEN settings[id].statusPing
                              ELSE Measured]
        listed == Listed([k \in DOMAIN order |-> line(order[k])])
    IN  /\ \A j, k \in DOMAIN order : j < k => order[j] < order[k]
        /\ Shows([kind |-> "status", entries |-> listed, order |-> order])
        /\ UNCHANGED <<players, settings, perks, asked>>

\* The answer to getinfo: players who are connecting count, and the places for
\* them are those that are not private.
SVC_InfoAnswer ==
    /\ Shows([kind |-> "info", clients |-> Cardinality(Connected),
              sv_maxclients |-> sv_maxclients - sv_privateClients])
    /\ UNCHANGED <<players, settings, perks, asked>>

------------------------------------------------------------------------------
SettingsInit ==
    /\ players = [id \in ClientNum |-> "free"]
    /\ settings = [id \in ClientNum |-> NoSettings]
    /\ perks = [id \in ClientNum |-> {}]
    /\ asked = [id \in ClientNum |-> NothingAsked]
    /\ shown = NothingShown

SettingsNext ==
    \/ \E id \in ClientNum :
        \/ PlayerConnects(id)
        \/ EntersOrLeaves(id)
        \/ \E perk \in Perk \cup {"unknown"} :
            \/ PlayerCmd_SetPerk(id, perk)
            \/ PlayerCmd_UnsetPerk(id, perk)
            \/ PlayerCmd_HasPerk(id, perk)
        \/ \E speed \in Speeds : gsc_player_setspeed(id, speed)
        \/ \E args \in PingCalls : gsc_player_setping(id, args)
        \/ \E watches \in BOOLEAN : custom_ClientEndFrame(id, watches)
    \/ \E order \in SetToSeqs(Connected) :
        \/ custom_DeathmatchScoreboardMessage(order)
        \/ SVC_StatusAnswer(order)
    \/ SVC_InfoAnswer

SettingsSpec == SettingsInit /\ [][SettingsNext]_setvars

------------------------------------------------------------------------------
(* Properties *)

\* What is kept for a slot is what was asked for it last; perks are those the
\* player in the slot was given (sv_client.c:752).
AsAsked(id) ==
    LET s == settings[id]
        a == asked[id]
    IN  /\ IF s.overridePing THEN s.ping \in a.board ELSE a.board = {}
        /\ IF s.overrideStatusPing THEN s.statusPing \in a.status ELSE a.status = {}
        /\ s.speed = a.speed
        /\ players[id] # "free" => perks[id] = a.perks

Setting == [overridePing : BOOLEAN, ping : Pings \cup {0},
            overrideStatusPing : BOOLEAN, statusPing : Pings \cup {0}, speed : Nat]
Request == [board : SUBSET Pings, status : SUBSET (Pings \cup {0}), speed : Nat,
            perks : SUBSET Perk]

SettingsTypeOK ==
    /\ players \in [ClientNum -> {"free", "connecting", "playing"}]
    /\ settings \in [ClientNum -> Setting]
    /\ perks \in [ClientNum -> SUBSET Perk]
    /\ asked \in [ClientNum -> Request]
    /\ \A id \in ClientNum : AsAsked(id)

Expected(pings) == IF pings = {} THEN {Measured} ELSE pings

\* A line for the player of the slot id that shows one of these pings.
LineFor(id, pings) == {[client |-> id, ping |-> p] : p \in Expected(pings)}

BoardLineOf(id) == IF players[id] = "connecting" THEN {[client |-> id, ping |-> -1]}
                   ELSE LineFor(id, asked[id].board)
StatusLineOf(id) == LineFor(id, asked[id].status)

\* Nobody is named twice, and what is named is at the same place of the order.
LinesInOrder(out) ==
    /\ DOMAIN out.entries \subseteq DOMAIN out.order
    /\ \A j, k \in DOMAIN out.entries :
            out.entries[j].client = out.entries[k].client => j = k

BoardAsAsked(out) ==
    LET next == Len(out.entries) + 1 IN
    /\ LinesInOrder(out)
    /\ out.count = Len(out.entries)
    /\ \A k \in DOMAIN out.entries : out.entries[k] \in BoardLineOf(out.order[k])
    /\ BoardLength(out.entries) <= MAX_BOARD
    /\ next \in DOMAIN out.order => \E e \in BoardLineOf(out.order[next]) :
            BoardLength(out.entries) + BoardEntryLength(e) > MAX_BOARD

StatusAsAsked(out) ==
    LET next == Len(out.entries) + 1 IN
    /\ LinesInOrder(out)
    /\ \A k \in DOMAIN out.entries : out.entries[k] \in StatusLineOf(out.order[k])
    /\ StatusLength(out.entries) < MAX_STATUS
    /\ next \in DOMAIN out.order => \E e \in StatusLineOf(out.order[next]) :
            StatusLength(out.entries) + StatusLineLength(e) >= MAX_STATUS

SpeedAsAsked(out) ==
    out.speed = IF ~out.watches /\ asked[out.client].speed > 0
                THEN asked[out.client].speed ELSE g_speed

\* What the scoreboard, an answer to getstatus and the movement of a player show
\* is what scripts have asked for the player that the line names, on whatever
\* place of the list he is; nobody is named twice, what is sent fits, and it
\* ends early only before a line that would not have fitted
\* (librarymodule.c:133, sv_main.c:319).
BoardShowsPlayers ==
    [][/\ shown'.kind = "board" => BoardAsAsked(shown')
       /\ shown'.kind = "status" => StatusAsAsked(shown')
       /\ shown'.kind = "speed" => SpeedAsAsked(shown')]_setvars
============================================================================
