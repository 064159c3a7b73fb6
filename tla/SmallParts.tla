----------------------------- MODULE SmallParts -----------------------------
(***************************************************************************)
(* One instance of each of the smaller parts, side by side.  The parts share *)
(* nothing but the number of slots, so no step of one can help or hinder a *)
(* step of another: each behaviour here has the steps of one part, chosen  *)
(* at the start, and the others stay as they begin.                        *)
(***************************************************************************)
EXTENDS BanList, Players, Heartbeat, InfoStrings, VaRing, ConfigStrings, ScriptCallbacks,
        GameModule, BotOrders, PlayerSettings, Helpers, Packets, ScriptFiles

VARIABLE part

Parts == {"bans", "players", "heartbeat", "info", "va", "strings", "callbacks", "game", "bots",
          "settings", "helpers", "packets", "files"}

smallvars == <<part, bvars, pvars, hvars, ivars, vvars, lvars, cvars, gvars,
               botvars, setvars, call, packetvars, filevars>>

SmallInit ==
    /\ part \in Parts
    /\ BansInit /\ (part = "bans" \/ (ipbans = <<>> /\ muidbans = <<>>))
    /\ PlayersInit
    /\ HeartbeatInit
    /\ InfoInit /\ (part = "info" \/ info = <<>>)
    /\ VaInit
    /\ StringsInit
    /\ CallbacksInit
    /\ GameInit
    /\ BotsInit
    /\ SettingsInit
    /\ HelpersInit
    /\ PacketsInit
    /\ FilesInit

\* A step of the part p leaves the others as they are.
Only(p) ==
    /\ part = p
    /\ UNCHANGED part
    /\ p # "bans" => UNCHANGED bvars
    /\ p # "players" => UNCHANGED pvars
    /\ p # "heartbeat" => UNCHANGED hvars
    /\ p # "info" => UNCHANGED ivars
    /\ p # "va" => UNCHANGED vvars
    /\ p # "strings" => UNCHANGED lvars
    /\ p # "callbacks" => UNCHANGED cvars
    /\ p # "game" => UNCHANGED gvars
    /\ p # "bots" => UNCHANGED botvars
    /\ p # "settings" => UNCHANGED setvars
    /\ p # "helpers" => UNCHANGED call
    /\ p # "packets" => UNCHANGED packetvars
    /\ p # "files" => UNCHANGED filevars

FrameStep == Only("heartbeat") /\ Frame

\* All maps have been played, or the process is gone.
Ended ==
    /\ \/ part = "callbacks" /\ mapNumber = MaxMaps /\ ~running
       \/ part = "game" /\ process = "crashes"
       \/ part = "files" /\ crashed
    /\ UNCHANGED smallvars

SmallNext ==
    \/ Only("bans") /\ BansNext
    \/ Only("players") /\ PlayersNext
    \/ Only("heartbeat") /\ HeartbeatNext
    \/ Only("info") /\ InfoNext
    \/ Only("va") /\ VaNext
    \/ Only("strings") /\ StringsNext
    \/ Only("callbacks") /\ CallbacksNext
    \/ Only("game") /\ GameNext
    \/ Only("bots") /\ BotsNext
    \/ Only("settings") /\ SettingsNext
    \/ Only("helpers") /\ HelpersNext
    \/ Only("packets") /\ PacketsNext
    \/ Only("files") /\ FilesNext
    \/ Ended

SmallSpec == SmallInit /\ [][SmallNext]_smallvars /\ WF_smallvars(FrameStep)

\* What the last step of the bans, the players, the callbacks, the bots or the files
\* was is read by no guard.
SmallView == <<part, banlist, ipbans, muidbans, clients, hvars, ivars, vvars, lvars, gvars,
               slots, x_clients, search_players, connects, muteOrders, mapNumber, running,
               handles, scr_return, scr_errors_index, vulnerable, returns, stopped, isBot,
               customPlayerState, ordered, given, players, settings, perks, asked, call,
               packetvars, disk, streams, leaked, failed, crashed>>

\* The types of all parts, each with the bounds its module puts on itself: how
\* long a list of bans, a wait or an info string can be (sv_init.c:27,
\* sv_main.c:349, shared.c:526), that va stays in its buffer (shared.c:651) and
\* that names are printable (sv_client.c:921).
SmallTypeOK == BansTypeOK /\ PlayersTypeOK /\ HeartbeatTypeOK /\ InfoTypeOK /\ VaTypeOK
               /\ StringsTypeOK /\ CallbacksTypeOK /\ GameTypeOK
               /\ BotsTypeOK /\ SettingsTypeOK /\ PacketsTypeOK /\ FilesTypeOK

=============================================================================
