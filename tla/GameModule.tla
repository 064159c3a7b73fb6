----------------------------- MODULE GameModule -----------------------------
(***************************************************************************)
(* How CoDExtended takes hold of the server.  CoDExtended patches calls in *)
(* the executable, once; the patched Sys_LoadDll has set_game_ptr read the *)
(* addresses of the game library and patch its code, each time the library *)
(* is loaded.  One function of it, Scr_RunCurrentThreads, is patched and   *)
(* called as well: its first bytes are saved, put back for the call, and   *)
(* patched again.                                                          *)
(*                                                                         *)
(* The engine unloads the library at the end of a game, and the next one   *)
(* comes from another file if fs_game has changed.                         *)
(***************************************************************************)
EXTENDS Integers

CONSTANTS
    Library,        \* the files the game library can come from
    NoFile,
    MaxLoads        \* bound on the loads

ASSUME GameAssumption == NoFile \notin Library /\ MaxLoads \in Nat

VARIABLES
    engineHooks,    \* the calls of the executable that are patched
    gamelib,        \* the load that the pointer stands for, 0 before the first
    mapped,         \* the file of that library while it is mapped, or NoFile
    pointers,       \* for each group of pointers, the load it belongs to
    gameHooks,      \* the functions of the mapped library that are patched
    rctCode,        \* first bytes of its Scr_RunCurrentThreads: of which file, or "jmp"
    rct_bytes,      \* the bytes that were saved
    process,        \* of the server: "runs", "quits", "crashes"
    freed,          \* has uCoDExtended been called?
    cleanups        \* history: how often the log was closed and the bans freed

gvars == <<engineHooks, gamelib, mapped, pointers, gameHooks, rctCode, rct_bytes, process,
           freed, cleanups>>

\* Functions of the executable whose calls or code are replaced.
EngineHooks ==
    {"Scr_GetFunction", "Scr_GetMethod", "Sys_LoadDll", "Cbuf_Init", "SV_ClientCommand",
     "SV_AddOperatorCommands", "SV_Init", "SV_ConnectionlessPacket", "SV_Shutdown",
     "SV_SpawnServer", "Sys_GetPacket", "SV_DirectConnect", "SV_MasterHeartBeat",
     "SV_UserinfoChanged", "SV_Frame", "SV_ExecuteClientMessage",
     "FS_ReferencedPakChecksums", "FS_ReferencedPakNames", "SV_SendMessageToClient",
     "SV_SendClientMessages", "SV_WriteDownloadToClient", "SV_BotUserMove", "COD_Destructor"}

Groups == {"base", "level", "spawn", "trap", "script"}

------------------------------------------------------------------------------
(* The executable *)

\* CoDExtended, from the constructor of the library and from
\* codextended_module_load: the second call does nothing.
CoDExtended ==
    /\ process = "runs" /\ gamelib = 0
    /\ engineHooks' = EngineHooks
    /\ UNCHANGED <<gamelib, mapped, pointers, gameHooks, rctCode, rct_bytes, process, freed,
                   cleanups>>

uCoDExtended ==
    IF freed THEN UNCHANGED <<freed, cleanups>> ELSE freed' = TRUE /\ cleanups' = cleanups + 1

\* COD_Destructor stands for the engine's shutdown, which quit and a signal
\* both call; a second one can come before the process has gone.
COD_Destructor ==
    /\ "COD_Destructor" \in engineHooks /\ process # "crashes" /\ cleanups < 2
    /\ uCoDExtended
    /\ process' = "quits"
    /\ UNCHANGED <<engineHooks, gamelib, mapped, pointers, gameHooks, rctCode, rct_bytes>>

------------------------------------------------------------------------------
(* The game library *)

\* BG_Link returns at once.  init_g_spawn, set_trap_func_ptr: pointers, and a
\* function of the library each.
init_g_spawn == {"G_CallSpawnEntity"}
set_trap_func_ptr == {"Scr_FreeEntity", "SpectatorClientEndFrame"}

\* Mutant: the bytes are saved when the function is patched already.
SavePatched(file) == rct_bytes' = "jmp"

\* The first lines of scriptInitializing.
SaveBytes(file) == rct_bytes' = file

\* The rest of scriptInitializing patches these.
scriptInitializing ==
    {"Scr_RunCurrentThreads", "fire_grenade", "Scr_StartupGameType", "Scr_LoadGameType",
     "Scr_PlayerConnect", "Scr_PlayerDisconnect", "Cmd_MenuResponse_f",
     "GScr_LoadGameTypeScript", "G_LocalizedStringIndex"}

\* The rest of set_game_ptr patches these.
set_game_ptr ==
    {"StuckInClient", "G_SetClientContents", "ConsoleCommand", "ClientEndFrame",
     "DeathmatchScoreboardMessage", "Cmd_CallVote_f", "ClientBegin", "G_Say", "G_Printf",
     "G_SayTo"}

\* Sys_LoadDll with the library of the file.  The code can be written only if
\* unprotect_lib has found the file under the name that fs_game tells; otherwise
\* the first patch is a fault, and crash_handler ends the process.
Sys_LoadDll(file, named) ==
    /\ "Sys_LoadDll" \in engineHooks /\ process = "runs"
    /\ mapped = NoFile /\ gamelib < MaxLoads
    /\ gamelib' = gamelib + 1
    /\ mapped' = file
    /\ IF file = named
       THEN /\ pointers' = [g \in Groups |-> gamelib + 1]
            /\ gameHooks' = init_g_spawn \cup set_trap_func_ptr \cup scriptInitializing
                            \cup set_game_ptr
            /\ SaveBytes(file)
            /\ rctCode' = "jmp"
            /\ UNCHANGED process
       ELSE /\ process' = "crashes"
            /\ rctCode' = file
            /\ gameHooks' = {}
            /\ UNCHANGED <<pointers, rct_bytes>>
    /\ UNCHANGED <<engineHooks, freed, cleanups>>

\* There is no library: the null pointer is patched.
Sys_LoadDllFails ==
    /\ "Sys_LoadDll" \in engineHooks /\ process = "runs" /\ mapped = NoFile
    /\ process' = "crashes"
    /\ UNCHANGED <<engineHooks, gamelib, mapped, pointers, gameHooks, rctCode, rct_bytes, freed,
                   cleanups>>

\* The pointers stay as they are.
Sys_UnloadDll ==
    /\ process = "runs" /\ mapped # NoFile
    /\ mapped' = NoFile
    /\ gameHooks' = {}
    /\ rctCode' = NoFile
    /\ UNCHANGED <<engineHooks, gamelib, pointers, rct_bytes, process, freed, cleanups>>

\* A frame of the game runs the threads of scripts.  If one of them raises an
\* error that ends the game, the function is not patched again.
RunCurrentThreads(error) ==
    /\ process = "runs" /\ mapped # NoFile
    /\ rctCode' = IF rctCode # "jmp" THEN rctCode
                  ELSE IF error THEN rct_bytes ELSE "jmp"
    /\ gameHooks' = IF rctCode' = "jmp" THEN gameHooks
                    ELSE gameHooks \ {"Scr_RunCurrentThreads"}
    /\ UNCHANGED <<engineHooks, gamelib, mapped, pointers, rct_bytes, process, freed, cleanups>>

------------------------------------------------------------------------------
GameInit ==
    /\ engineHooks = {}
    /\ gamelib = 0
    /\ mapped = NoFile
    /\ pointers = [g \in Groups |-> 0]
    /\ gameHooks = {}
    /\ rctCode = NoFile
    /\ rct_bytes = NoFile
    /\ process = "runs"
    /\ freed = FALSE
    /\ cleanups = 0

GameNext ==
    \/ CoDExtended
    \/ COD_Destructor
    \/ \E file, named \in Library : Sys_LoadDll(file, named)
    \/ Sys_LoadDllFails
    \/ Sys_UnloadDll
    \/ \E error \in BOOLEAN : RunCurrentThreads(error)

GameSpec == GameInit /\ [][GameNext]_gvars

------------------------------------------------------------------------------
(* Properties *)

\* What was freed is not freed again, though the engine may shut down twice
\* (codextended.c:57).
GameTypeOK ==
    /\ engineHooks \in {{}, EngineHooks}
    /\ gamelib \in 0..MaxLoads
    /\ mapped \in Library \cup {NoFile}
    /\ pointers \in [Groups -> 0..MaxLoads]
    /\ rctCode \in Library \cup {NoFile, "jmp"}
    /\ process \in {"runs", "quits", "crashes"}
    /\ cleanups = IF freed THEN 1 ELSE 0

\* While a library is mapped all pointers are into it, and the bytes that stand
\* in for its Scr_RunCurrentThreads during a call are its own: no other file's,
\* and not the jump to the patch, which would call itself without end
\* (script.c:1862).
HooksAreCurrent ==
    process = "runs" /\ mapped # NoFile =>
        /\ \A g \in Groups : pointers[g] = gamelib
        /\ rct_bytes = mapped
        /\ rctCode \in {"jmp", mapped}
============================================================================
