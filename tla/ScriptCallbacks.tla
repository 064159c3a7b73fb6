-------------------------- MODULE ScriptCallbacks --------------------------
(***************************************************************************)
(* The functions of scripts that C code calls: GScr_LoadGametypeScript     *)
(* looks them up for every map, some must be there and others may; the     *)
(* flag by which a script stops what the server does after a callback; and *)
(* the queue of script errors.                                             *)
(*                                                                         *)
(* A handle is the number of the map whose scripts it was found in, or 0.  *)
(* The queue outlives the map.  Packets and frames are handled only while  *)
(* the server runs; an error of the kind ERR_DROP ends the map.            *)
(***************************************************************************)
EXTENDS Integers, SequencesExt

CONSTANTS
    Scripts,            \* what scripts define: sets of labels
    MAX_ERROR_BUFFER,   \* errors the queue can hold
    MaxMaps,            \* bound on the maps
    MaxReturns          \* bound on the calls of creturn

\* The labels in the order in which they are looked up; the last six may be
\* missing.
Labels == <<"main", "StartGameType", "PlayerConnect", "PlayerDisconnect", "PlayerDamage",
            "PlayerKilled", "PlayerCommand", "RemoteCommand", "FireGrenade",
            "EntityDamage", "EntityDeath", "Error">>
Required == 1..6

ASSUME CallbacksAssumption ==
    /\ Scripts \subseteq SUBSET ToSet(Labels)
    /\ MAX_ERROR_BUFFER \in Nat
    /\ MaxMaps \in Nat
    /\ MaxReturns \in Nat

VARIABLES
    mapNumber,      \* the map that was loaded last
    running,        \* is it running?
    handles,        \* g_scr_data->..., callbackPlayerCommand and the others
    scr_return,     \* the flag
    scr_errors_index,
    vulnerable,     \* does the entity have the functions pain and die?
    executed,       \* history: the handle the last step has executed
    returns,        \* history: calls of creturn
    stopped         \* history: what scripts have stopped

cvars == <<mapNumber, running, handles, scr_return, scr_errors_index, vulnerable, executed,
           returns, stopped>>

Number(label) == CHOOSE n \in DOMAIN Labels : Labels[n] = label

------------------------------------------------------------------------------
(* Loading *)

\* Mutant: a function that is not there leaves the handle as it is.
KeepHandle(label, scripts, map) == IF label \in scripts THEN map ELSE handles[label]

\* What is found under the label in the scripts of the map.
load_callback(label, scripts, map) == IF label \in scripts THEN map ELSE 0

\* The first required label that is not in the scripts.
Lacking(scripts) == {n \in Required : Labels[n] \notin scripts}

\* All handles of the map; or ERR_DROP, with the handles before the lacking one
\* set and all others those of an earlier map.
GScr_LoadGametypeScript(scripts) ==
    /\ mapNumber < MaxMaps
    /\ mapNumber' = mapNumber + 1
    /\ running' = (Lacking(scripts) = {})
    /\ handles' = [label \in ToSet(Labels) |->
            IF \E n \in Lacking(scripts) : n <= Number(label)
            THEN handles[label] ELSE load_callback(label, scripts, mapNumber + 1)]
    /\ vulnerable' = FALSE
    /\ executed' = 0
    /\ UNCHANGED <<scr_return, scr_errors_index, returns, stopped>>

\* The map ends, by a command or an error.
SV_ShutdownMap ==
    /\ running
    /\ running' = FALSE
    /\ executed' = 0
    /\ UNCHANGED <<mapNumber, handles, scr_return, scr_errors_index, vulnerable, returns, stopped>>

------------------------------------------------------------------------------
(* Scripts *)

GScr_return == scr_return' = TRUE /\ returns' = returns + 1

\* Any thread can call creturn, in a callback or not.
ThreadReturns ==
    /\ running /\ returns < MaxReturns
    /\ GScr_return
    /\ executed' = 0
    /\ UNCHANGED <<mapNumber, running, handles, scr_errors_index, vulnerable, stopped>>

\* Scr_ExecThread and Scr_ExecEntThread: the thread that a callback starts runs
\* until it waits, and may call creturn.
Exec(label, calls) ==
    /\ calls => returns < MaxReturns
    /\ executed' = handles[label]
    /\ IF calls THEN GScr_return ELSE UNCHANGED <<scr_return, returns>>

\* Mutant: the flag stays.
ContinueKeeps(flag) == scr_return' = flag

\* Scr_Continue, given the flag after the callback: clears it.
Scr_Continue(flag) == scr_return' = FALSE

\* The functions scripts must have.
Scr_Callback(label, calls) ==
    /\ running
    /\ Exec(label, calls)
    /\ UNCHANGED <<mapNumber, running, handles, scr_errors_index, vulnerable, stopped>>

------------------------------------------------------------------------------
(* What the server asks scripts about *)

\* What the server does after a callback, unless the flag is set.
Default(flag) ==
    /\ Scr_Continue(flag)
    /\ stopped' = IF flag THEN stopped + 1 ELSE stopped

\* hG_Say looks at the flag whether it has called a script or not.
hG_Say(calls) ==
    /\ running
    /\ calls => handles["PlayerCommand"] # 0 /\ returns < MaxReturns
    /\ executed' = handles["PlayerCommand"]
    /\ returns' = IF calls THEN returns + 1 ELSE returns
    /\ Default(calls \/ scr_return)
    /\ UNCHANGED <<mapNumber, running, handles, scr_errors_index, vulnerable>>

\* SVC_RemoteCommand only if it has called one.
SVC_RemoteCommand(calls) ==
    /\ running
    /\ calls => handles["RemoteCommand"] # 0 /\ returns < MaxReturns
    /\ executed' = handles["RemoteCommand"]
    /\ returns' = IF calls THEN returns + 1 ELSE returns
    /\ IF handles["RemoteCommand"] # 0 THEN Default(calls \/ scr_return)
       ELSE UNCHANGED <<scr_return, stopped>>
    /\ UNCHANGED <<mapNumber, running, handles, scr_errors_index, vulnerable>>

\* A grenade is thrown whatever the script says, and the flag stays set.
fire_grenade(calls) ==
    /\ running /\ handles["FireGrenade"] # 0
    /\ Exec("FireGrenade", calls)
    /\ UNCHANGED <<mapNumber, running, handles, scr_errors_index, vulnerable, stopped>>

\* settakedamage gives an entity both functions, or takes both away.
ScriptEnt_SetTakeDamage(flag) ==
    /\ running
    /\ vulnerable' = flag
    /\ executed' = 0
    /\ UNCHANGED <<mapNumber, running, handles, scr_return, scr_errors_index, returns, stopped>>

\* pain and die: without the callback they raise a script error.
Damage(label, calls) ==
    /\ running /\ vulnerable
    /\ calls => handles[label] # 0
    /\ Exec(label, calls)
    /\ UNCHANGED <<mapNumber, running, handles, scr_errors_index, vulnerable, stopped>>

\* A menu is open at the client since the map `since`; the answer to it counts
\* only on that map.
Cmd_MenuResponse_f(since) ==
    /\ running /\ since = mapNumber
    /\ executed' = since
    /\ UNCHANGED <<mapNumber, running, handles, scr_return, scr_errors_index, vulnerable,
                   returns, stopped>>

------------------------------------------------------------------------------
(* Errors *)

Fits(n) == n < MAX_ERROR_BUFFER

\* stackError is the only caller of Scr_CodeCallback_Error, and its errors are
\* neither terminal nor to be emitted: they are queued if the script has the
\* callback, and a full queue drops them.  Nothing takes them out.
stackError ==
    /\ running
    /\ scr_errors_index' = IF handles["Error"] # 0 /\ Fits(scr_errors_index)
                           THEN scr_errors_index + 1 ELSE scr_errors_index
    /\ executed' = 0
    /\ UNCHANGED <<mapNumber, running, handles, scr_return, vulnerable, returns, stopped>>

------------------------------------------------------------------------------
CallbacksInit ==
    /\ mapNumber = 0
    /\ running = FALSE
    /\ handles = [label \in ToSet(Labels) |-> 0]
    /\ scr_return = FALSE
    /\ scr_errors_index = 0
    /\ vulnerable = FALSE
    /\ executed = 0
    /\ returns = 0
    /\ stopped = 0

CallbacksNext ==
    \/ \E scripts \in Scripts : GScr_LoadGametypeScript(scripts)
    \/ SV_ShutdownMap
    \/ ThreadReturns
    \/ \E calls \in BOOLEAN :
        \/ \E n \in Required : Scr_Callback(Labels[n], calls)
        \/ hG_Say(calls)
        \/ SVC_RemoteCommand(calls)
        \/ fire_grenade(calls)
        \/ \E label \in {"EntityDamage", "EntityDeath"} : Damage(label, calls)
    \/ \E flag \in BOOLEAN : ScriptEnt_SetTakeDamage(flag)
    \/ \E since \in 1..MaxMaps : Cmd_MenuResponse_f(since)
    \/ stackError

CallbacksSpec == CallbacksInit /\ [][CallbacksNext]_cvars

------------------------------------------------------------------------------
(* Properties *)

\* The queue stays within its buffer (script.c:1772).
CallbacksTypeOK ==
    /\ mapNumber \in 0..MaxMaps
    /\ running \in BOOLEAN
    /\ handles \in [ToSet(Labels) -> 0..MaxMaps]
    /\ scr_return \in BOOLEAN
    /\ scr_errors_index \in 0..MAX_ERROR_BUFFER
    /\ vulnerable \in BOOLEAN
    /\ executed \in 0..MaxMaps
    /\ returns \in 0..MaxReturns
    /\ stopped \in Nat

\* A call of creturn stops one command at most, whoever called it and whenever
\* (script.c:739), though the flag is shared by say, rcon and the callbacks that
\* never look at it; it may be another command than the one it was meant for.
ReturnsStopOne == stopped + (IF scr_return THEN 1 ELSE 0) <= returns

\* No function of an earlier map's scripts is ever called (script.c:914).
CallbacksAreCurrent == [][executed' \in {0, mapNumber'}]_cvars
============================================================================
