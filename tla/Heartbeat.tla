----------------------------- MODULE Heartbeat -----------------------------
(***************************************************************************)
(* SV_MasterHeartBeat of sv_main.c: the masters in the cvars sv_master,    *)
(* their addresses in the static array adr, which are looked up only after *)
(* a cvar was changed, and the time of the next heartbeat.  The address of *)
(* a host is the host; whether a look-up succeeds is open each time.       *)
(***************************************************************************)
EXTENDS Integers

CONSTANTS
    Master,         \* indices of the cvars sv_master
    Host,           \* what a cvar can name
    MinBeat,        \* 18000 ms, in frames
    HeartbeatTimes  \* values x_heartbeattime may have, in frames

\* The empty string.
NoHost == "none"

ASSUME HeartbeatAssumption ==
    /\ NoHost \notin Host
    /\ MinBeat \in Nat \ {0}
    /\ HeartbeatTimes \subseteq Nat /\ HeartbeatTimes # {}

VARIABLES
    sv_master,      \* the cvars: string and modified, and adr of each
    dedicated,      \* is the cvar dedicated 2, an internet server?
    nextHeartbeat,  \* frames until the next one: nextHeartbeatTime - svs_time
    sent,           \* what this frame has sent: master and address
    sinceBeat,      \* history: frames since the last heartbeat, up to MinBeat
    forced          \* history: has the console asked for one since?

hvars == <<sv_master, dedicated, nextHeartbeat, sent, sinceBeat, forced>>

Later(n) == IF n > 0 THEN n - 1 ELSE 0

Period(t) == IF t < MinBeat THEN MinBeat ELSE t

\* Mutant: the cvar keeps a host that cannot be resolved.
KeepHost(m, up) ==
    IF m.string = NoHost \/ ~m.modified THEN m
    ELSE [m EXCEPT !.modified = FALSE, !.adr = IF m.string \in up THEN m.string ELSE @]

\* A cvar after its turn; a host that cannot be resolved is taken out of it.
Resolved(m, up) ==
    IF m.string = NoHost \/ ~m.modified THEN m
    ELSE IF m.string \in up
         THEN [m EXCEPT !.modified = FALSE, !.adr = m.string]
         ELSE [m EXCEPT !.modified = FALSE, !.string = NoHost]

\* Mutant: only masters that were just looked up hear.
ToLookedUp(masters) ==
    {<<i, masters[i].adr>> : i \in {j \in Master : sv_master[j].modified
                                                    /\ masters[j].string # NoHost}}

ToAll(masters) ==
    {<<i, masters[i].adr>> : i \in {j \in Master : masters[j].string # NoHost}}

\* One frame of the server; up are the hosts that can be resolved in it, t is
\* x_heartbeattime.
SV_MasterHeartBeat(up, t) ==
    /\ IF dedicated /\ Later(nextHeartbeat) = 0
       THEN /\ nextHeartbeat' = Period(t)
            /\ sv_master' = [i \in Master |-> Resolved(sv_master[i], up)]
            /\ sent' = ToAll(sv_master')
            /\ sinceBeat' = 0
            /\ forced' = FALSE
       ELSE /\ nextHeartbeat' = Later(nextHeartbeat)
            /\ sent' = {}
            /\ sinceBeat' = IF sinceBeat < MinBeat THEN sinceBeat + 1 ELSE MinBeat
            /\ UNCHANGED <<sv_master, forced>>
    /\ UNCHANGED dedicated

Frame == \E up \in SUBSET Host, t \in HeartbeatTimes : SV_MasterHeartBeat(up, t)

\* heartbeat on the console.
SV_Heartbeat_f ==
    /\ nextHeartbeat' = 0
    /\ forced' = TRUE
    /\ sent' = {}
    /\ UNCHANGED <<sv_master, dedicated, sinceBeat>>

\* Cvar_Set of the engine marks a cvar as modified when its value changes.
SetMaster(i, host) ==
    /\ sv_master[i].string # host
    /\ sv_master' = [sv_master EXCEPT ![i].string = host, ![i].modified = TRUE]
    /\ sent' = {}
    /\ UNCHANGED <<dedicated, nextHeartbeat, sinceBeat, forced>>

SetDedicated ==
    /\ dedicated' = ~dedicated
    /\ sent' = {}
    /\ UNCHANGED <<sv_master, nextHeartbeat, sinceBeat, forced>>

HeartbeatInit ==
    /\ sv_master = [i \in Master |-> [string |-> NoHost, modified |-> TRUE, adr |-> NoHost]]
    /\ dedicated = TRUE
    /\ nextHeartbeat = 0
    /\ sent = {}
    /\ sinceBeat = MinBeat
    /\ forced = FALSE

HeartbeatNext ==
    \/ Frame
    \/ SV_Heartbeat_f
    \/ \E i \in Master, host \in Host \cup {NoHost} : SetMaster(i, host)
    \/ SetDedicated

\* Frames go on.
HeartbeatSpec == HeartbeatInit /\ [][HeartbeatNext]_hvars /\ WF_hvars(Frame)

------------------------------------------------------------------------------
(* Properties *)

\* Types; no wait is longer than the cvar or the bound asks for.
HeartbeatTypeOK ==
    /\ sv_master \in [Master -> [string : Host \cup {NoHost}, modified : BOOLEAN,
                                 adr : Host \cup {NoHost}]]
    /\ dedicated \in BOOLEAN
    /\ nextHeartbeat \in Nat
    /\ \E t \in HeartbeatTimes \cup {MinBeat} : nextHeartbeat <= t
    /\ sent \subseteq Master \X (Host \cup {NoHost})
    /\ sinceBeat \in 0..MinBeat
    /\ forced \in BOOLEAN

\* A heartbeat never goes to an address that is left over from an earlier value
\* of the cvar, however often the look-up has failed in between (sv_main.c:373).
HeartbeatsGoToCurrent ==
    \A i \in Master, host \in Host \cup {NoHost} :
        <<i, host>> \in sent => host = sv_master[i].string

\* Unless the console asks for one, masters do not hear twice in 18 seconds,
\* whatever x_heartbeattime says (sv_main.c:349).
HeartbeatsAreSpaced == [][sent' # {} => sinceBeat + 1 >= MinBeat \/ forced]_hvars

\* A host that stays in a cvar of an internet server hears in the end, or is
\* taken out because it cannot be resolved (sv_main.c:362-390).
MastersHear ==
    \A i \in Master, host \in Host :
        (sv_master[i].string = host /\ dedicated) ~>
            (<<i, host>> \in sent \/ sv_master[i].string # host \/ ~dedicated)
============================================================================
