------------------------------ MODULE Connect ------------------------------
(***************************************************************************)
(* How a client gets into the game: getchallenge, the answers of the       *)
(* xtnded master, and SV_DirectConnect of sv_client.c, over the challenge  *)
(* table and the client slots.  Packets are handled one at a time, in any  *)
(* order, and any number of times: the network may repeat or delay them.   *)
(***************************************************************************)
EXTENDS Challenges, ClientSlots

CONSTANT BannedMUID     \* mUIDs the walk of the ban list finds

ASSUME BanAssumption == BannedMUID \subseteq Player

VARIABLE outcome        \* what became of the last connect

vars == <<challengeVars, clients, outcome>>

Says(adr, n, verdict) == outcome' = [adr |-> adr, number |-> n, verdict |-> verdict]
Quiet == Says(Nobody, 0, "none")

Verdicts == {"none", "ipBanned", "tooSoon", "badChallenge", "message",
             "asksMaster", "refused", "mUIDBanned", "badName", "full",
             "denied", "joined"}

------------------------------------------------------------------------------
(* SV_DirectConnect *)

\* What the search for a slot and the script callback end in.
Admission(e, knowsPassword, denied) ==
    IF SlotsFor(e, knowsPassword) = {} THEN "full"
    ELSE IF denied THEN "denied" ELSE "joined"

\* What a connect that is neither banned nor too soon comes to, in the order of
\* the tests; goodName and denied are is_good_string(name) and what the script
\* says.
Verdict(e, i, knowsPassword, goodName, denied) ==
    CASE WaitsForMessage(i) -> "message"
      [] ~WaitsForMessage(i) /\ WaitsForMaster(i) -> "asksMaster"
      [] ~Waits(i) /\ RefusedByMaster(i) -> "refused"
      [] ~Waits(i) /\ ~RefusedByMaster(i) ->
            IF x_challenges[i].mUID \in BannedMUID THEN "mUIDBanned"
            ELSE IF ~goodName THEN "badName"
            ELSE Admission(e, knowsPassword, denied)

Admitted == {"full", "denied", "joined"}

ProcessConnect(e, n, knowsPassword, goodName, denied) ==
    /\ ~TooSoon(e)
    /\ Holds(e, n) # {}
    /\ LET i == Oldest(Holds(e, n))
           verdict == Verdict(e, i, knowsPassword, goodName, denied)
       IN  /\ Processed(i, verdict \in Admitted)
           /\ IF verdict \in Admitted
              THEN Take(e, x_challenges[i].mUID, knowsPassword, denied)
              ELSE UNCHANGED clients
           /\ Says(e, n, verdict)

\* A connect that changes nothing: from a banned IP address, too soon, or with
\* a challenge the address does not have.
RejectConnect(e, n, ipBanned) ==
    /\ ipBanned \/ TooSoon(e) \/ Holds(e, n) = {}
    /\ Says(e, n, IF ipBanned THEN "ipBanned"
                  ELSE IF TooSoon(e) THEN "tooSoon" ELSE "badChallenge")
    /\ UNCHANGED <<challengeVars, clients>>

\* addbot: none of the tests applies.
BotConnect(denied) ==
    /\ Take(Bot, NoMUID, FALSE, denied)
    /\ Says(Bot, 0, Admission(Bot, FALSE, denied))
    /\ UNCHANGED challengeVars

------------------------------------------------------------------------------
(* The other steps *)

GetChallenge(e) == SV_GetChallenge(e) /\ Quiet /\ UNCHANGED clients

XAuthorize(n, answer) ==
    SV_XAuthorize(n, answer) /\ Quiet /\ UNCHANGED clients

\* SV_DropClient; the engine may or may not open a challenge of that address.
DropClient(i) ==
    /\ Leave(i)
    /\ \/ UNCHANGED challenges
       \/ /\ clients[i].adr \in Endpoint
          /\ \E j \in Challenge :
                /\ SameAdr(clients[i].adr, challenges[j].adr)
                /\ challenges' = [challenges EXCEPT ![j].connected = FALSE]
    /\ Quiet
    /\ UNCHANGED <<x_challenges, issued, master, phase>>

CheckTimeouts(i) == Release(i) /\ Quiet /\ UNCHANGED challengeVars

Tick == ChallengesTick /\ ClientsTick /\ Quiet

Init ==
    /\ ChallengesInit
    /\ ClientsInit
    /\ outcome = [adr |-> Nobody, number |-> 0, verdict |-> "none"]

DirectConnect(e, n) ==
    \/ \E knowsPassword, goodName, denied \in BOOLEAN :
            ProcessConnect(e, n, knowsPassword, goodName, denied)
    \/ \E ipBanned \in BOOLEAN : RejectConnect(e, n, ipBanned)

Next ==
    \/ \E e \in Endpoint : GetChallenge(e)
    \/ \E n \in Number, answer \in Answers : XAuthorize(n, answer)
    \/ \E e \in Endpoint, n \in Number : DirectConnect(e, n)
    \/ \E denied \in BOOLEAN : BotConnect(denied)
    \/ \E i \in ClientNum : DropClient(i) \/ CheckTimeouts(i)
    \/ Tick

Spec == Init /\ [][Next]_vars

\* A client repeats its connect until it is answered, so of the connects that
\* would be processed one is; the server's frames never end.
Retries(e, n) ==
    SF_vars(\E knowsPassword, goodName, denied \in BOOLEAN :
                ProcessConnect(e, n, knowsPassword, goodName, denied))

FairSpec ==
    /\ Spec
    /\ WF_vars(Tick)
    /\ \A e \in Endpoint, n \in Number : Retries(e, n)

------------------------------------------------------------------------------
(* Properties *)

TypeOK ==
    /\ challenges \in [Challenge -> [number : 0..MaxNumber,
            adr : Endpoint \cup {Nobody}, connected : BOOLEAN,
            pingAge : 0..AuthWait]]
    /\ x_challenges \in [Challenge -> [bCanConnect : {-1, 0, 1},
            bAuthRequested : BOOLEAN, msgAge : {Unset} \cup (0..MsgWait),
            mUID : Player \cup {NoMUID}]]
    /\ issued \in 0..MaxNumber
    /\ master \in [Number -> {"unasked", "asked", "allow", "deny"}]
    /\ phase \in 0..(TicksPerSecond - 1)
    /\ clients \in [ClientNum -> [state : {CS_FREE, CS_ZOMBIE, CS_CONNECTED},
            adr : Endpoint \cup {Bot}, mUID : Player \cup {NoMUID},
            connectAge : 0..ReconnectLimit]]
    /\ outcome \in [adr : Endpoint \cup {Bot}, number : 0..MaxNumber,
            verdict : Verdicts]

\* No connect gets in with a challenge number the master's last answer denied,
\* however late the answer came and whichever slot the number was in.
DeniedStaysOut ==
    [][outcome'.verdict = "joined" /\ outcome'.number \in Number
        => master[outcome'.number] # "deny"]_vars

\* Nobody is turned away with EXE_SERVER_DISCONNECTED for an answer about
\* another player, or about an earlier owner of the slot.
RefusalsAreOwn ==
    [][outcome'.verdict = "refused" => master[outcome'.number] = "deny"]_vars

\* While a question to the master is open, a client gets in only when AuthWait
\* has passed since its challenge was last sent, whatever else has happened to
\* the slot in the meantime (an answer with no mUID, an earlier rejection).
AdmissionIsDue ==
    [][outcome'.verdict \in Admitted /\ outcome'.number \in Number
        => \/ master[outcome'.number] # "asked"
           \/ \A i \in SlotsOf(outcome'.number) :
                    challenges[i].pingAge = AuthWait]_vars

\* No two slots that are not free belong to the same client, though records of
\* it stay behind in free slots and its UDP port may change.  It takes clients
\* behind one IP address to differ in both qport and port.
OneSlotPerClient ==
    \A i, j \in ClientNum :
        i # j /\ Live(i) /\ Live(j) /\ clients[i].adr \in Endpoint
            => ~SameClient(clients[i].adr, clients[j].adr)

\* "reconnect rejected : too soon" (sv_client.c:603): a client in the game is
\* never replaced by a connect within the reconnect limit of the last one.  It
\* takes a server without reserved slots (sv_privateClients = 0): with them the
\* record that a free reserved slot has kept hides the live slot behind it.
LiveNotResetEarly ==
    [][outcome'.verdict \in {"joined", "denied"} =>
        \A i \in ClientNum :
            clients[i].state = CS_CONNECTED /\ clients'[i] # clients[i]
                => clients[i].connectAge = ReconnectLimit]_vars

\* The mUID a client plays under is its own, or it has none: xclients gets the
\* "mUID from challenge" (sv_client.c:754).
MUIDIsOwn ==
    \A i \in ClientNum :
        clients[i].state = CS_CONNECTED /\ clients[i].adr \in Endpoint
            => clients[i].mUID \in {NoMUID, MUIDOf[clients[i].adr]}

\* "time out if master is offline" (sv_client.c:643): a question that is never
\* answered stops holding a client up that goes on connecting, unless it asks
\* for its challenge again and again or loses it.
MasterSilenceDoesNotBlock ==
    (\A e \in Endpoint : <>[][~GetChallenge(e)]_vars) =>
        \A i \in Challenge :
            x_challenges[i].bAuthRequested ~> ~x_challenges[i].bAuthRequested
==============================================================================
