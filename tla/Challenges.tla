----------------------------- MODULE Challenges -----------------------------
(***************************************************************************)
(* The challenge table of sv_client.c and the extended challenge that      *)
(* CoDExtended keeps beside each of its slots: whether the xtnded master   *)
(* has been asked who the player is, and what it has answered.             *)
(*                                                                         *)
(* A challenge number is random in the code; here it is the next unused    *)
(* number, so number order is also the order of challenge->time.           *)
(* svs_time and time(NULL) advance together, in ticks; ages are kept       *)
(* instead of times, each up to the largest value the code tells apart.    *)
(***************************************************************************)
EXTENDS Integers, FiniteSets, Endpoints

CONSTANTS
    Challenge,      \* slots of the table, 0..(MAX_CHALLENGES - 1)
    MaxNumber,      \* bound on the challenge numbers issued
    AuthWait,       \* ticks to wait for the master, 2500 ms in the code
    MsgWait,        \* seconds the connect message is shown, 3 in the code
    TicksPerSecond  \* ticks between two seconds of time(NULL)

ASSUME ChallengeAssumption ==
    /\ Challenge = 0..(Cardinality(Challenge) - 1) /\ Challenge # {}
    /\ IsFiniteSet(Challenge)
    /\ MaxNumber \in Nat
    /\ AuthWait \in Nat /\ MsgWait \in Nat /\ TicksPerSecond \in Nat \ {0}

VARIABLES
    challenges,     \* the engine's part of each slot
    x_challenges,   \* the extended part
    issued,         \* challenge numbers issued so far
    master,         \* how the master stands to each challenge number
    phase           \* ticks since the last second of time(NULL) began

challengeVars == <<challenges, x_challenges, issued, master, phase>>

\* A zeroed netadr_t is of type NA_BOT, and NET_CompareAdr finds it equal to
\* no address.
Nobody == [ip |-> 0, port |-> 0, qport |-> 0]
Unset == -1     \* msgtime == 0

Number == 1..MaxNumber
Oldest(S) == CHOOSE i \in S : \A j \in S : i <= j
AtMost(bound, age) == IF age < bound THEN age ELSE bound

FreeChallenge == [number |-> 0, adr |-> Nobody, connected |-> FALSE,
                  pingAge |-> AuthWait]
FreshXChallenge == [bCanConnect |-> 0, bAuthRequested |-> FALSE,
                    msgAge |-> Unset, mUID |-> NoMUID]

ChallengesInit ==
    /\ challenges = [i \in Challenge |-> FreeChallenge]
    /\ x_challenges = [i \in Challenge |-> FreshXChallenge]
    /\ issued = 0
    /\ master = [n \in Number |-> "unasked"]
    /\ phase = 0

------------------------------------------------------------------------------
(* getchallenge, once the two rate limits have let it through *)

OpenFor(e) == {i \in Challenge : ~challenges[i].connected
                                 /\ SameAdr(e, challenges[i].adr)}

\* The slot with the smallest time; never used slots come first.
OldestChallenge ==
    Oldest({i \in Challenge : \A j \in Challenge :
                challenges[i].number <= challenges[j].number})

\* Mutant: what the master said of the last owner is kept.
ReissuedKeepsAnswer(x) == [x EXCEPT !.bAuthRequested = FALSE, !.msgAge = Unset]

\* A slot given to a new owner; the mUID is left as it is.
Reissued(x) == [FreshXChallenge EXCEPT !.mUID = x.mUID]

\* pingTime = svs_time, whenever the challenge is sent.
Stamped(c) == [c EXCEPT !.pingAge = 0]

SV_GetChallenge(e) ==
    IF OpenFor(e) # {}
    THEN /\ challenges' = [challenges EXCEPT ![Oldest(OpenFor(e))] = Stamped(@)]
         /\ UNCHANGED <<x_challenges, issued, master, phase>>
    ELSE /\ issued < MaxNumber
         /\ issued' = issued + 1
         /\ challenges' = [challenges EXCEPT ![OldestChallenge] =
                Stamped([@ EXCEPT !.number = issued + 1, !.adr = e,
                                  !.connected = FALSE])]
         /\ x_challenges' = [x_challenges EXCEPT ![OldestChallenge] = Reissued(@)]
         /\ UNCHANGED <<master, phase>>

------------------------------------------------------------------------------
(* The answers of the xtnded master *)

Answers == {"allow", "deny", "noMUID"}

\* The first slot with challenge number n; a number that has been overwritten
\* has none.
SlotsOf(n) == {i \in Challenge : challenges[i].number = n}

Answered(n) == SlotsOf(n)

\* The x_challenge after an answer about the player at e.  An empty mUID
\* settles nothing.
AfterAnswer(x, answer, e) ==
    [x EXCEPT !.bAuthRequested = FALSE,
              !.bCanConnect = CASE answer = "deny" -> -1
                                [] answer = "allow" -> 1
                                [] answer = "noMUID" -> @,
              !.mUID = IF answer = "allow" THEN MUIDOf[e] ELSE @]

\* The master answers what it was asked: late, twice, differently, or never.
SV_XAuthorize(n, answer) ==
    /\ master[n] # "unasked"
    /\ IF Answered(n) = {} THEN UNCHANGED <<x_challenges, master>>
       ELSE LET i == Oldest(Answered(n))
            IN  /\ x_challenges' = [x_challenges EXCEPT ![i] =
                        AfterAnswer(@, answer, challenges[i].adr)]
                /\ master' = IF answer = "noMUID" THEN master
                             ELSE [master EXCEPT ![n] = answer]
    /\ UNCHANGED <<challenges, issued, phase>>

------------------------------------------------------------------------------
(* The part of SV_DirectConnect that deals with challenges *)

\* The slot that holds number n for the address of e.
Holds(e, n) == {i \in SlotsOf(n) : SameAdr(e, challenges[i].adr)}

Asks(x) == ~x.bAuthRequested /\ x.mUID = NoMUID

\* The x_challenge after the master has been asked and the message has begun.
Asked(x) == [x EXCEPT !.bAuthRequested = @ \/ Asks(x),
                      !.msgAge = IF @ = Unset THEN 0 ELSE @]

WaitsForMessage(i) == Asked(x_challenges[i]).msgAge < MsgWait

\* Mutant: waits for the master as long as it has not answered.
WaitsForMasterForever(i) == Asked(x_challenges[i]).bAuthRequested

\* Mutant: looks at the flag as it was before the master was asked.
WaitsIfAskedBefore(i) ==
    x_challenges[i].bAuthRequested /\ challenges[i].pingAge < AuthWait

\* "time out if master is offline"
WaitsForMaster(i) ==
    Asked(x_challenges[i]).bAuthRequested /\ challenges[i].pingAge < AuthWait

Waits(i) == WaitsForMessage(i) \/ WaitsForMaster(i)

\* Mutant: a denial counts only while the question is open.
RefusedWhileAsked(i) ==
    x_challenges[i].bCanConnect = -1 /\ x_challenges[i].bAuthRequested

RefusedByMaster(i) == x_challenges[i].bCanConnect = -1

\* What a connect does to slot i and to the master; admitted says that it goes
\* on to look for a client slot.
Processed(i, admitted) ==
    LET x == x_challenges[i]
        n == challenges[i].number
    IN  /\ x_challenges' = [x_challenges EXCEPT ![i] =
                IF Waits(i) THEN Asked(x)
                ELSE [Asked(x) EXCEPT !.bAuthRequested = FALSE]]
        /\ master' = IF Asks(x) /\ master[n] = "unasked"
                     THEN [master EXCEPT ![n] = "asked"] ELSE master
        /\ challenges' = IF admitted
                         THEN [challenges EXCEPT ![i].connected = TRUE]
                         ELSE challenges
        /\ UNCHANGED <<issued, phase>>

------------------------------------------------------------------------------
(* Time *)

\* Whether this tick begins a second of time(NULL).
NewSecond == phase = TicksPerSecond - 1

ChallengesTick ==
    /\ phase' = (phase + 1) % TicksPerSecond
    /\ challenges' = [i \in Challenge |->
            [challenges[i] EXCEPT !.pingAge = AtMost(AuthWait, @ + 1)]]
    /\ x_challenges' = [i \in Challenge |->
            [x_challenges[i] EXCEPT !.msgAge =
                IF @ # Unset /\ NewSecond THEN AtMost(MsgWait, @ + 1) ELSE @]]
    /\ UNCHANGED <<issued, master>>
==============================================================================
