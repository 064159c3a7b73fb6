--------------------------- MODULE ConnectProofs ---------------------------
(***************************************************************************)
(* Theorems about Connect, for any numbers of challenge slots and client   *)
(* slots, any waits and any clients.                                       *)
(***************************************************************************)
EXTENDS Connect, FiniteSetTheorems, WellFoundedInduction, TLAPS

\* A nonempty set of numbers has a least one.
LEMMA LeastOf ==
    ASSUME NEW S \in SUBSET Nat, S # {}
    PROVE  \E i \in S : \A j \in S : i <= j
  <1>1. PICK i \in S : \A j \in S : <<j, i>> \notin OpToRel(<, Nat)
    BY WFMin, NatLessThanWellFounded, Zenon
  <1>2. \A j \in S : ~(j < i)
    BY <1>1, Zenon DEF OpToRel
  <1> QED
    BY <1>2

\* Challenge slots are numbered.
LEMMA ChallengesAreNumbers == Challenge \subseteq Nat
  <1>1. Cardinality(Challenge) \in Nat
    BY ChallengeAssumption, FS_CardinalityType
  <1> QED
    BY <1>1, ChallengeAssumption

\* The oldest of some challenges is one of them.
LEMMA OldestIsOne ==
    ASSUME NEW S \in SUBSET Challenge, S # {}
    PROVE  Oldest(S) \in S
  <1>1. \E i \in S : \A j \in S : i <= j
    BY LeastOf, ChallengesAreNumbers
  <1> QED
    BY <1>1, Zenon DEF Oldest

\* The first of some client slots is one of them and has none before it.
LEMMA FirstIsFirst ==
    ASSUME NEW S \in SUBSET ClientNum, S # {}
    PROVE  First(S) \in S /\ \A j \in S : First(S) <= j
  <1>1. ClientNum \subseteq Nat
    BY ClientNumbersAssumption DEF ClientNum
  <1>2. \E i \in S : \A j \in S : i <= j
    BY <1>1, LeastOf
  <1> QED
    BY <1>2, Zenon DEF First

------------------------------------------------------------------------------
(* The challenge table *)

ChallengeRecord ==
    [number : 0..MaxNumber, adr : Endpoint \cup {Nobody}, connected : BOOLEAN,
     pingAge : 0..AuthWait]

XChallengeRecord ==
    [bCanConnect : {-1, 0, 1}, bAuthRequested : BOOLEAN,
     msgAge : {Unset} \cup (0..MsgWait), mUID : Player \cup {NoMUID}]

ChallengesTypeOK ==
    /\ challenges \in [Challenge -> ChallengeRecord]
    /\ x_challenges \in [Challenge -> XChallengeRecord]
    /\ issued \in 0..MaxNumber
    /\ master \in [Number -> {"unasked", "asked", "allow", "deny"}]
    /\ phase \in 0..(TicksPerSecond - 1)

\* No number is in two slots, and the numbers to come have not been asked about.
NumbersOnce ==
    /\ \A i, j \in Challenge :
            challenges[i].number = challenges[j].number /\ challenges[i].number # 0 => i = j
    /\ \A i \in Challenge : challenges[i].number <= issued
    /\ \A i \in Challenge : challenges[i].number # 0 => challenges[i].adr \in Endpoint
    /\ \A n \in Number : n > issued => master[n] = "unasked"

\* A slot refuses exactly if the master has denied the number that is in it, and
\* while a question is open the slot has no mUID.
AnswersAreOwn ==
    \A i \in Challenge :
        /\ x_challenges[i].bCanConnect = -1
            <=> challenges[i].number # 0 /\ master[challenges[i].number] = "deny"
        /\ challenges[i].number # 0 /\ master[challenges[i].number] = "asked"
            => x_challenges[i].mUID = NoMUID

ChallengeInv == ChallengesTypeOK /\ NumbersOnce /\ AnswersAreOwn

\* The invariant of the challenges holds at first.
LEMMA ChallengesInitInv == Init => ChallengeInv
  <1> SUFFICES ASSUME Init PROVE ChallengeInv
    OBVIOUS
  <1>1. /\ challenges = [i \in Challenge |-> FreeChallenge]
        /\ x_challenges = [i \in Challenge |-> FreshXChallenge]
        /\ issued = 0 /\ phase = 0
        /\ master = [n \in Number |-> "unasked"]
    BY DEF Init, ChallengesInit
  <1>2. ChallengesTypeOK
    BY <1>1, ChallengeAssumption
      
          DEF ChallengesTypeOK, ChallengeRecord, XChallengeRecord, FreeChallenge,
              FreshXChallenge, Unset, NoMUID
  <1>3. NumbersOnce
    BY <1>1, ChallengeAssumption DEF NumbersOnce, FreeChallenge, Number
  <1>4. AnswersAreOwn
    BY <1>1 DEF AnswersAreOwn, FreeChallenge, FreshXChallenge
  <1> QED
    BY <1>2, <1>3, <1>4 DEF ChallengeInv

\* The challenge of e is sent again, with a new time.
LEMMA SentAgain ==
    ASSUME ChallengeInv, NEW i \in Challenge,
           challenges' = [challenges EXCEPT ![i] = Stamped(@)],
           UNCHANGED <<x_challenges, issued, master, phase>>
    PROVE  ChallengeInv'
  <1>1. \A j \in Challenge : challenges'[j].number = challenges[j].number
                             /\ challenges'[j].adr = challenges[j].adr
    BY DEF ChallengeInv, ChallengesTypeOK, ChallengeRecord, XChallengeRecord, Stamped
  <1>2. ChallengesTypeOK'
    <2>1. challenges' = [challenges EXCEPT ![i].pingAge = 0]
      BY DEF ChallengeInv, ChallengesTypeOK, ChallengeRecord, XChallengeRecord, Stamped
    <2>2. 0 \in 0..AuthWait
      BY ChallengeAssumption
    <2> QED
      BY <2>1, <2>2
         DEF ChallengeInv, ChallengesTypeOK, ChallengeRecord, XChallengeRecord
  <1>3. NumbersOnce' /\ AnswersAreOwn'
    BY <1>1 DEF ChallengeInv, NumbersOnce, AnswersAreOwn
  <1> QED
    BY <1>2, <1>3 DEF ChallengeInv

Given(e) == [number |-> issued + 1, adr |-> e, connected |-> FALSE, pingAge |-> 0]

\* A record that is given to an address has nothing of its last owner.
LEMMA GivenRecord ==
    ASSUME NEW c \in ChallengeRecord, NEW n, NEW e, NEW b
    PROVE  Stamped([c EXCEPT !.number = n, !.adr = e, !.connected = b])
           = [number |-> n, adr |-> e, connected |-> b, pingAge |-> 0]
  <1> DEFINE c1 == [c EXCEPT !.number = n]
             c2 == [c1 EXCEPT !.adr = e]
             c3 == [c2 EXCEPT !.connected = b]
             c4 == [c3 EXCEPT !.pingAge = 0]
  <1>1. c1 = [number |-> n, adr |-> c.adr, connected |-> c.connected, pingAge |-> c.pingAge]
    BY DEF ChallengeRecord
  <1> HIDE DEF c1
  <1>2. c2 = [number |-> n, adr |-> e, connected |-> c1.connected, pingAge |-> c1.pingAge]
    BY <1>1
  <1> HIDE DEF c2
  <1>3. c3 = [number |-> n, adr |-> e, connected |-> b, pingAge |-> c2.pingAge]
    BY <1>2
  <1> HIDE DEF c3
  <1>4. c4 = [number |-> n, adr |-> e, connected |-> b, pingAge |-> 0]
    BY <1>3
  <1>5. c4 = Stamped([c EXCEPT !.number = n, !.adr = e, !.connected = b])
    BY Zenon DEF Stamped, c1, c2, c3
  <1> QED
    BY <1>4, <1>5, Zenon

\* It is a record of the table.
LEMMA GivenType ==
    ASSUME NEW n \in 0..MaxNumber, NEW e \in Endpoint, NEW b \in BOOLEAN
    PROVE  [number |-> n, adr |-> e, connected |-> b, pingAge |-> 0] \in ChallengeRecord
  <1>1. 0 \in 0..AuthWait
    BY ChallengeAssumption
  <1> QED
    BY <1>1 DEF ChallengeRecord

\* What CoDExtended keeps of a challenge loses its answer with its owner.
LEMMA ReissuedRecord ==
    ASSUME NEW x \in XChallengeRecord
    PROVE  Reissued(x) \in XChallengeRecord /\ Reissued(x).bCanConnect = 0
  <1>1. FreshXChallenge.bCanConnect = 0 /\ FreshXChallenge \in XChallengeRecord
    BY DEF FreshXChallenge, XChallengeRecord, NoMUID, Unset
  <1> HIDE DEF FreshXChallenge
  <1> QED
    BY <1>1 DEF Reissued, XChallengeRecord

\* A slot is given away: nothing the master has said of the last number counts
\* for the new one.
LEMMA GivenAway ==
    ASSUME ChallengeInv, NEW e \in Endpoint, NEW i \in Challenge, issued < MaxNumber,
           issued' = issued + 1,
           challenges' = [challenges EXCEPT ![i] = Given(e)],
           x_challenges' = [x_challenges EXCEPT ![i] = Reissued(x_challenges[i])],
           UNCHANGED <<master, phase>>
    PROVE  ChallengeInv'
  <1>1. issued \in 0..MaxNumber /\ issued + 1 \in Number /\ MaxNumber \in Nat
    BY ChallengeAssumption DEF ChallengeInv, ChallengesTypeOK, Number
  <1>2. /\ Given(e) \in ChallengeRecord
        /\ Given(e).number = issued + 1 /\ Given(e).adr = e
    <2>1. issued + 1 \in 0..MaxNumber
      BY <1>1 DEF Number
    <2>2. [number |-> issued + 1, adr |-> e, connected |-> FALSE, pingAge |-> 0]
          \in ChallengeRecord
      BY <2>1, GivenType, Zenon
    <2> QED
      BY <2>2 DEF Given
  <1>3. /\ Reissued(x_challenges[i]) \in XChallengeRecord
        /\ Reissued(x_challenges[i]).bCanConnect = 0
    BY ReissuedRecord DEF ChallengeInv, ChallengesTypeOK
  <1>4. \A j \in Challenge \ {i} : challenges'[j] = challenges[j]
                                   /\ x_challenges'[j] = x_challenges[j]
    BY DEF ChallengeInv, ChallengesTypeOK, ChallengeRecord, XChallengeRecord
  <1>5. ChallengesTypeOK'
    BY <1>1, <1>2, <1>3 DEF ChallengeInv, ChallengesTypeOK
  <1>6. NumbersOnce'
    <2>1. \A j \in Challenge : challenges[j].number \in 0..issued
      BY <1>1
         DEF ChallengeInv, ChallengesTypeOK, ChallengeRecord, XChallengeRecord,
             NumbersOnce
    <2>2. challenges'[i].number = issued + 1 /\ challenges'[i].adr = e
      BY <1>2 DEF ChallengeInv, ChallengesTypeOK
    <2> QED
      <3>1. \A j \in Challenge : challenges'[j].number = IF j = i THEN issued + 1
                                                        ELSE challenges[j].number
        BY <1>4, <2>2
      <3>2. \A j, k \in Challenge :
                challenges'[j].number = challenges'[k].number /\ challenges'[j].number # 0 => j = k
        BY <1>1, <2>1, <3>1 DEF ChallengeInv, NumbersOnce
      <3>3. \A j \in Challenge : challenges'[j].number <= issued'
        BY <1>1, <2>1, <3>1
      <3>4. \A j \in Challenge : challenges'[j].number # 0 => challenges'[j].adr \in Endpoint
        BY <1>4, <2>2 DEF ChallengeInv, NumbersOnce
      <3>5. \A n \in Number : n > issued' => master'[n] = "unasked"
        BY <1>1 DEF ChallengeInv, NumbersOnce, Number
      <3> QED
        BY <3>2, <3>3, <3>4, <3>5 DEF NumbersOnce
  <1>7. AnswersAreOwn'
    <2>1. master[issued + 1] = "unasked"
      BY <1>1 DEF ChallengeInv, NumbersOnce
    <2>2. x_challenges'[i].bCanConnect = 0 /\ challenges'[i].number = issued + 1
      BY <1>2, <1>3 DEF ChallengeInv, ChallengesTypeOK
    <2> SUFFICES ASSUME NEW j \in Challenge
                 PROVE  /\ x_challenges'[j].bCanConnect = -1
                            <=> challenges'[j].number # 0 /\ master[challenges'[j].number] = "deny"
                        /\ challenges'[j].number # 0 /\ master[challenges'[j].number] = "asked"
                            => x_challenges'[j].mUID = NoMUID
      BY DEF AnswersAreOwn
    <2>3. CASE j = i
      BY <2>1, <2>2, <2>3
    <2>4. CASE j # i
      BY <1>4, <2>4 DEF ChallengeInv, AnswersAreOwn
    <2> QED
      BY <2>3, <2>4
  <1> QED
    BY <1>5, <1>6, <1>7 DEF ChallengeInv

\* A request for a challenge: a new slot, the oldest one or the one it has.
LEMMA GetChallengeKeeps ==
    ASSUME ChallengeInv, NEW e \in Endpoint, SV_GetChallenge(e)
    PROVE  ChallengeInv'
  <1>1. CASE OpenFor(e) # {}
    <2>1. Oldest(OpenFor(e)) \in Challenge
      BY <1>1, OldestIsOne DEF OpenFor
    <2> QED
      BY <1>1, <2>1, SentAgain DEF SV_GetChallenge
  <1>2. CASE OpenFor(e) = {}
    <2>1. OldestChallenge \in Challenge
      <3> DEFINE numbers == {challenges[i].number : i \in Challenge}
      <3>1. numbers \in SUBSET Nat /\ numbers # {}
        BY ChallengeAssumption
           DEF ChallengeInv, ChallengesTypeOK, ChallengeRecord, XChallengeRecord
      <3>2. \E i \in Challenge : \A j \in Challenge : challenges[i].number <= challenges[j].number
        <4>1. PICK n \in numbers : \A k \in numbers : n <= k
          BY <3>1, LeastOf
        <4> QED
          BY <4>1
      <3> QED
        BY <3>2, OldestIsOne DEF OldestChallenge
    <2>2. /\ issued < MaxNumber /\ issued' = issued + 1
          /\ challenges' = [challenges EXCEPT ![OldestChallenge] =
                Stamped([@ EXCEPT !.number = issued + 1, !.adr = e, !.connected = FALSE])]
          /\ x_challenges' = [x_challenges EXCEPT ![OldestChallenge] = Reissued(@)]
          /\ UNCHANGED <<master, phase>>
      BY <1>2, Zenon DEF SV_GetChallenge
    <2>3. Stamped([challenges[OldestChallenge] EXCEPT
                        !.number = issued + 1, !.adr = e, !.connected = FALSE]) = Given(e)
      <3>1. challenges[OldestChallenge] \in ChallengeRecord
        BY <2>1 DEF ChallengeInv, ChallengesTypeOK
      <3> QED
        BY <3>1, GivenRecord, Zenon DEF Given
    <2> QED
      BY <2>1, <2>2, <2>3, GivenAway, Zenon
  <1> QED
    BY <1>1, <1>2

\* An answer reaches the one slot that has the number, if there is any.
LEMMA AnswerKeeps ==
    ASSUME ChallengeInv, NEW n \in Number, NEW answer \in Answers, SV_XAuthorize(n, answer)
    PROVE  ChallengeInv'
  <1>1. CASE Answered(n) = {}
    BY <1>1
       DEF SV_XAuthorize, ChallengeInv, ChallengesTypeOK, ChallengeRecord,
           XChallengeRecord, NumbersOnce, AnswersAreOwn
  <1>2. CASE Answered(n) # {}
    <2> DEFINE i == Oldest(Answered(n))
    <2>1. i \in Challenge /\ challenges[i].number = n /\ n # 0 /\ n \in 1..MaxNumber
      <3>1. Answered(n) \in SUBSET Challenge
        BY Zenon DEF Answered, SlotsOf
      <3>2. i \in Answered(n)
        BY <1>2, <3>1, OldestIsOne, Zenon
      <3>3. i \in Challenge /\ challenges[i].number = n
        BY <3>2, Zenon DEF Answered, SlotsOf
      <3>4. n # 0 /\ n \in 1..MaxNumber
        BY ChallengeAssumption DEF Number
      <3> QED
        BY <3>3, <3>4
    <2>2. challenges[i].adr \in Endpoint /\ MUIDOf[challenges[i].adr] \in Player
      BY <2>1, EndpointAssumption DEF ChallengeInv, NumbersOnce
    <2>3. /\ x_challenges' = [x_challenges EXCEPT ![i] =
                AfterAnswer(@, answer, challenges[i].adr)]
          /\ master' = IF answer = "noMUID" THEN master ELSE [master EXCEPT ![n] = answer]
          /\ UNCHANGED <<challenges, issued, phase>>
      BY <1>2 DEF SV_XAuthorize
    <2>4. n <= issued /\ \A j \in Challenge \ {i} : challenges[j].number # n
      BY <2>1 DEF ChallengeInv, NumbersOnce
    <2> HIDE DEF i
    <2>5. /\ x_challenges'[i].bCanConnect = CASE answer = "deny" -> -1 [] answer = "allow" -> 1
                [] answer = "noMUID" -> x_challenges[i].bCanConnect
          /\ x_challenges'[i].mUID = IF answer = "allow" THEN MUIDOf[challenges[i].adr]
                                     ELSE x_challenges[i].mUID
          /\ \A j \in Challenge \ {i} : x_challenges'[j] = x_challenges[j]
      BY <2>1, <2>3
         DEF ChallengeInv, ChallengesTypeOK, ChallengeRecord, XChallengeRecord,
             AfterAnswer
    <2>6. ChallengesTypeOK'
      <3>1. x_challenges'[i] \in XChallengeRecord
        BY <2>1, <2>2, <2>3
           DEF ChallengeInv, ChallengesTypeOK, ChallengeRecord, XChallengeRecord,
               AfterAnswer, Answers
      <3>2. x_challenges' = [x_challenges EXCEPT ![i] = x_challenges'[i]]
        BY <2>1, <2>3
           DEF ChallengeInv, ChallengesTypeOK, ChallengeRecord, XChallengeRecord
      <3>3. master' \in [Number -> {"unasked", "asked", "allow", "deny"}]
        BY <2>3
           DEF ChallengeInv, ChallengesTypeOK, ChallengeRecord, XChallengeRecord,
               Answers
      <3> QED
        BY <2>1, <2>3, <3>1, <3>2, <3>3
           DEF ChallengeInv, ChallengesTypeOK, ChallengeRecord, XChallengeRecord
    <2>7. NumbersOnce'
      BY <2>3, <2>4, ChallengeAssumption 
         DEF ChallengeInv, ChallengesTypeOK, ChallengeRecord, NumbersOnce, Number
    <2>8. AnswersAreOwn'
      <3> SUFFICES ASSUME NEW j \in Challenge
                   PROVE  /\ x_challenges'[j].bCanConnect = -1
                                <=> /\ challenges[j].number # 0
                                    /\ master'[challenges[j].number] = "deny"
                          /\ challenges[j].number # 0 /\ master'[challenges[j].number] = "asked"
                                => x_challenges'[j].mUID = NoMUID
        BY <2>3 DEF AnswersAreOwn
      <3>1. CASE j = i
        BY <3>1, <2>1, <2>3, <2>5
           DEF ChallengeInv, ChallengesTypeOK, ChallengeRecord, XChallengeRecord,
               AnswersAreOwn, Answers, Number
      <3>2. CASE j # i
        BY <3>2, <2>3, <2>4, <2>5
           DEF ChallengeInv, ChallengesTypeOK, ChallengeRecord, XChallengeRecord,
               AnswersAreOwn
      <3> QED
        BY <3>1, <3>2
    <2> QED
      BY <2>6, <2>7, <2>8 DEF ChallengeInv
  <1> QED
    BY <1>1, <1>2

\* A connect asks the master, or notes that it need not wait.
LEMMA ProcessedKeeps ==
    ASSUME ChallengeInv, NEW i \in Challenge, challenges[i].number # 0,
           NEW admitted \in BOOLEAN, Processed(i, admitted)
    PROVE  ChallengeInv'
  <1> DEFINE x == x_challenges[i]
             n == challenges[i].number
  <1>1. n \in Number /\ n <= issued /\ issued \in 0..MaxNumber
    BY ChallengeAssumption 
         DEF ChallengeInv, ChallengesTypeOK, ChallengeRecord, NumbersOnce, Number
  <1>2. /\ x_challenges' = [x_challenges EXCEPT ![i] =
                IF Waits(i) THEN Asked(x) ELSE [Asked(x) EXCEPT !.bAuthRequested = FALSE]]
        /\ master' = IF Asks(x) /\ master[n] = "unasked"
                     THEN [master EXCEPT ![n] = "asked"] ELSE master
        /\ challenges' = IF admitted THEN [challenges EXCEPT ![i].connected = TRUE] ELSE challenges
        /\ UNCHANGED <<issued, phase>>
    BY DEF Processed
  <1>3. \A j \in Challenge : challenges'[j].number = challenges[j].number
                             /\ challenges'[j].adr = challenges[j].adr
    BY <1>2 DEF ChallengeInv, ChallengesTypeOK, ChallengeRecord, XChallengeRecord
  <1>4. /\ x_challenges'[i].bCanConnect = x.bCanConnect
        /\ x_challenges'[i].mUID = x.mUID
        /\ \A j \in Challenge \ {i} : x_challenges'[j] = x_challenges[j]
    BY <1>2 DEF ChallengeInv, ChallengesTypeOK, ChallengeRecord, XChallengeRecord, Asked
  <1>5. ChallengesTypeOK'
    <2>1. challenges' \in [Challenge -> ChallengeRecord]
      BY <1>2 DEF ChallengeInv, ChallengesTypeOK, ChallengeRecord, XChallengeRecord
    <2>2. Asked(x) \in XChallengeRecord
      <3>1. (x.bAuthRequested \/ Asks(x)) \in BOOLEAN
        OBVIOUS
      <3>2. 0 \in 0..MsgWait
        BY ChallengeAssumption
      <3> QED
        BY <3>1, <3>2
           DEF ChallengeInv, ChallengesTypeOK, ChallengeRecord, XChallengeRecord,
               Asked
    <2>3. x_challenges' \in [Challenge -> XChallengeRecord]
      BY <1>2, <2>2
         DEF ChallengeInv, ChallengesTypeOK, ChallengeRecord, XChallengeRecord
    <2>4. master' \in [Number -> {"unasked", "asked", "allow", "deny"}]
      BY <1>2 DEF ChallengeInv, ChallengesTypeOK, ChallengeRecord, XChallengeRecord
    <2> QED
      BY <1>2, <2>1, <2>3, <2>4
         DEF ChallengeInv, ChallengesTypeOK, ChallengeRecord, XChallengeRecord
  <1>6. \A k \in Number : master'[k] # master[k] =>
            k = n /\ Asks(x) /\ master[k] = "unasked" /\ master'[k] = "asked"
    BY <1>1, <1>2 DEF ChallengeInv, ChallengesTypeOK, ChallengeRecord, XChallengeRecord
  <1>7. NumbersOnce'
    BY <1>1, <1>2, <1>3, <1>6, ChallengeAssumption DEF ChallengeInv, NumbersOnce, Number
  <1>8. AnswersAreOwn'
    <2> SUFFICES ASSUME NEW j \in Challenge
                 PROVE  /\ x_challenges'[j].bCanConnect = -1
                            <=> challenges[j].number # 0 /\ master'[challenges[j].number] = "deny"
                        /\ challenges[j].number # 0 /\ master'[challenges[j].number] = "asked"
                            => x_challenges'[j].mUID = NoMUID
      BY <1>3 DEF AnswersAreOwn
    <2>1. /\ x_challenges'[j].bCanConnect = x_challenges[j].bCanConnect
          /\ x_challenges'[j].mUID = x_challenges[j].mUID
      BY <1>4
    <2>2. CASE /\ challenges[j].number # 0
               /\ master'[challenges[j].number] # master[challenges[j].number]
      <3>1. challenges[j].number \in Number
        BY <2>2
           DEF ChallengeInv, ChallengesTypeOK, ChallengeRecord, XChallengeRecord,
               Number
      <3>2. j = i /\ x.mUID = NoMUID
        BY <1>6, <2>2, <3>1 DEF Asks, ChallengeInv, NumbersOnce
      <3> QED
        BY <1>6, <2>1, <2>2, <3>1, <3>2 DEF ChallengeInv, AnswersAreOwn
    <2>3. CASE \/ challenges[j].number = 0
               \/ master'[challenges[j].number] = master[challenges[j].number]
      BY <2>1, <2>3 DEF ChallengeInv, AnswersAreOwn
    <2> QED
      BY <2>2, <2>3
  <1> QED
    BY <1>5, <1>7, <1>8 DEF ChallengeInv

\* Time passes.
LEMMA ChallengesTickKeeps == ChallengeInv /\ ChallengesTick => ChallengeInv'
  <1> SUFFICES ASSUME ChallengeInv, ChallengesTick PROVE ChallengeInv'
    OBVIOUS
  <1>1. \A i \in Challenge :
            /\ challenges'[i].number = challenges[i].number
            /\ challenges'[i].adr = challenges[i].adr
            /\ x_challenges'[i].bCanConnect = x_challenges[i].bCanConnect
            /\ x_challenges'[i].mUID = x_challenges[i].mUID
    BY DEF ChallengeInv, ChallengesTypeOK, ChallengeRecord, XChallengeRecord,
           ChallengesTick
  <1>2. issued' = issued /\ master' = master
    BY DEF ChallengesTick
  <1>3. ChallengesTypeOK'
    <2>1. \A age \in 0..AuthWait : AtMost(AuthWait, age + 1) \in 0..AuthWait
      BY ChallengeAssumption DEF AtMost
    <2>2. \A age \in 0..MsgWait : AtMost(MsgWait, age + 1) \in 0..MsgWait
      BY ChallengeAssumption DEF AtMost
    <2>3. challenges' \in [Challenge -> ChallengeRecord]
      BY <2>1
         DEF ChallengeInv, ChallengesTypeOK, ChallengeRecord, XChallengeRecord,
             ChallengesTick
    <2>4. x_challenges' \in [Challenge -> XChallengeRecord]
      BY <2>2
         DEF ChallengeInv, ChallengesTypeOK, ChallengeRecord, XChallengeRecord,
             ChallengesTick
    <2>5. phase' \in 0..(TicksPerSecond - 1)
      BY ChallengeAssumption
         DEF ChallengeInv, ChallengesTypeOK, ChallengeRecord, XChallengeRecord,
             ChallengesTick
    <2> QED
      BY <1>2, <2>3, <2>4, <2>5
         DEF ChallengeInv, ChallengesTypeOK, ChallengeRecord, XChallengeRecord
  <1>4. NumbersOnce' /\ AnswersAreOwn'
    BY <1>1, <1>2 DEF ChallengeInv, NumbersOnce, AnswersAreOwn
  <1> QED
    BY <1>3, <1>4 DEF ChallengeInv

\* A connect, or its end, marks a challenge and nothing else of the table.
LEMMA ConnectedKeeps ==
    ASSUME ChallengeInv, NEW i \in Challenge, NEW b \in BOOLEAN,
           challenges' = [challenges EXCEPT ![i].connected = b],
           UNCHANGED <<x_challenges, issued, master, phase>>
    PROVE  ChallengeInv'
  <1>1. \A j \in Challenge : challenges'[j].number = challenges[j].number
                             /\ challenges'[j].adr = challenges[j].adr
    BY DEF ChallengeInv, ChallengesTypeOK, ChallengeRecord
  <1>2. ChallengesTypeOK'
    BY DEF ChallengeInv, ChallengesTypeOK, ChallengeRecord
  <1>3. NumbersOnce' /\ AnswersAreOwn'
    BY <1>1 DEF ChallengeInv, NumbersOnce, AnswersAreOwn
  <1> QED
    BY <1>2, <1>3 DEF ChallengeInv

------------------------------------------------------------------------------
(* What a connect comes to *)

\* What each verdict on a connect says about the challenge and the slots.
LEMMA VerdictMeans ==
    ASSUME NEW e, NEW i, NEW knowsPassword, NEW goodName, NEW denied,
           NEW v, v = Verdict(e, i, knowsPassword, goodName, denied)
    PROVE  /\ v \in Verdicts
           /\ v \in Admitted => ~Waits(i) /\ ~RefusedByMaster(i)
           /\ v = "refused" => RefusedByMaster(i)
           /\ v \in {"denied", "joined"} => SlotsFor(e, knowsPassword) # {}
  <1>1. Admission(e, knowsPassword, denied) \in {"full", "denied", "joined"}
        /\ (Admission(e, knowsPassword, denied) \in {"denied", "joined"}
            => SlotsFor(e, knowsPassword) # {})
    BY DEF Admission
  <1>2. CASE WaitsForMessage(i)
    <2>1. v = "message"
      BY <1>2 DEF Verdict, Waits
    <2> QED
      BY <2>1 DEF Verdicts, Admitted
  <1>3. CASE ~WaitsForMessage(i) /\ WaitsForMaster(i)
    <2>1. v = "asksMaster"
      BY <1>3 DEF Verdict, Waits
    <2> QED
      BY <2>1 DEF Verdicts, Admitted
  <1>4. CASE ~Waits(i) /\ RefusedByMaster(i)
    <2>1. v = "refused"
      BY <1>4 DEF Verdict, Waits
    <2> QED
      BY <1>4, <2>1 DEF Verdicts, Admitted
  <1>5. CASE ~Waits(i) /\ ~RefusedByMaster(i)
    <2>1. v = IF x_challenges[i].mUID \in BannedMUID THEN "mUIDBanned"
              ELSE IF ~goodName THEN "badName"
              ELSE Admission(e, knowsPassword, denied)
      BY <1>5 DEF Verdict, Waits
    <2> QED
      BY <1>1, <1>5, <2>1 DEF Verdicts, Admitted
  <1> QED
    BY <1>2, <1>3, <1>4, <1>5 DEF Waits

\* The slot a connect is about is the only one with its number.
LEMMA HeldOnce ==
    ASSUME ChallengeInv, NEW e \in Endpoint, NEW n \in Number, Holds(e, n) # {}
    PROVE  /\ Oldest(Holds(e, n)) \in Challenge
           /\ challenges[Oldest(Holds(e, n))].number = n
           /\ SlotsOf(n) = {Oldest(Holds(e, n))}
  <1>1. Oldest(Holds(e, n)) \in Holds(e, n)
    BY OldestIsOne DEF Holds, SlotsOf
  <1>2. n # 0
    BY ChallengeAssumption DEF Number
  <1>3. Oldest(Holds(e, n)) \in SlotsOf(n)
    BY <1>1 DEF Holds
  <1>4. Oldest(Holds(e, n)) \in Challenge /\ challenges[Oldest(Holds(e, n))].number = n
    BY <1>3 DEF SlotsOf
  <1>5. \A j \in Challenge : challenges[j].number = n => j = Oldest(Holds(e, n))
    BY <1>2, <1>4 DEF ChallengeInv, NumbersOnce
  <1> QED
    BY <1>3, <1>4, <1>5 DEF SlotsOf

\* Every step keeps the invariant of the challenges.
LEMMA ChallengesNext == ChallengeInv /\ [Next]_vars => ChallengeInv'
  <1> SUFFICES ASSUME ChallengeInv, [Next]_vars PROVE ChallengeInv'
    OBVIOUS
  <1>1. ASSUME NEW e \in Endpoint, GetChallenge(e) PROVE ChallengeInv'
    BY <1>1, GetChallengeKeeps DEF GetChallenge
  <1>2. ASSUME NEW n \in Number, NEW answer \in Answers, XAuthorize(n, answer)
        PROVE  ChallengeInv'
    BY <1>2, AnswerKeeps DEF XAuthorize
  <1>3. ASSUME NEW e \in Endpoint, NEW n \in Number, DirectConnect(e, n)
        PROVE  ChallengeInv'
    <2>1. ASSUME NEW knowsPassword \in BOOLEAN, NEW goodName \in BOOLEAN, NEW denied \in BOOLEAN,
                 ProcessConnect(e, n, knowsPassword, goodName, denied)
          PROVE  ChallengeInv'
      <3> DEFINE i == Oldest(Holds(e, n))
                 admitted == Verdict(e, i, knowsPassword, goodName, denied) \in Admitted
      <3>1. Holds(e, n) # {} /\ Processed(i, admitted)
        BY <2>1, Zenon DEF ProcessConnect
      <3>2. i \in Challenge /\ challenges[i].number # 0
        BY <3>1, HeldOnce, ChallengeAssumption DEF Number
      <3>3. admitted \in BOOLEAN
        OBVIOUS
      <3> HIDE DEF i, admitted
      <3> QED
        BY <3>1, <3>2, <3>3, ProcessedKeeps
    <2>2. ASSUME NEW ipBanned \in BOOLEAN, RejectConnect(e, n, ipBanned)
          PROVE  ChallengeInv'
      <3>1. UNCHANGED challengeVars
        BY <2>2 DEF RejectConnect
      <3> QED
        BY <3>1
           DEF challengeVars, ChallengeInv, ChallengesTypeOK, NumbersOnce,
               AnswersAreOwn
    <2> QED
      BY <1>3, <2>1, <2>2, Zenon DEF DirectConnect
  <1>4. ASSUME UNCHANGED challengeVars PROVE ChallengeInv'
    BY <1>4
       DEF challengeVars, ChallengeInv, ChallengesTypeOK, NumbersOnce, AnswersAreOwn
  <1>5. ASSUME NEW i \in ClientNum, DropClient(i) PROVE ChallengeInv'
    <2>1. CASE UNCHANGED challenges
      BY <1>4, <1>5, <2>1 DEF DropClient, challengeVars
    <2>2. ASSUME NEW j \in Challenge, challenges' = [challenges EXCEPT ![j].connected = FALSE]
          PROVE  ChallengeInv'
      <3>1. UNCHANGED <<x_challenges, issued, master, phase>> /\ FALSE \in BOOLEAN
        BY <1>5, Zenon DEF DropClient
      <3> QED
        BY <2>2, <3>1, ConnectedKeeps, Zenon
    <2> QED
      BY <1>5, <2>1, <2>2, Zenon DEF DropClient
  <1>6. ASSUME NEW i \in ClientNum, CheckTimeouts(i) PROVE ChallengeInv'
    BY <1>4, <1>6 DEF CheckTimeouts
  <1>7. ASSUME NEW denied \in BOOLEAN, BotConnect(denied) PROVE ChallengeInv'
    BY <1>4, <1>7 DEF BotConnect
  <1>8. CASE Tick
    BY <1>8, ChallengesTickKeeps DEF Tick
  <1>9. CASE UNCHANGED vars
    BY <1>4, <1>9 DEF vars
  <1> QED
    BY <1>1, <1>2, <1>3, <1>5, <1>6, <1>7, <1>8, <1>9, Zenon DEF Next

\* It always holds.
LEMMA ChallengesSafe == Spec => []ChallengeInv
  BY ChallengesInitInv, ChallengesNext, PTL DEF Spec

------------------------------------------------------------------------------
(* What the master has said *)

\* What a connect may report about a number: it was denied if it is refused for
\* it, and if it is admitted it was not, and whatever was asked is due.
Justified(n, v) ==
    /\ v = "refused" => master[n] = "deny"
    /\ v \in Admitted => /\ master[n] # "deny"
                         /\ master[n] = "asked" =>
                                \A i \in SlotsOf(n) : challenges[i].pingAge = AuthWait

\* A connect has the outcome that its own challenge justifies.
LEMMA ConnectJustified ==
    ASSUME ChallengeInv, NEW e \in Endpoint, NEW n \in Number,
           NEW knowsPassword, NEW goodName, NEW denied,
           ProcessConnect(e, n, knowsPassword, goodName, denied)
    PROVE  outcome'.number = n /\ Justified(n, outcome'.verdict)
  <1> DEFINE i == Oldest(Holds(e, n))
             v == Verdict(e, i, knowsPassword, goodName, denied)
  <1>1. Holds(e, n) # {} /\ outcome' = [adr |-> e, number |-> n, verdict |-> v]
    BY Zenon DEF ProcessConnect, Says
  <1>2. i \in Challenge /\ challenges[i].number = n /\ SlotsOf(n) = {i} /\ n # 0
    BY <1>1, HeldOnce, ChallengeAssumption DEF Number
  <1>3. /\ v \in Admitted => ~Waits(i) /\ ~RefusedByMaster(i)
        /\ v = "refused" => RefusedByMaster(i)
    BY VerdictMeans
  <1> HIDE DEF i, v
  <1>4. RefusedByMaster(i) <=> master[n] = "deny"
    BY <1>2 DEF RefusedByMaster, ChallengeInv, AnswersAreOwn
  <1>5. ASSUME ~Waits(i), master[n] = "asked" PROVE challenges[i].pingAge = AuthWait
    <2>1. x_challenges[i].mUID = NoMUID
      BY <1>2, <1>5 DEF ChallengeInv, AnswersAreOwn
    <2>2. Asked(x_challenges[i]).bAuthRequested
      <3>1. Asked(x_challenges[i]).bAuthRequested
            = (x_challenges[i].bAuthRequested \/ Asks(x_challenges[i]))
        BY <1>2 DEF Asked, ChallengeInv, ChallengesTypeOK, XChallengeRecord
      <3>2. x_challenges[i].bAuthRequested \/ Asks(x_challenges[i])
        BY <2>1 DEF Asks
      <3> QED
        BY <3>1, <3>2, Zenon
    <2>3. ~(challenges[i].pingAge < AuthWait)
      BY <1>5, <2>2 DEF Waits, WaitsForMaster
    <2> QED
      BY <1>2, <2>3, ChallengeAssumption
         DEF ChallengeInv, ChallengesTypeOK, ChallengeRecord
  <1>6. Justified(n, v)
    BY <1>2, <1>3, <1>4, <1>5 DEF Justified
  <1> QED
    BY <1>1, <1>6

\* The other steps report no number at all.
LEMMA OthersJustified ==
    ASSUME Next,
           \A e \in Endpoint, n \in Number, knowsPassword, goodName, denied \in BOOLEAN :
                ~ProcessConnect(e, n, knowsPassword, goodName, denied)
    PROVE  \/ outcome'.verdict \notin Admitted \cup {"refused"}
           \/ outcome'.verdict # "refused" /\ outcome'.number \notin Number
  <1> DEFINE Nothing == outcome'.verdict \notin Admitted \cup {"refused"}
  <1>1. ASSUME Quiet PROVE Nothing
    BY <1>1 DEF Quiet, Says, Admitted
  <1>2. ASSUME NEW e \in Endpoint, NEW n \in Number, DirectConnect(e, n) PROVE Nothing
    <2>1. PICK ipBanned \in BOOLEAN : RejectConnect(e, n, ipBanned)
      BY <1>2, Zenon DEF DirectConnect
    <2>2. outcome'.verdict \in {"ipBanned", "tooSoon", "badChallenge"}
      BY <2>1 DEF RejectConnect, Says
    <2> QED
      BY <2>2 DEF Admitted
  <1>3. ASSUME NEW denied \in BOOLEAN, BotConnect(denied)
        PROVE  outcome'.verdict # "refused" /\ outcome'.number \notin Number
    BY <1>3, ChallengeAssumption DEF BotConnect, Says, Admission, Number
  <1> QED
    BY <1>1, <1>2, <1>3, Zenon
       DEF Next, GetChallenge, XAuthorize, DropClient, CheckTimeouts, Tick

\* No other step lets anybody in or refuses him.
LEMMA StepJustified ==
    ASSUME ChallengeInv, Next
    PROVE  /\ outcome'.number \in Number /\ outcome'.verdict \in Admitted \cup {"refused"}
                => Justified(outcome'.number, outcome'.verdict)
           /\ outcome'.verdict = "refused" => outcome'.number \in Number
  <1>1. CASE \E e \in Endpoint, n \in Number, knowsPassword, goodName, denied \in BOOLEAN :
                ProcessConnect(e, n, knowsPassword, goodName, denied)
    BY <1>1, ConnectJustified
  <1>2. CASE ~\E e \in Endpoint, n \in Number, knowsPassword, goodName, denied \in BOOLEAN :
                ProcessConnect(e, n, knowsPassword, goodName, denied)
    BY <1>2, OthersJustified, Zenon
  <1> QED
    BY <1>1, <1>2, Zenon

\* However the packets are ordered, repeated or delayed and however often a slot
\* is given away, the last answer of the master to a challenge number decides
\* whether SV_DirectConnect lets a client in with it.
THEOREM DenialsHold == Spec => DeniedStaysOut
  <1>1. ChallengeInv /\ Next => (outcome'.verdict = "joined" /\ outcome'.number \in Number
                                    => master[outcome'.number] # "deny")
    BY StepJustified DEF Justified, Admitted
  <1> QED
    BY <1>1, ChallengesSafe, PTL DEF Spec, DeniedStaysOut

\* SV_DirectConnect disconnects nobody for an answer about another number.
THEOREM RefusalsHold == Spec => RefusalsAreOwn
  <1>1. ChallengeInv /\ Next => (outcome'.verdict = "refused"
                                    => master[outcome'.number] = "deny")
    BY StepJustified DEF Justified
  <1> QED
    BY <1>1, ChallengesSafe, PTL DEF Spec, RefusalsAreOwn

\* Nobody gets in while the master is being asked, before the wait is over.
THEOREM AdmissionsHold == Spec => AdmissionIsDue
  <1>1. ChallengeInv /\ Next =>
            (outcome'.verdict \in Admitted /\ outcome'.number \in Number
                => \/ master[outcome'.number] # "asked"
                   \/ \A i \in SlotsOf(outcome'.number) : challenges[i].pingAge = AuthWait)
    BY StepJustified DEF Justified
  <1> QED
    BY <1>1, ChallengesSafe, PTL DEF Spec, AdmissionIsDue

------------------------------------------------------------------------------
(* The client slots *)

ClientRecord ==
    [state : {CS_FREE, CS_ZOMBIE, CS_CONNECTED}, adr : Endpoint \cup {Bot},
     mUID : Player \cup {NoMUID}, connectAge : 0..ReconnectLimit]

ClientsTypeOK == clients \in [ClientNum -> ClientRecord]

\* A bot is the same client as nobody, and everybody as himself.
LEMMA BotIsNobodysClient ==
    ASSUME NEW e \in Endpoint
    PROVE  /\ e # Bot /\ ~SameClient(e, Bot) /\ ~SameClient(Bot, e)
           /\ SameClient(e, e)
           /\ \A f : SameClient(e, f) <=> SameClient(f, e)
  <1>1. e \in [ip : Nat \ {0}, port : Nat, qport : Nat]
    BY EndpointAssumption
  <1>2. e.ip # 0 /\ Bot.ip = 0
    BY <1>1 DEF Bot
  <1> QED
    BY <1>2 DEF SameClient

\* The slots have their type at first.
LEMMA ClientsInitType == Init => ClientsTypeOK
  BY SlotAssumption DEF Init, ClientsInit, Cleared, ClientsTypeOK, ClientRecord

\* A connect takes the first of the slots that are open to it.
LEMMA SlotChosen ==
    ASSUME NEW e, NEW knowsPassword, SlotsFor(e, knowsPassword) # {}
    PROVE  /\ First(SlotsFor(e, knowsPassword)) \in SlotsFor(e, knowsPassword)
           /\ First(SlotsFor(e, knowsPassword)) \in ClientNum
           /\ \A j \in SlotsFor(e, knowsPassword) : First(SlotsFor(e, knowsPassword)) <= j
  <1>1. SlotsFor(e, knowsPassword) \in SUBSET ClientNum
    BY DEF SlotsFor, Held, Records, FreeSlots
  <1> QED
    BY <1>1, FirstIsFirst

\* What it puts into the slot.
LEMMA TakenType ==
    ASSUME NEW adr \in Endpoint \cup {Bot}, NEW mUID \in Player \cup {NoMUID}, NEW denied
    PROVE  /\ Taken(adr, mUID, denied) \in ClientRecord
           /\ Taken(adr, mUID, denied).adr = adr
  <1>1. ReconnectLimit \in 0..ReconnectLimit /\ 0 \in 0..ReconnectLimit
    BY SlotAssumption
  <1>2. CASE denied
    BY <1>1, <1>2 DEF Taken, Cleared, ClientRecord
  <1>3. CASE ~denied
    BY <1>1, <1>3 DEF Taken, ClientRecord
  <1> QED
    BY <1>2, <1>3

\* What a step does to the client slots: nothing, a connect that takes the first
\* of its slots, or a change after which the slots belong to whom they did.
Joins(e, mUID, knowsPassword, denied) ==
    /\ SlotsFor(e, knowsPassword) # {} /\ (e \in Endpoint => ~TooSoon(e))
    /\ clients' = [clients EXCEPT ![First(SlotsFor(e, knowsPassword))] =
                        Taken(e, mUID, denied)]

KeepsOwners ==
    /\ ClientsTypeOK'
    /\ \A i \in ClientNum : clients'[i].adr = clients[i].adr /\ (Live(i)' => Live(i))

\* Leaving and freeing change no owner of a slot.
LEMMA LeavesKeep ==
    ASSUME ClientsTypeOK, NEW i \in ClientNum, Leave(i) \/ Release(i)
    PROVE  KeepsOwners
  <1>1. ASSUME NEW s \in {CS_ZOMBIE, CS_FREE}, clients' = [clients EXCEPT ![i].state = s],
               clients[i].state # CS_FREE
        PROVE  KeepsOwners
    <2>1. ClientsTypeOK'
      BY <1>1 DEF ClientsTypeOK, ClientRecord
    <2>2. \A j \in ClientNum : /\ clients'[j].adr = clients[j].adr
                               /\ clients'[j].state # CS_FREE => clients[j].state # CS_FREE
      BY <1>1 DEF ClientsTypeOK, ClientRecord
    <2> QED
      BY <2>1, <2>2 DEF KeepsOwners, Live
  <1>2. CASE Leave(i)
    BY <1>1, <1>2 DEF Leave, CS_CONNECTED, CS_FREE
  <1>3. CASE Release(i)
    BY <1>1, <1>3 DEF Release, CS_ZOMBIE, CS_FREE
  <1> QED
    BY <1>2, <1>3

\* Neither does time.
LEMMA ClientsTickKeeps == ClientsTypeOK /\ ClientsTick => KeepsOwners
  <1> SUFFICES ASSUME ClientsTypeOK, ClientsTick PROVE KeepsOwners
    OBVIOUS
  <1>1. ClientsTypeOK'
    BY SlotAssumption DEF ClientsTypeOK, ClientRecord, ClientsTick
  <1>2. \A j \in ClientNum : /\ clients'[j].adr = clients[j].adr
                             /\ clients'[j].state = clients[j].state
    BY DEF ClientsTypeOK, ClientRecord, ClientsTick
  <1> QED
    BY <1>1, <1>2 DEF KeepsOwners, Live

\* The slots change by a connect, or keep their owners, or not at all.
LEMMA ClientSteps ==
    ASSUME ChallengeInv, ClientsTypeOK, [Next]_vars
    PROVE  \/ clients' = clients
           \/ \E e \in Endpoint \cup {Bot}, mUID \in Player \cup {NoMUID},
                 knowsPassword, denied \in BOOLEAN : Joins(e, mUID, knowsPassword, denied)
           \/ KeepsOwners /\ outcome'.verdict = "none"
  <1> DEFINE Goal == \/ clients' = clients
                     \/ \E e \in Endpoint \cup {Bot}, mUID \in Player \cup {NoMUID},
                           knowsPassword, denied \in BOOLEAN :
                                Joins(e, mUID, knowsPassword, denied)
                     \/ KeepsOwners /\ outcome'.verdict = "none"
  <1>1. ASSUME Quiet PROVE outcome'.verdict = "none"
    BY <1>1 DEF Quiet, Says
  <1>2. ASSUME NEW e \in Endpoint \cup {Bot}, NEW mUID \in Player \cup {NoMUID},
               NEW knowsPassword \in BOOLEAN, NEW denied \in BOOLEAN,
               e \in Endpoint => ~TooSoon(e), Take(e, mUID, knowsPassword, denied)
        PROVE  Goal
    <2>1. CASE SlotsFor(e, knowsPassword) = {}
      BY <1>2, <2>1 DEF Take
    <2>2. CASE SlotsFor(e, knowsPassword) # {}
      <3>1. Joins(e, mUID, knowsPassword, denied)
        BY <1>2, <2>2 DEF Take, Joins
      <3> QED
        BY <3>1
    <2> QED
      BY <2>1, <2>2
  <1>3. ASSUME NEW e \in Endpoint, NEW n \in Number, DirectConnect(e, n) PROVE Goal
    <2>1. ASSUME NEW knowsPassword \in BOOLEAN, NEW goodName \in BOOLEAN, NEW denied \in BOOLEAN,
                 ProcessConnect(e, n, knowsPassword, goodName, denied)
          PROVE  Goal
      <3> DEFINE i == Oldest(Holds(e, n))
      <3>1. /\ ~TooSoon(e) /\ Holds(e, n) # {}
            /\ \/ Take(e, x_challenges[i].mUID, knowsPassword, denied)
               \/ clients' = clients
        BY <2>1, Zenon DEF ProcessConnect
      <3>2. x_challenges[i].mUID \in Player \cup {NoMUID}
        BY <3>1, HeldOnce DEF ChallengeInv, ChallengesTypeOK, XChallengeRecord
      <3> HIDE DEF i, Goal
      <3> QED
        BY <1>2, <3>1, <3>2 DEF Goal
    <2>2. ASSUME NEW ipBanned \in BOOLEAN, RejectConnect(e, n, ipBanned) PROVE Goal
      BY <2>2 DEF RejectConnect
    <2> HIDE DEF Goal
    <2> QED
      BY <1>3, <2>1, <2>2, Zenon DEF DirectConnect
  <1>4. ASSUME NEW denied \in BOOLEAN, BotConnect(denied) PROVE Goal
    <2>1. Bot \in Endpoint \cup {Bot} /\ Bot \notin Endpoint
      BY BotIsNobodysClient
    <2>2. Take(Bot, NoMUID, FALSE, denied) /\ FALSE \in BOOLEAN /\ NoMUID \in Player \cup {NoMUID}
      BY <1>4, Zenon DEF BotConnect
    <2> HIDE DEF Goal
    <2> QED
      BY <1>2, <2>1, <2>2, Zenon
  <1>5. ASSUME NEW i \in ClientNum, DropClient(i) PROVE Goal
    BY <1>1, <1>5, LeavesKeep, Zenon DEF DropClient
  <1>6. ASSUME NEW i \in ClientNum, CheckTimeouts(i) PROVE Goal
    BY <1>1, <1>6, LeavesKeep, Zenon DEF CheckTimeouts
  <1>7. ASSUME Tick PROVE Goal
    BY <1>1, <1>7, ClientsTickKeeps, Zenon DEF Tick
  <1>8. ASSUME UNCHANGED clients PROVE Goal
    BY <1>8
  <1>9. ASSUME UNCHANGED vars PROVE Goal
    BY <1>8, <1>9 DEF vars
  <1>10. ASSUME NEW e \in Endpoint, GetChallenge(e) PROVE Goal
    BY <1>8, <1>10 DEF GetChallenge
  <1>11. ASSUME NEW n \in Number, NEW answer \in Answers, XAuthorize(n, answer) PROVE Goal
    BY <1>8, <1>11 DEF XAuthorize
  <1> HIDE DEF Goal
  <1>12. Goal
    BY <1>3, <1>4, <1>5, <1>6, <1>7, <1>9, <1>10, <1>11, Zenon DEF Next
  <1> QED
    BY <1>12 DEF Goal

\* After a connect the slot it took is the only one that has changed.
LEMMA JoinedSlot ==
    ASSUME ClientsTypeOK, NEW e \in Endpoint \cup {Bot}, NEW mUID \in Player \cup {NoMUID},
           NEW knowsPassword, NEW denied, Joins(e, mUID, knowsPassword, denied)
    PROVE  LET i == First(SlotsFor(e, knowsPassword))
           IN  /\ i \in SlotsFor(e, knowsPassword) /\ i \in ClientNum
               /\ \A j \in SlotsFor(e, knowsPassword) : i <= j
               /\ ClientsTypeOK'
               /\ clients'[i] = Taken(e, mUID, denied) /\ clients'[i].adr = e
               /\ \A j \in ClientNum \ {i} : clients'[j] = clients[j] /\ (Live(j)' <=> Live(j))
  <1> DEFINE i == First(SlotsFor(e, knowsPassword))
  <1>1. /\ i \in SlotsFor(e, knowsPassword) /\ i \in ClientNum
        /\ \A j \in SlotsFor(e, knowsPassword) : i <= j
    BY SlotChosen DEF Joins
  <1>2. clients' = [clients EXCEPT ![i] = Taken(e, mUID, denied)]
    BY DEF Joins
  <1>3. Taken(e, mUID, denied) \in ClientRecord /\ Taken(e, mUID, denied).adr = e
    BY TakenType
  <1> HIDE DEF i
  <1>4. ClientsTypeOK' /\ clients'[i] = Taken(e, mUID, denied)
        /\ \A j \in ClientNum \ {i} : clients'[j] = clients[j]
    BY <1>1, <1>2, <1>3 DEF ClientsTypeOK
  <1> QED
    BY <1>1, <1>3, <1>4 DEF i, Live

OutcomeTypeOK ==
    outcome \in [adr : Endpoint \cup {Bot}, number : 0..MaxNumber, verdict : Verdicts]

\* The outcome has its type at first.
LEMMA OutcomeInit == Init => OutcomeTypeOK
  BY ChallengeAssumption DEF Init, OutcomeTypeOK, Nobody, Bot, Verdicts

\* What is said of a packet has the type.
LEMMA SaysType ==
    ASSUME NEW e \in Endpoint \cup {Bot}, NEW n \in 0..MaxNumber, NEW v \in Verdicts,
           Says(e, n, v)
    PROVE  OutcomeTypeOK'
  BY DEF Says, OutcomeTypeOK

\* Every step keeps the type of the outcome.
LEMMA OutcomeNext == OutcomeTypeOK /\ [Next]_vars => OutcomeTypeOK'
  <1> SUFFICES ASSUME OutcomeTypeOK, [Next]_vars PROVE OutcomeTypeOK'
    OBVIOUS
  <1> USE ChallengeAssumption
  <1>1. ASSUME Quiet PROVE OutcomeTypeOK'
    <2>1. Nobody \in Endpoint \cup {Bot} /\ 0 \in 0..MaxNumber /\ "none" \in Verdicts
      BY DEF Nobody, Bot, Verdicts
    <2> QED
      BY <1>1, <2>1, SaysType, Zenon DEF Quiet
  <1>2. ASSUME NEW e \in Endpoint, NEW n \in Number, DirectConnect(e, n) PROVE OutcomeTypeOK'
    <2>1. e \in Endpoint \cup {Bot} /\ n \in 0..MaxNumber
      BY DEF Number
    <2>2. \E v \in Verdicts : Says(e, n, v)
      <3>1. ASSUME NEW knowsPassword \in BOOLEAN, NEW goodName \in BOOLEAN, NEW denied \in BOOLEAN,
                   ProcessConnect(e, n, knowsPassword, goodName, denied)
            PROVE  \E v \in Verdicts : Says(e, n, v)
        <4>1. Says(e, n, Verdict(e, Oldest(Holds(e, n)), knowsPassword, goodName, denied))
          BY <3>1, Zenon DEF ProcessConnect
        <4> QED
          BY <4>1, VerdictMeans, Zenon
      <3>2. ASSUME NEW ipBanned \in BOOLEAN, RejectConnect(e, n, ipBanned)
            PROVE  \E v \in Verdicts : Says(e, n, v)
        BY <3>2 DEF RejectConnect, Verdicts
      <3> QED
        BY <1>2, <3>1, <3>2, Zenon DEF DirectConnect
    <2> QED
      BY <2>1, <2>2, SaysType, Zenon
  <1>3. ASSUME NEW denied \in BOOLEAN, BotConnect(denied) PROVE OutcomeTypeOK'
    <2>1. /\ Bot \in Endpoint \cup {Bot} /\ 0 \in 0..MaxNumber
          /\ Admission(Bot, FALSE, denied) \in Verdicts
      BY DEF Admission, Verdicts
    <2> QED
      BY <1>3, <2>1, SaysType, Zenon DEF BotConnect
  <1>4. CASE UNCHANGED vars
    BY <1>4 DEF vars, OutcomeTypeOK
  <1> QED
    BY <1>1, <1>2, <1>3, <1>4, Zenon
       DEF Next, GetChallenge, XAuthorize, DropClient, CheckTimeouts, Tick

\* Every step keeps the type of the slots.
LEMMA ClientsNextType == ChallengeInv /\ ClientsTypeOK /\ [Next]_vars => ClientsTypeOK'
  <1> SUFFICES ASSUME ChallengeInv, ClientsTypeOK, [Next]_vars PROVE ClientsTypeOK'
    OBVIOUS
  <1>1. CASE clients' = clients
    BY <1>1 DEF ClientsTypeOK
  <1>2. ASSUME NEW e \in Endpoint \cup {Bot}, NEW mUID \in Player \cup {NoMUID},
               NEW knowsPassword \in BOOLEAN, NEW denied \in BOOLEAN,
               Joins(e, mUID, knowsPassword, denied)
        PROVE  ClientsTypeOK'
    BY <1>2, JoinedSlot
  <1>3. CASE KeepsOwners
    BY <1>3 DEF KeepsOwners
  <1> QED
    BY <1>1, <1>2, <1>3, ClientSteps, Zenon

\* Type correctness of the challenge table, the client slots and the outcome.
THEOREM Typed == Spec => []TypeOK
  <1>1. ChallengeInv /\ ClientsTypeOK /\ OutcomeTypeOK => TypeOK
    BY DEF ChallengeInv, ChallengesTypeOK, ChallengeRecord, XChallengeRecord,
           ClientsTypeOK, ClientRecord, OutcomeTypeOK, TypeOK
  <1> QED
    BY <1>1, ChallengesInitInv, ClientsInitType, OutcomeInit,
       ChallengesNext, ClientsNextType, OutcomeNext, PTL DEF Spec

------------------------------------------------------------------------------
(* One slot for each client *)

\* Clients behind one IP address differ in qport and in port, so that
\* the test of SV_DirectConnect tells them apart.
ClientsDiffer ==
    \A e, f, g \in Endpoint : SameClient(e, f) /\ SameClient(f, g) => SameClient(e, g)

\* At first nobody has a slot.
LEMMA OneSlotInit == Init => OneSlotPerClient
  BY DEF Init, ClientsInit, Cleared, OneSlotPerClient, Live

\* A client who joins gets the slot he has, if he has one.
LEMMA OneSlotNext ==
    ASSUME ClientsDiffer, ChallengeInv, ClientsTypeOK, OneSlotPerClient, [Next]_vars
    PROVE  OneSlotPerClient'
  <1>1. CASE clients' = clients
    BY <1>1 DEF OneSlotPerClient, Live
  <1>2. ASSUME NEW e \in Endpoint \cup {Bot}, NEW mUID \in Player \cup {NoMUID},
               NEW knowsPassword \in BOOLEAN, NEW denied \in BOOLEAN,
               Joins(e, mUID, knowsPassword, denied)
        PROVE  OneSlotPerClient'
    <2> DEFINE i == First(SlotsFor(e, knowsPassword))
    <2>1. /\ i \in SlotsFor(e, knowsPassword) /\ i \in ClientNum
          /\ ClientsTypeOK' /\ clients'[i].adr = e
          /\ \A j \in ClientNum \ {i} : clients'[j] = clients[j] /\ (Live(j)' <=> Live(j))
      BY <1>2, JoinedSlot
    <2> HIDE DEF i
    <2>2. \A j \in ClientNum : clients[j].adr \in Endpoint \cup {Bot}
      BY DEF ClientsTypeOK, ClientRecord
    <2>3. ASSUME NEW j \in ClientNum \ {i}, Live(j), e \in Endpoint
          PROVE  ~SameClient(e, clients[j].adr)
      <3> SUFFICES ASSUME SameClient(e, clients[j].adr) PROVE FALSE
        OBVIOUS
      <3>1. j \in Held(e) /\ e # Bot
        BY <2>3, BotIsNobodysClient DEF Held, Records
      <3>2. i \in Held(e)
        BY <2>1, <3>1 DEF SlotsFor
      <3>3. Live(i) /\ SameClient(e, clients[i].adr)
        BY <3>2 DEF Held, Records
      <3>4. clients[i].adr \in Endpoint /\ clients[j].adr \in Endpoint
        BY <2>1, <2>2, <2>3, <3>3, BotIsNobodysClient
      <3>5. SameClient(clients[i].adr, clients[j].adr)
        BY <2>3, <3>3, <3>4, BotIsNobodysClient DEF ClientsDiffer
      <3> QED
        BY <2>1, <2>3, <3>3, <3>4, <3>5 DEF OneSlotPerClient
    <2> SUFFICES ASSUME NEW j \in ClientNum, NEW k \in ClientNum, j # k, Live(j)', Live(k)',
                        clients'[j].adr \in Endpoint
                 PROVE  ~SameClient(clients'[j].adr, clients'[k].adr)
      BY DEF OneSlotPerClient
    <2>4. CASE j = i
      BY <2>1, <2>3, <2>4
    <2>5. CASE k = i
      <3>1. clients'[j].adr = clients[j].adr /\ Live(j)
        BY <2>1, <2>5
      <3>2. CASE e \in Endpoint
        BY <2>1, <2>3, <2>5, <3>1, <3>2, BotIsNobodysClient
      <3>3. CASE e \notin Endpoint
        BY <2>1, <2>5, <3>3, BotIsNobodysClient
      <3> QED
        BY <3>2, <3>3
    <2>6. CASE j # i /\ k # i
      BY <2>1, <2>6 DEF OneSlotPerClient
    <2> QED
      BY <2>4, <2>5, <2>6
  <1>3. CASE KeepsOwners
    BY <1>3 DEF KeepsOwners, OneSlotPerClient
  <1> QED
    BY <1>1, <1>2, <1>3, ClientSteps, Zenon

\* SV_DirectConnect never gives a client a second slot while it is in one, if the
\* clients behind one IP address differ as the property asks.
THEOREM OneSlotEach ==
    ASSUME ClientsDiffer
    PROVE  Spec => []OneSlotPerClient
  <1>1. ChallengeInv /\ ClientsTypeOK /\ OneSlotPerClient /\ [Next]_vars => OneSlotPerClient'
    BY OneSlotNext
  <1> QED
    BY <1>1, ChallengesInitInv, ClientsInitType, OneSlotInit, ChallengesNext, ClientsNextType,
       PTL DEF Spec

\* With no slots reserved, no record of a client in a slot lies before it; so the
\* first record, where SV_DirectConnect looks for the time of the last connect,
\* is the slot the client is in.
RecordsBehind ==
    \A i, k \in ClientNum :
        k < i /\ Live(i) /\ clients[i].adr \in Endpoint
            => ~SameClient(clients[i].adr, clients[k].adr)

\* At first there are no records.
LEMMA RecordsInit == Init => RecordsBehind
  BY DEF Init, ClientsInit, Cleared, RecordsBehind, Live

\* A client is put into the first slot with a record of his, or before it.
LEMMA RecordsNext ==
    ASSUME ClientsDiffer, sv_privateClients = 0,
           ChallengeInv, ClientsTypeOK, RecordsBehind, [Next]_vars
    PROVE  RecordsBehind'
  <1>1. CASE clients' = clients
    BY <1>1 DEF RecordsBehind, Live
  <1>2. ASSUME NEW e \in Endpoint \cup {Bot}, NEW mUID \in Player \cup {NoMUID},
               NEW knowsPassword \in BOOLEAN, NEW denied \in BOOLEAN,
               Joins(e, mUID, knowsPassword, denied)
        PROVE  RecordsBehind'
    <2> DEFINE i == First(SlotsFor(e, knowsPassword))
    <2>1. /\ i \in SlotsFor(e, knowsPassword) /\ i \in ClientNum
          /\ \A j \in SlotsFor(e, knowsPassword) : i <= j
          /\ ClientsTypeOK' /\ clients'[i].adr = e
          /\ \A j \in ClientNum \ {i} : clients'[j] = clients[j] /\ (Live(j)' <=> Live(j))
      BY <1>2, JoinedSlot
    <2> HIDE DEF i
    <2>2. \A j \in ClientNum : clients[j].adr \in Endpoint \cup {Bot}
      BY DEF ClientsTypeOK, ClientRecord
    <2>3. ASSUME e \in Endpoint, Held(e) # {}
          PROVE  /\ Live(i) /\ SameClient(e, clients[i].adr) /\ clients[i].adr \in Endpoint
                 /\ \A j \in ClientNum : SameClient(e, clients[j].adr)
                        => SameClient(clients[i].adr, clients[j].adr)
      <3>1. i \in Held(e)
        BY <2>1, <2>3, BotIsNobodysClient DEF SlotsFor
      <3>2. Live(i) /\ SameClient(e, clients[i].adr)
        BY <3>1 DEF Held, Records
      <3>3. clients[i].adr \in Endpoint
        BY <2>1, <2>2, <2>3, <3>2, BotIsNobodysClient
      <3>4. ASSUME NEW j \in ClientNum, SameClient(e, clients[j].adr)
            PROVE  SameClient(clients[i].adr, clients[j].adr)
        <4>1. clients[j].adr \in Endpoint
          BY <2>2, <2>3, <3>4, BotIsNobodysClient
        <4> QED
          BY <2>3, <3>2, <3>3, <3>4, <4>1, BotIsNobodysClient DEF ClientsDiffer
      <3> QED
        BY <3>2, <3>3, <3>4
    <2>4. ASSUME e \in Endpoint, Held(e) = {}, NEW j \in ClientNum, Live(j)
          PROVE  ~SameClient(e, clients[j].adr)
      BY <2>4 DEF Held, Records
    <2>5. ASSUME NEW k \in ClientNum, k < i, e \in Endpoint PROVE ~SameClient(e, clients[k].adr)
      <3>1. CASE Held(e) # {}
        BY <2>1, <2>3, <2>5, <3>1 DEF RecordsBehind
      <3>2. CASE Held(e) = {}
        <4>1. k \notin FreeSlots(knowsPassword)
          BY <2>1, <2>5, <3>2, ClientNumbersAssumption DEF SlotsFor, ClientNum
        <4>2. Live(k)
          BY <4>1, ClientNumbersAssumption DEF FreeSlots, ClientNum
        <4> QED
          BY <2>4, <2>5, <3>2, <4>2
      <3> QED
        BY <3>1, <3>2
    <2>6. ASSUME NEW j \in ClientNum, i < j, Live(j), e \in Endpoint
          PROVE  ~SameClient(e, clients[j].adr)
      <3>1. CASE Held(e) # {}
        <4> SUFFICES ASSUME SameClient(e, clients[j].adr) PROVE FALSE
          OBVIOUS
        <4>1. SameClient(clients[i].adr, clients[j].adr) /\ clients[i].adr \in Endpoint
          BY <2>3, <2>6, <3>1
        <4>2. clients[j].adr \in Endpoint
          BY <2>2, <2>6, BotIsNobodysClient
        <4> QED
          BY <2>1, <2>6, <4>1, <4>2, BotIsNobodysClient DEF RecordsBehind
      <3>2. CASE Held(e) = {}
        BY <2>4, <2>6, <3>2
      <3> QED
        BY <3>1, <3>2
    <2> SUFFICES ASSUME NEW j \in ClientNum, NEW k \in ClientNum, k < j, Live(j)',
                        clients'[j].adr \in Endpoint
                 PROVE  ~SameClient(clients'[j].adr, clients'[k].adr)
      BY DEF RecordsBehind
    <2>7. k # j
      BY ClientNumbersAssumption DEF ClientNum
    <2>8. CASE j = i
      BY <2>1, <2>5, <2>7, <2>8
    <2>9. CASE k = i
      <3>1. clients'[j].adr = clients[j].adr /\ Live(j)
        BY <2>1, <2>7, <2>9
      <3>2. CASE e \in Endpoint
        BY <2>1, <2>6, <2>9, <3>1, <3>2, BotIsNobodysClient
      <3>3. CASE e \notin Endpoint
        BY <2>1, <2>9, <3>3, BotIsNobodysClient
      <3> QED
        BY <3>2, <3>3
    <2>10. CASE j # i /\ k # i
      BY <2>1, <2>10 DEF RecordsBehind
    <2> QED
      BY <2>8, <2>9, <2>10
  <1>3. CASE KeepsOwners
    BY <1>3 DEF KeepsOwners, RecordsBehind
  <1> QED
    BY <1>1, <1>2, <1>3, ClientSteps, Zenon

\* With no slots reserved, SV_DirectConnect replaces nobody in the game within
\* sv_reconnectlimit of the last connect.
THEOREM NotResetEarly ==
    ASSUME ClientsDiffer, sv_privateClients = 0
    PROVE  Spec => LiveNotResetEarly
  <1> DEFINE Safe == ChallengeInv /\ ClientsTypeOK /\ RecordsBehind
  <1>1. Safe /\ [Next]_vars => Safe'
    BY RecordsNext, ChallengesNext, ClientsNextType
  <1>2. ASSUME Safe, Next
        PROVE  outcome'.verdict \in {"joined", "denied"} =>
                    \A i \in ClientNum : clients[i].state = CS_CONNECTED /\ clients'[i] # clients[i]
                        => clients[i].connectAge = ReconnectLimit
    <2> SUFFICES ASSUME outcome'.verdict \in {"joined", "denied"}, NEW j \in ClientNum,
                        clients[j].state = CS_CONNECTED, clients'[j] # clients[j]
                 PROVE  clients[j].connectAge = ReconnectLimit
      OBVIOUS
    <2>1. PICK e \in Endpoint \cup {Bot}, mUID \in Player \cup {NoMUID},
               knowsPassword \in BOOLEAN, denied \in BOOLEAN :
                    Joins(e, mUID, knowsPassword, denied)
      <3>1. outcome'.verdict # "none" /\ clients' # clients
        OBVIOUS
      <3> QED
        BY <1>2, <3>1, ClientSteps, Zenon
    <2>2. j = First(SlotsFor(e, knowsPassword)) /\ j \in SlotsFor(e, knowsPassword)
      BY <1>2, <2>1, JoinedSlot
    <2>3. Live(j)
      BY DEF Live, CS_CONNECTED, CS_FREE
    <2>4. j \in Held(e) /\ e \in Endpoint
      BY <2>2, <2>3 DEF SlotsFor, FreeSlots
    <2>5. j \in Records(e) /\ SameClient(e, clients[j].adr) /\ clients[j].adr \in Endpoint
      BY <1>2, <2>4, BotIsNobodysClient DEF Held, Records, ClientsTypeOK, ClientRecord
    <2>6. \A k \in Records(e) : j <= k
      <3> SUFFICES ASSUME NEW k \in ClientNum, SameClient(e, clients[k].adr), k < j PROVE FALSE
        BY ClientNumbersAssumption DEF Records, ClientNum
      <3>1. clients[k].adr \in Endpoint
        BY <1>2, <2>4, BotIsNobodysClient DEF ClientsTypeOK, ClientRecord
      <3>2. SameClient(clients[j].adr, clients[k].adr)
        BY <2>4, <2>5, <3>1, BotIsNobodysClient DEF ClientsDiffer
      <3> QED
        BY <1>2, <2>3, <2>5, <3>2 DEF RecordsBehind
    <2>7. First(Records(e)) = j
      <3>1. Records(e) \in SUBSET ClientNum
        BY DEF Records
      <3>2. First(Records(e)) \in Records(e) /\ \A k \in Records(e) : First(Records(e)) <= k
        BY <2>5, <3>1, FirstIsFirst
      <3> QED
        BY <2>5, <2>6, <3>1, <3>2, ClientNumbersAssumption DEF ClientNum
    <2>8. ~(clients[j].connectAge < ReconnectLimit)
      BY <2>1, <2>4, <2>5, <2>7 DEF Joins, TooSoon
    <2> QED
      BY <1>2, <2>8, SlotAssumption DEF ClientsTypeOK, ClientRecord
  <1>3. Init => Safe
    BY ChallengesInitInv, ClientsInitType, RecordsInit
  <1> QED
    BY <1>1, <1>2, <1>3, PTL DEF Spec, LiveNotResetEarly
==============================================================================
