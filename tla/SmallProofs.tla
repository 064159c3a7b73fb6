---------------------------- MODULE SmallProofs ----------------------------
(***************************************************************************)
(* Theorems about Players, Heartbeat, VaRing, InfoStrings, PlayerSettings  *)
(* and the helpers for text and tables, for any number of slots, names,    *)
(* masters, cells, keys and characters; and about SmallParts, in which     *)
(* they run beside the modules of ScriptProofs and BanListProofs.          *)
(***************************************************************************)
EXTENDS SmallParts, ScriptProofs, BanListProofs, SequenceTheorems, FiniteSetTheorems,
        WellFoundedInduction, TLAPS

------------------------------------------------------------------------------
(* Players.  That a mute is the client's own needs that no two slots hold    *)
(* the same connect: a mute typed for one would otherwise count for both.    *)

OneSlotEach ==
    \A i, j \in ClientNum :
        InUse(i) /\ InUse(j) /\ slots[i].session = slots[j].session => i = j

\* Connects are numbered as they come, and those to come have not been muted.
OrdersPast ==
    /\ \A i \in ClientNum : InUse(i) => slots[i].session <= connects
    /\ \A k \in Session : k > connects => ~muteOrders[k]

MuteInv == PlayersTypeOK /\ MuteIsOwn /\ OneSlotEach /\ OrdersPast

\* An empty slot is a slot.
LEMMA EmptyIsSlot == Empty \in Slot
  <1>1. (CHOOSE n \in Name : TRUE) \in Name
    BY PlayersAssumption
  <1>2. 0 \in Session
    BY PlayersAssumption DEF Session
  <1> QED
    BY <1>1, <1>2 DEF Empty, Slot, State

\* A step that changes one slot, and puts no new client into it.
LEMMA SlotStep ==
    ASSUME MuteInv,
           NEW i \in ClientNum, NEW r \in Slot,
           slots' = [slots EXCEPT ![i] = r],
           search_players' \in SUBSET ClientNum,
           UNCHANGED <<x_clients, connects, muteOrders>>,
           r.state = "CS_CONNECTED" =>
                InUse(i) /\ r.session = slots[i].session /\
                (~r.bot => Printable[r.name] = r.name)
    PROVE  MuteInv'
  <1>1. slots \in [ClientNum -> Slot] /\ slots' \in [ClientNum -> Slot]
    BY DEF MuteInv, PlayersTypeOK
  <1>2. \A j \in ClientNum : slots'[j] = IF j = i THEN r ELSE slots[j]
    BY <1>1
  <1>3. \A j \in ClientNum : InUse(j)' => InUse(j) /\ slots'[j].session = slots[j].session
    BY <1>2 DEF InUse
  <1>4. PlayersTypeOK'
    <2>1. \A j \in ClientNum :
             (InUse(j) /\ ~slots[j].bot => Printable[slots[j].name] = slots[j].name)'
      BY <1>2 DEF MuteInv, PlayersTypeOK, InUse
    <2> QED
      BY <1>1, <2>1 DEF MuteInv, PlayersTypeOK
  <1>5. MuteIsOwn'
    BY <1>3 DEF MuteInv, MuteIsOwn
  <1>6. OneSlotEach' /\ OrdersPast'
    BY <1>3 DEF MuteInv, OneSlotEach, OrdersPast
  <1> QED
    BY <1>4, <1>5, <1>6 DEF MuteInv

\* A connect fills its slot with a new client who is not muted.
LEMMA ConnectStep ==
    ASSUME MuteInv, NEW i \in ClientNum, NEW wanted \in Name,
           NEW bot \in BOOLEAN, NEW denied \in BOOLEAN,
           SV_DirectConnect(i, wanted, bot, denied)
    PROVE  MuteInv'
  <1> DEFINE new == [state |-> "CS_CONNECTED", bot |-> bot,
                     session |-> connects + 1, name |-> Printable[wanted]]
             r == IF denied THEN Empty ELSE new
  <1>1. connects + 1 \in Session /\ Printable[wanted] \in Name
    BY PlayersAssumption DEF SV_DirectConnect, MuteInv, PlayersTypeOK, Session
  <1>2. new \in Slot /\ r \in Slot
    BY <1>1, EmptyIsSlot DEF Slot, State
  <1>3. slots' = [slots EXCEPT ![i] = r]
    <2>1. UserinfoChanged([Empty EXCEPT !.state = "CS_CONNECTED", !.bot = bot,
                                        !.session = connects + 1], FALSE, wanted) = new
      BY DEF UserinfoChanged, Empty
    <2> QED
      BY <2>1 DEF SV_DirectConnect
  <1>4. slots \in [ClientNum -> Slot] /\ slots' \in [ClientNum -> Slot]
    BY <1>2, <1>3 DEF MuteInv, PlayersTypeOK
  <1>5. \A j \in ClientNum : slots'[j] = IF j = i THEN r ELSE slots[j]
    BY <1>3, <1>4
  <1>6. /\ r.state = "CS_CONNECTED" => r = new
        /\ new.session = connects + 1 /\ new.name = Printable[wanted]
    BY DEF Empty
  <1> HIDE DEF r, new
  <1>7. \A j \in ClientNum : InUse(j)' =>
            \/ j = i /\ slots'[j].session = connects + 1
            \/ j # i /\ InUse(j) /\ slots'[j].session = slots[j].session
    BY <1>5, <1>6 DEF InUse
  <1>8. x_clients' = [x_clients EXCEPT ![i] = Unset]
    BY DEF SV_DirectConnect, ClearSettings
  <1>9. /\ connects' = connects + 1 /\ connects \in Session /\ connects' \in Session
        /\ muteOrders' = muteOrders /\ search_players' = search_players
    BY <1>1 DEF SV_DirectConnect, MuteInv, PlayersTypeOK
  <1>10. PlayersTypeOK'
    <2>1. \A j \in ClientNum :
             (InUse(j) /\ ~slots[j].bot => Printable[slots[j].name] = slots[j].name)'
      BY <1>5, <1>6, PlayersAssumption DEF MuteInv, PlayersTypeOK, InUse
    <2>2. x_clients' \in [ClientNum -> [muted : BOOLEAN, namemuted : BOOLEAN]]
      BY <1>8 DEF MuteInv, PlayersTypeOK, Unset
    <2> QED
      BY <1>4, <1>9, <2>1, <2>2 DEF MuteInv, PlayersTypeOK
  <1>11. MuteIsOwn'
    <2> SUFFICES ASSUME NEW j \in ClientNum, InUse(j)'
                 PROVE  x_clients'[j].muted = muteOrders'[slots'[j].session]
      BY DEF MuteIsOwn
    <2>1. CASE j = i
      <3>1. ~muteOrders[connects + 1]
        BY <1>1, <1>9 DEF MuteInv, OrdersPast, Session
      <3>2. x_clients'[j].muted = FALSE
        BY <1>8, <2>1 DEF MuteInv, PlayersTypeOK, Unset
      <3>3. muteOrders[connects + 1] \in BOOLEAN
        BY <1>1 DEF MuteInv, PlayersTypeOK
      <3> QED
        BY <1>7, <1>9, <2>1, <3>1, <3>2, <3>3
    <2>2. CASE j # i
      BY <1>7, <1>8, <1>9, <2>2 DEF MuteInv, MuteIsOwn, PlayersTypeOK
    <2> QED
      BY <2>1, <2>2
  <1>12. OneSlotEach'
    BY <1>7, <1>9 DEF MuteInv, OneSlotEach, OrdersPast, PlayersTypeOK, Slot, Session
  <1>13. OrdersPast'
    BY <1>7, <1>9 DEF MuteInv, OrdersPast, PlayersTypeOK, Slot, Session
  <1> QED
    BY <1>10, <1>11, <1>12, <1>13 DEF MuteInv

\* Muting a client, or ending it.
LEMMA MuteStep ==
    ASSUME MuteInv, NEW i \in ClientNum, SV_Mute(i)
    PROVE  MuteInv'
  <1>1. /\ x_clients' = [x_clients EXCEPT ![i].muted = ~@]
        /\ UNCHANGED <<slots, search_players, connects>>
    BY DEF SV_Mute
  <1>2. x_clients' \in [ClientNum -> [muted : BOOLEAN, namemuted : BOOLEAN]]
    BY <1>1 DEF MuteInv, PlayersTypeOK
  <1>3. \A j \in ClientNum : InUse(j) => slots[j].session \in Session
    BY DEF MuteInv, PlayersTypeOK, Slot
  <1>4. CASE InUse(i)
    <2>1. muteOrders' = [muteOrders EXCEPT ![slots[i].session] = ~@]
      BY <1>4 DEF SV_Mute
    <2>2. muteOrders' \in [Session -> BOOLEAN]
      BY <2>1 DEF MuteInv, PlayersTypeOK
    <2>3. PlayersTypeOK'
      BY <1>1, <1>2, <2>2 DEF MuteInv, PlayersTypeOK, InUse
    <2>4. MuteIsOwn'
      <3> SUFFICES ASSUME NEW j \in ClientNum, InUse(j)
                   PROVE  x_clients'[j].muted = muteOrders'[slots[j].session]
        BY <1>1 DEF MuteIsOwn, InUse
      <3>1. CASE j = i
        BY <1>1, <1>3, <2>1, <3>1 DEF MuteInv, MuteIsOwn, PlayersTypeOK
      <3>2. CASE j # i
        <4>1. slots[j].session # slots[i].session
          BY <1>4, <3>2 DEF MuteInv, OneSlotEach
        <4> QED
          BY <1>1, <1>3, <2>1, <3>2, <4>1 DEF MuteInv, MuteIsOwn, PlayersTypeOK
      <3> QED
        BY <3>1, <3>2
    <2>5. OneSlotEach'
      BY <1>1 DEF MuteInv, OneSlotEach, InUse
    <2>6. OrdersPast'
      BY <1>1, <1>3, <1>4, <2>1
      DEF MuteInv, OrdersPast, InUse, PlayersTypeOK, Session
    <2> QED
      BY <2>3, <2>4, <2>5, <2>6 DEF MuteInv
  <1>5. CASE ~InUse(i)
    <2>1. muteOrders' = muteOrders
      BY <1>5 DEF SV_Mute
    <2>2. \A j \in ClientNum : InUse(j) => x_clients'[j] = x_clients[j]
      BY <1>1, <1>5 DEF MuteInv, PlayersTypeOK
    <2> QED
      BY <1>1, <1>2, <2>1, <2>2
      DEF MuteInv, PlayersTypeOK, MuteIsOwn, OneSlotEach, OrdersPast, InUse
  <1> QED
    BY <1>4, <1>5

\* The flag for names, which mutes nobody.
LEMMA MuteNameStep ==
    ASSUME MuteInv, NEW i \in ClientNum, SV_MuteName(i)
    PROVE  MuteInv'
  <1>1. /\ x_clients' = [x_clients EXCEPT ![i].namemuted = ~@]
        /\ UNCHANGED <<slots, search_players, connects, muteOrders>>
    BY DEF SV_MuteName
  <1>2. /\ x_clients' \in [ClientNum -> [muted : BOOLEAN, namemuted : BOOLEAN]]
        /\ \A j \in ClientNum : x_clients'[j].muted = x_clients[j].muted
    BY <1>1 DEF MuteInv, PlayersTypeOK
  <1> QED
    BY <1>1, <1>2 DEF MuteInv, PlayersTypeOK, MuteIsOwn, OneSlotEach, OrdersPast, InUse

\* A kick empties one slot at most.
LEMMA KickStep ==
    ASSUME MuteInv, NEW word \in Word, NEW p \in 0..sv_maxclients, SV_Kick_f(word, p)
    PROVE  MuteInv'
  <1> DEFINE k == CHOOSE i \in search_players' : TRUE
  <1>1. search_players' \in SUBSET ClientNum
    BY DEF SV_Kick_f, X_GetPlayersByName, Found, MuteInv, PlayersTypeOK
  <1>2. UNCHANGED <<x_clients, connects, muteOrders>>
    BY DEF SV_Kick_f
  <1>3. CASE slots' = slots
    BY <1>1, <1>2, <1>3
    DEF MuteInv, PlayersTypeOK, MuteIsOwn, OneSlotEach, OrdersPast, InUse
  <1>4. CASE slots' # slots
    <2>1. Cardinality(search_players') = 1 /\ SV_DropClient(k)
      BY <1>4 DEF SV_Kick_f
    <2>2. search_players' # {}
      BY <2>1, FS_EmptySet
    <2>3. k \in ClientNum
      BY <1>1, <2>2
    <2> HIDE DEF k
    <2>4. InUse(k) /\ slots' = [slots EXCEPT ![k].state = "CS_ZOMBIE"]
      BY <1>4, <2>1 DEF SV_DropClient
    <2> DEFINE z == [slots[k] EXCEPT !.state = "CS_ZOMBIE"]
    <2>5. slots' = [slots EXCEPT ![k] = z]
      BY <2>4
    <2>6. z \in Slot /\ z.state # "CS_CONNECTED"
      BY <2>3 DEF MuteInv, PlayersTypeOK, Slot, State
    <2> HIDE DEF z
    <2> QED
      BY <1>1, <1>2, <2>3, <2>5, <2>6, SlotStep
  <1> QED
    BY <1>3, <1>4

\* The steps of one client: its name, its leaving, its slot becoming free.
LEMMA ClientStep ==
    ASSUME MuteInv, NEW i \in ClientNum, NEW wanted \in Name,
           \/ Userinfo(i, wanted) \/ PlayerCmd_renamebot(i, wanted)
           \/ Leave(i) \/ SV_CheckTimeouts(i) \/ PlayerCmd_kickbot(i)
    PROVE  MuteInv'
  <1>1. /\ UNCHANGED <<x_clients, connects, muteOrders>>
        /\ search_players' \in SUBSET ClientNum
    BY DEF Userinfo, PlayerCmd_renamebot, Leave, SV_CheckTimeouts, PlayerCmd_kickbot,
           MuteInv, PlayersTypeOK
  <1>2. slots[i] \in Slot /\ Printable[wanted] \in Name
    BY PlayersAssumption DEF MuteInv, PlayersTypeOK
  <1>3. CASE Userinfo(i, wanted)
    <2> DEFINE r == UserinfoChanged(slots[i], x_clients[i].namemuted, wanted)
    <2>1. slots' = [slots EXCEPT ![i] = r] /\ InUse(i) /\ ~slots[i].bot
      BY <1>3 DEF Userinfo
    <2>2. /\ r \in Slot /\ r.session = slots[i].session
          /\ Printable[r.name] = r.name
      <3>1. CASE x_clients[i].namemuted
        BY <1>2, <2>1, <3>1 DEF UserinfoChanged, MuteInv, PlayersTypeOK
      <3>2. CASE ~x_clients[i].namemuted
        BY <1>2, <3>2, PlayersAssumption DEF UserinfoChanged, Slot
      <3> QED
        BY <3>1, <3>2
    <2> HIDE DEF r
    <2> QED
      BY <1>1, <2>1, <2>2, SlotStep
  <1>4. CASE PlayerCmd_renamebot(i, wanted)
    <2> DEFINE r == [slots[i] EXCEPT !.name = wanted]
    <2>1. slots' = [slots EXCEPT ![i] = r] /\ InUse(i) /\ slots[i].bot
      BY <1>4 DEF PlayerCmd_renamebot
    <2>2. r \in Slot /\ r.session = slots[i].session /\ r.bot
      BY <1>2, <2>1 DEF Slot
    <2> HIDE DEF r
    <2> QED
      BY <1>1, <2>1, <2>2, SlotStep
  <1>5. CASE Leave(i)
    <2> DEFINE r == [slots[i] EXCEPT !.state = "CS_ZOMBIE"]
    <2>1. slots' = [slots EXCEPT ![i] = r]
      BY <1>5 DEF Leave, SV_DropClient
    <2>2. r \in Slot /\ r.state # "CS_CONNECTED"
      BY <1>2 DEF Slot, State
    <2> HIDE DEF r
    <2> QED
      BY <1>1, <2>1, <2>2, SlotStep
  <1>6. CASE SV_CheckTimeouts(i) \/ PlayerCmd_kickbot(i)
    <2>1. slots' = [slots EXCEPT ![i] = Empty]
      BY <1>6 DEF SV_CheckTimeouts, PlayerCmd_kickbot
    <2>2. Empty \in Slot /\ Empty.state # "CS_CONNECTED"
      BY EmptyIsSlot DEF Empty
    <2> QED
      BY <1>1, <2>1, <2>2, SlotStep
  <1> QED
    BY <1>3, <1>4, <1>5, <1>6

\* The invariant of the mutes holds at first.
LEMMA PlayersInitInv == PlayersInit => MuteInv
  <1> SUFFICES ASSUME PlayersInit PROVE MuteInv
    OBVIOUS
  <1>1. 0 \in Session
    BY PlayersAssumption DEF Session
  <1>2. \A i \in ClientNum : ~InUse(i)
    BY DEF PlayersInit, InUse, Empty
  <1>3. PlayersTypeOK
    BY <1>1, <1>2, EmptyIsSlot DEF PlayersInit, PlayersTypeOK, Unset
  <1> QED
    BY <1>2, <1>3 DEF PlayersInit, MuteInv, MuteIsOwn, OneSlotEach, OrdersPast

\* Every step keeps it.
LEMMA PlayersNextInv == MuteInv /\ [PlayersNext]_pvars => MuteInv'
  <1> SUFFICES ASSUME MuteInv, [PlayersNext]_pvars PROVE MuteInv'
    OBVIOUS
  <1>1. ASSUME NEW i \in ClientNum, NEW wanted \in Name, NEW bot \in BOOLEAN,
               NEW denied \in BOOLEAN, SV_DirectConnect(i, wanted, bot, denied)
        PROVE  MuteInv'
    BY <1>1, ConnectStep
  <1>2. ASSUME NEW i \in ClientNum, NEW wanted \in Name,
               \/ Userinfo(i, wanted) \/ PlayerCmd_renamebot(i, wanted)
               \/ Leave(i) \/ SV_CheckTimeouts(i) \/ PlayerCmd_kickbot(i)
        PROVE  MuteInv'
    BY <1>2, ClientStep
  <1>3. ASSUME NEW i \in ClientNum, SV_Mute(i) \/ SV_MuteName(i)
        PROVE  MuteInv'
    BY <1>3, MuteStep, MuteNameStep
  <1>4. ASSUME NEW word \in Word, NEW p \in 0..sv_maxclients, SV_Kick_f(word, p)
        PROVE  MuteInv'
    BY <1>4, KickStep
  <1>5. ASSUME UNCHANGED <<slots, x_clients, search_players, connects, muteOrders>>
        PROVE  MuteInv'
    BY <1>5 DEF MuteInv, PlayersTypeOK, MuteIsOwn, OneSlotEach, OrdersPast, InUse
  <1>6. ASSUME NEW i \in ClientNum, NEW cmd \in {"say", "say_team"},
               NEW halted \in BOOLEAN, NEW dead \in BOOLEAN, Say(i, cmd, halted, dead)
        PROVE  MuteInv'
    BY <1>5, <1>6 DEF Say
  <1>7. CASE UNCHANGED pvars
    BY <1>5, <1>7 DEF pvars
  <1>8. \E n \in Name : TRUE
    BY PlayersAssumption
  <1> QED
    BY <1>1, <1>2, <1>3, <1>4, <1>6, <1>7, <1>8 DEF PlayersNext

\* Who is muted is who has been muted, in every slot, for any number of slots,
\* names and connects; names are printable.
THEOREM MutesAreOwn == PlayersSpec => [](PlayersTypeOK /\ MuteIsOwn)
  <1>1. MuteInv => PlayersTypeOK /\ MuteIsOwn
    BY DEF MuteInv
  <1> QED
    BY PlayersInitInv, PlayersNextInv, <1>1, PTL DEF PlayersSpec

\* Nothing is heard by the team of one who has been muted: of all steps only Say
\* is heard, and it looks at the flag that MutesAreOwn speaks about.
THEOREM TeamIsSpared == PlayersSpec => TeamMuteHolds
  <1> DEFINE Spared == \A k \in Session :
                last' = Event("heard", k, {"say_team"}) => ~muteOrders[k]
  <1>1. MuteInv /\ [PlayersNext]_pvars => [Spared]_pvars
    <2> SUFFICES ASSUME MuteInv, PlayersNext, NEW k \in Session,
                        last' = Event("heard", k, {"say_team"})
                 PROVE  ~muteOrders[k]
      OBVIOUS
    <2>1. last'.kind = "heard" /\ last'.session = k /\ last'.what = {"say_team"}
      BY DEF Event
    <2>2. \A i \in ClientNum, wanted \in Name, bot, denied \in BOOLEAN :
                ~SV_DirectConnect(i, wanted, bot, denied)
      BY <2>1 DEF SV_DirectConnect, Silent, Nothing, Event
    <2>3. \A i \in ClientNum, wanted \in Name :
                ~Userinfo(i, wanted) /\ ~PlayerCmd_renamebot(i, wanted)
      BY <2>1 DEF Userinfo, PlayerCmd_renamebot, Silent, Nothing, Event
    <2>4. \A i \in ClientNum :
                /\ ~Leave(i) /\ ~SV_CheckTimeouts(i) /\ ~PlayerCmd_kickbot(i)
                /\ ~SV_Mute(i) /\ ~SV_MuteName(i)
      BY <2>1 DEF Leave, SV_CheckTimeouts, PlayerCmd_kickbot, SV_Mute, SV_MuteName,
                  Silent, Nothing, Event
    <2>5. \A word \in Word, p \in 0..sv_maxclients : ~SV_Kick_f(word, p)
      BY <2>1 DEF SV_Kick_f, Event
    <2>6. PICK i \in ClientNum, cmd \in {"say", "say_team"},
               halted \in BOOLEAN, dead \in BOOLEAN : Say(i, cmd, halted, dead)
      BY <2>2, <2>3, <2>4, <2>5 DEF PlayersNext
    <2>7. /\ InUse(i) /\ ~MuteStops(i, cmd)
          /\ last' = Event("heard", slots[i].session, {cmd})
      BY <2>1, <2>6 DEF Say, Nothing, Event
    <2>8. slots[i].session = k /\ {cmd} = {"say_team"}
      BY <2>1, <2>7 DEF Event
    <2>9. ~x_clients[i].muted
      BY <2>7, <2>8 DEF MuteStops
    <2> QED
      BY <2>7, <2>8, <2>9 DEF MuteInv, MuteIsOwn
  <1> QED
    BY PlayersInitInv, PlayersNextInv, <1>1, PTL DEF PlayersSpec, TeamMuteHolds


\* A kick for a word that is in somebody's name drops nobody else, and nobody at
\* all if it is in several: what earlier searches have left in search_players
\* only makes it find more.
THEOREM KicksHit == PlayersSpec => KickHitsMatch
  <1> DEFINE Aims == \A word \in Word :
                last' = Event("kick", 0, word) /\ Found(word) # {} =>
                    \A i \in ClientNum : slots'[i] # slots[i] => Found(word) = {i}
  <1>1. MuteInv /\ [PlayersNext]_pvars => [Aims]_pvars
    <2> SUFFICES ASSUME MuteInv, PlayersNext, NEW word \in Word,
                        last' = Event("kick", 0, word), Found(word) # {},
                        NEW i \in ClientNum, slots'[i] # slots[i]
                 PROVE  Found(word) = {i}
      OBVIOUS
    <2>1. last'.kind = "kick" /\ last'.what = word
      BY DEF Event
    <2>2. \A j \in ClientNum, wanted \in Name :
                /\ \A bot, denied \in BOOLEAN : ~SV_DirectConnect(j, wanted, bot, denied)
                /\ ~Userinfo(j, wanted) /\ ~PlayerCmd_renamebot(j, wanted)
      BY <2>1 DEF SV_DirectConnect, Userinfo, PlayerCmd_renamebot, Silent, Nothing, Event
    <2>3. \A j \in ClientNum :
                /\ ~Leave(j) /\ ~SV_CheckTimeouts(j) /\ ~PlayerCmd_kickbot(j)
                /\ ~SV_Mute(j) /\ ~SV_MuteName(j)
      BY <2>1 DEF Leave, SV_CheckTimeouts, PlayerCmd_kickbot, SV_Mute, SV_MuteName,
                  Silent, Nothing, Event
    <2>4. \A j \in ClientNum, cmd \in {"say", "say_team"}, halted, dead \in BOOLEAN :
                ~Say(j, cmd, halted, dead)
      BY <2>1 DEF Say, Nothing, Event
    <2>5. PICK sought \in Word, p \in 0..sv_maxclients : SV_Kick_f(sought, p)
      BY <2>2, <2>3, <2>4 DEF PlayersNext
    <2>6. sought = word
      BY <2>1, <2>5 DEF SV_Kick_f, Event
    <2> DEFINE k == CHOOSE j \in search_players' : TRUE
    <2>7. Found(word) \subseteq search_players' /\ search_players' \subseteq ClientNum
      BY <2>5, <2>6 DEF SV_Kick_f, X_GetPlayersByName, Found, MuteInv, PlayersTypeOK
    <2>8. Cardinality(search_players') = 1 /\ SV_DropClient(k)
      BY <2>5 DEF SV_Kick_f
    <2>9. search_players' = {k}
      <3>1. IsFiniteSet(search_players')
        <4>1. IsFiniteSet(0..(sv_maxclients - 1))
          BY FS_Interval, ClientNumbersAssumption
        <4> QED
          BY <2>7, <4>1, FS_Subset, Zenon DEF ClientNum
      <3>2. \E x : search_players' = {x}
        BY <2>8, <3>1, FS_Singleton
      <3> QED
        BY <3>2
    <2>10. i = k
      BY <2>7, <2>8, <2>9 DEF SV_DropClient, MuteInv, PlayersTypeOK
    <2> QED
      BY <2>7, <2>9, <2>10
  <1> QED
    BY PlayersInitInv, PlayersNextInv, <1>1, PTL DEF PlayersSpec, KickHitsMatch

------------------------------------------------------------------------------
(* VaRing *)

\* The next string goes behind the newest one, and that lies in the buffer.
VaInv ==
    /\ VaTypeOK
    /\ newest # NoText => index = newest.at + newest.len + 1

\* The invariant of va holds at first.
LEMMA VaInitInv == VaInit => VaInv
  BY VaAssumption DEF VaInit, VaInv, VaTypeOK, Text, Lengths, NoText

\* Every call keeps it.
LEMMA VaNextInv == VaInv /\ [VaNext]_vvars => VaInv'
  <1> SUFFICES ASSUME VaInv, [VaNext]_vvars PROVE VaInv'
    OBVIOUS
  <1>1. CASE UNCHANGED vvars
    BY <1>1 DEF VaInv, VaTypeOK, vvars, Cells
  <1>2. ASSUME NEW len \in Lengths, va(len)
        PROVE  VaInv'
    <2>1. /\ newest' = [at |-> Start(len), len |-> len]
          /\ index' = Start(len) + len + 1
      BY <1>2 DEF va, Behind
    <2>2. /\ Start(len) \in Nat
          /\ Start(len) + len + 1 <= MAX_VA_STRING
      BY VaAssumption DEF Start, Lengths, VaInv, VaTypeOK
    <2>3. newest'.at = Start(len) /\ newest'.len = len
      BY <2>1
    <2>4. newest' \in Text /\ newest' # NoText
      BY <2>1, <2>2, <2>3 DEF Text, NoText
    <2>5. Cells(newest)' \subseteq Lengths
      BY <2>2, <2>3, VaAssumption DEF Cells, Lengths
    <2>6. index' \in 0..MAX_VA_STRING
      BY <2>1, <2>2, VaAssumption DEF Lengths
    <2> QED
      BY <2>1, <2>3, <2>4, <2>5, <2>6 DEF VaInv, VaTypeOK
  <1> QED
    BY <1>1, <1>2 DEF VaNext

\* va never writes outside its buffer, whatever the size of it.
THEOREM VaStaysInside == VaSpec => []VaTypeOK
  <1>1. VaInv => VaTypeOK
    BY DEF VaInv
  <1> QED
    BY VaInitInv, VaNextInv, <1>1, PTL DEF VaSpec

\* A string is intact until after the next call, if both are short: when the
\* next one does not fit behind it, it starts so far in that it is not reached.
THEOREM VaKeepsPrevious == VaSpec => PreviousIsKept
  <1> DEFINE Held == (3 * newest.len + 3 <= MAX_VA_STRING
                        /\ 3 * newest'.len + 3 <= MAX_VA_STRING)
                      => Cells(newest) \cap Cells(newest') = {}
  <1>1. VaInv /\ [VaNext]_vvars => [Held]_vvars
    <2> SUFFICES ASSUME VaInv, NEW len \in Lengths, va(len),
                        3 * newest.len + 3 <= MAX_VA_STRING,
                        3 * newest'.len + 3 <= MAX_VA_STRING
                 PROVE  Cells(newest) \cap Cells(newest') = {}
      BY DEF VaNext
    <2>1. newest'.at = Start(len) /\ newest'.len = len
      BY DEF va
    <2>2. newest.at \in Int /\ newest.len \in Int /\ len \in Nat /\ index \in Int
      BY VaAssumption DEF VaInv, VaTypeOK, Text, Lengths
    <2>3. CASE newest = NoText
      <3>1. Cells(newest) = (-1)..(-1)
        BY <2>3 DEF Cells, NoText
      <3>2. Start(len) >= 0 /\ Start(len) \in Int
        BY DEF Start, VaInv, VaTypeOK
      <3> QED
        BY <2>1, <2>2, <3>1, <3>2 DEF Cells
    <2>4. CASE newest # NoText
      <3>1. index = newest.at + newest.len + 1
        BY <2>4 DEF VaInv
      <3>2. \/ Start(len) > newest.at + newest.len
            \/ Start(len) + len < newest.at
        BY <2>1, <2>2, <3>1, VaAssumption DEF Start
      <3>3. Start(len) \in Int
        BY <2>2 DEF Start
      <3> QED
        BY <2>1, <2>2, <3>2, <3>3 DEF Cells
    <2> QED
      BY <2>3, <2>4
  <1> QED
    BY VaInitInv, VaNextInv, <1>1, PTL DEF VaSpec, PreviousIsKept

------------------------------------------------------------------------------
(* Heartbeat *)

\* A cvar whose value has been looked up has the address of that value, and
\* the frames since the last heartbeat make up for what is left to wait.
BeatInv ==
    /\ HeartbeatTypeOK
    /\ \A i \in Master : sv_master[i].string # NoHost /\ ~sv_master[i].modified
                            => sv_master[i].adr = sv_master[i].string
    /\ HeartbeatsGoToCurrent
    /\ forced \/ sinceBeat + nextHeartbeat >= MinBeat

\* The invariant of the heartbeats holds at first.
LEMMA BeatInitInv == HeartbeatInit => BeatInv
  <1>1. \E u \in HeartbeatTimes \cup {MinBeat} : 0 <= u
    BY HeartbeatAssumption
  <1> SUFFICES ASSUME HeartbeatInit PROVE BeatInv
    OBVIOUS
  <1>2. HeartbeatTypeOK
    <2>1. sinceBeat \in 0..MinBeat /\ nextHeartbeat \in Nat
      BY HeartbeatAssumption DEF HeartbeatInit
    <2>2. \E u \in HeartbeatTimes \cup {MinBeat} : nextHeartbeat <= u
      BY <1>1 DEF HeartbeatInit
    <2> QED
      BY <2>1, <2>2 DEF HeartbeatInit, HeartbeatTypeOK
  <1> QED
    BY <1>2, HeartbeatAssumption
    DEF HeartbeatInit, BeatInv, HeartbeatsGoToCurrent, HeartbeatTypeOK

\* A heartbeat that is due.
LEMMA DueStep ==
    ASSUME BeatInv, NEW up \in SUBSET Host, NEW t \in HeartbeatTimes,
           SV_MasterHeartBeat(up, t), dedicated, Later(nextHeartbeat) = 0
    PROVE  BeatInv'
  <1>1. /\ nextHeartbeat' = Period(t) /\ sinceBeat' = 0 /\ forced' = FALSE
        /\ sv_master' = [i \in Master |-> Resolved(sv_master[i], up)]
        /\ sent' = ToAll(sv_master') /\ dedicated' = dedicated
    BY DEF SV_MasterHeartBeat
  <1>2. /\ Period(t) \in Nat /\ Period(t) >= MinBeat
        /\ \E u \in HeartbeatTimes \cup {MinBeat} : Period(t) <= u
    BY HeartbeatAssumption DEF Period
  <1>3. ASSUME NEW i \in Master
        PROVE  /\ sv_master'[i] \in [string : Host \cup {NoHost}, modified : BOOLEAN,
                                     adr : Host \cup {NoHost}]
               /\ sv_master'[i].string # NoHost => sv_master'[i].adr = sv_master'[i].string
    <2> DEFINE m == sv_master[i]
    <2>1. /\ m \in [string : Host \cup {NoHost}, modified : BOOLEAN, adr : Host \cup {NoHost}]
          /\ m.string # NoHost /\ ~m.modified => m.adr = m.string
      BY DEF BeatInv, HeartbeatTypeOK
    <2>2. sv_master'[i] = Resolved(m, up)
      BY <1>1
    <2> HIDE DEF m
    <2>3. CASE m.string = NoHost \/ ~m.modified
      BY <2>1, <2>2, <2>3 DEF Resolved
    <2>4. CASE m.string # NoHost /\ m.modified /\ m.string \in up
      <3>1. sv_master'[i] = [m EXCEPT !.modified = FALSE, !.adr = m.string]
        BY <2>2, <2>4 DEF Resolved
      <3> QED
        BY <2>1, <3>1
    <2>5. CASE m.string # NoHost /\ m.modified /\ m.string \notin up
      <3>1. sv_master'[i] = [m EXCEPT !.modified = FALSE, !.string = NoHost]
        BY <2>2, <2>5 DEF Resolved
      <3> QED
        BY <2>1, <3>1
    <2> QED
      BY <2>3, <2>4, <2>5
  <1>4. \A i \in Master, host \in Host \cup {NoHost} :
            <<i, host>> \in sent' => host = sv_master'[i].string
    BY <1>1, <1>3 DEF ToAll
  <1>5. sent' \subseteq Master \X (Host \cup {NoHost})
    BY <1>1, <1>3 DEF ToAll
  <1>6. sv_master' \in [Master -> [string : Host \cup {NoHost}, modified : BOOLEAN,
                                   adr : Host \cup {NoHost}]]
    BY <1>1, <1>3
  <1>7. HeartbeatTypeOK'
    <2>1. sinceBeat' \in 0..MinBeat /\ nextHeartbeat' \in Nat
      BY <1>1, <1>2, HeartbeatAssumption
    <2>2. \E u \in HeartbeatTimes \cup {MinBeat} : nextHeartbeat' <= u
      BY <1>1, <1>2
    <2> QED
      BY <1>1, <1>5, <1>6, <2>1, <2>2 DEF BeatInv, HeartbeatTypeOK
  <1>8. HeartbeatsGoToCurrent'
    BY <1>4 DEF HeartbeatsGoToCurrent
  <1> QED
    BY <1>1, <1>2, <1>3, <1>7, <1>8, HeartbeatAssumption DEF BeatInv

\* A frame without one.
LEMMA WaitStep ==
    ASSUME BeatInv, NEW up \in SUBSET Host, NEW t \in HeartbeatTimes,
           SV_MasterHeartBeat(up, t), ~(dedicated /\ Later(nextHeartbeat) = 0)
    PROVE  BeatInv'
  <1>1. /\ nextHeartbeat' = Later(nextHeartbeat) /\ sent' = {}
        /\ sinceBeat' = IF sinceBeat < MinBeat THEN sinceBeat + 1 ELSE MinBeat
        /\ UNCHANGED <<sv_master, forced, dedicated>>
    BY DEF SV_MasterHeartBeat
  <1>2. /\ nextHeartbeat \in Nat /\ sinceBeat \in 0..MinBeat /\ MinBeat \in Nat
        /\ forced \/ sinceBeat + nextHeartbeat >= MinBeat
        /\ \E u \in HeartbeatTimes \cup {MinBeat} : nextHeartbeat <= u
    BY HeartbeatAssumption DEF BeatInv, HeartbeatTypeOK
  <1>3. nextHeartbeat' \in Nat /\ nextHeartbeat' <= nextHeartbeat
        /\ nextHeartbeat' >= nextHeartbeat - 1
    BY <1>1, <1>2 DEF Later
  <1>4. sinceBeat' \in 0..MinBeat /\ (forced \/ sinceBeat' + nextHeartbeat' >= MinBeat)
    BY <1>1, <1>2, <1>3
  <1>5. \E u \in HeartbeatTimes \cup {MinBeat} : nextHeartbeat' <= u
    BY <1>2, <1>3, HeartbeatAssumption
  <1>6. HeartbeatTypeOK'
    BY <1>1, <1>3, <1>4, <1>5 DEF BeatInv, HeartbeatTypeOK
  <1> QED
    BY <1>1, <1>4, <1>6 DEF BeatInv, HeartbeatsGoToCurrent

\* Every step keeps it.
LEMMA BeatNextInv == BeatInv /\ [HeartbeatNext]_hvars => BeatInv'
  <1> SUFFICES ASSUME BeatInv, [HeartbeatNext]_hvars PROVE BeatInv'
    OBVIOUS
  <1>1. CASE Frame
    BY <1>1, DueStep, WaitStep DEF Frame
  <1>2. CASE SV_Heartbeat_f
    <2>1. \E u \in HeartbeatTimes \cup {MinBeat} : 0 <= u
      BY HeartbeatAssumption
    <2> QED
      BY <1>2, <2>1 DEF SV_Heartbeat_f, BeatInv, HeartbeatTypeOK, HeartbeatsGoToCurrent
  <1>3. ASSUME NEW i \in Master, NEW host \in Host \cup {NoHost}, SetMaster(i, host)
        PROVE  BeatInv'
    <2> DEFINE m == [sv_master[i] EXCEPT !.string = host, !.modified = TRUE]
    <2>1. /\ sv_master' = [sv_master EXCEPT ![i] = m] /\ sent' = {}
          /\ UNCHANGED <<dedicated, nextHeartbeat, sinceBeat, forced>>
      BY <1>3 DEF SetMaster
    <2>2. /\ m \in [string : Host \cup {NoHost}, modified : BOOLEAN, adr : Host \cup {NoHost}]
          /\ m.modified
      BY DEF BeatInv, HeartbeatTypeOK
    <2> HIDE DEF m
    <2>3. HeartbeatTypeOK'
      BY <2>1, <2>2 DEF BeatInv, HeartbeatTypeOK
    <2>4. \A j \in Master : sv_master'[j] = IF j = i THEN m ELSE sv_master[j]
      BY <2>1 DEF BeatInv, HeartbeatTypeOK
    <2> QED
      BY <2>1, <2>2, <2>3, <2>4 DEF BeatInv, HeartbeatsGoToCurrent
  <1>4. CASE SetDedicated
    BY <1>4 DEF SetDedicated, BeatInv, HeartbeatTypeOK, HeartbeatsGoToCurrent
  <1>5. CASE UNCHANGED hvars
    BY <1>5 DEF hvars, BeatInv, HeartbeatTypeOK, HeartbeatsGoToCurrent
  <1> QED
    BY <1>1, <1>2, <1>3, <1>4, <1>5 DEF HeartbeatNext

\* No heartbeat goes to an address left over from an earlier value of the cvar.
THEOREM HeartbeatsFollowCvars ==
    HeartbeatSpec => [](HeartbeatTypeOK /\ HeartbeatsGoToCurrent)
  <1>1. BeatInv => HeartbeatTypeOK /\ HeartbeatsGoToCurrent
    BY DEF BeatInv
  <1> QED
    BY BeatInitInv, BeatNextInv, <1>1, PTL DEF HeartbeatSpec

\* Heartbeats nobody has asked for are 18 seconds apart.
THEOREM HeartbeatSpacing == HeartbeatSpec => HeartbeatsAreSpaced
  <1> DEFINE Spaced == sent' # {} => sinceBeat + 1 >= MinBeat \/ forced
  <1>1. BeatInv /\ [HeartbeatNext]_hvars => [Spaced]_hvars
    <2> SUFFICES ASSUME BeatInv, HeartbeatNext, sent' # {}
                 PROVE  sinceBeat + 1 >= MinBeat \/ forced
      OBVIOUS
    <2>1. PICK up \in SUBSET Host, t \in HeartbeatTimes : SV_MasterHeartBeat(up, t)
      BY DEF HeartbeatNext, SV_Heartbeat_f, SetMaster, SetDedicated, Frame
    <2>2. Later(nextHeartbeat) = 0
      BY <2>1 DEF SV_MasterHeartBeat
    <2>3. nextHeartbeat <= 1
      BY <2>2 DEF Later, BeatInv, HeartbeatTypeOK
    <2> QED
      BY <2>3, HeartbeatAssumption DEF BeatInv, HeartbeatTypeOK
  <1> QED
    BY BeatInitInv, BeatNextInv, <1>1, PTL DEF HeartbeatSpec, HeartbeatsAreSpaced

------------------------------------------------------------------------------
(* Info strings.  A string is a sequence of pairs, and a set is a removal of  *)
(* the first pair with the key and an addition at the front or behind.        *)

\* The first place of a key is found if there is one.
LEMMA FirstIsFound ==
    ASSUME NEW s \in Seq(Pair), NEW key \in Key, Places(s, key) # {}
    PROVE  /\ FirstPlace(s, key) \in Places(s, key)
           /\ \A n \in Places(s, key) : FirstPlace(s, key) <= n
           /\ FirstPlace(s, key) \in 1..Len(s)
  <1>1. Places(s, key) \in SUBSET Nat /\ Places(s, key) \subseteq 1..Len(s)
    BY DEF Places
  <1>2. \E n \in Places(s, key) : \A m \in Places(s, key) : n <= m
    BY <1>1, LeastOf, Zenon
  <1>3. /\ FirstPlace(s, key) \in Places(s, key)
        /\ \A n \in Places(s, key) : FirstPlace(s, key) <= n
    BY <1>2, Zenon DEF FirstPlace
  <1> QED
    BY <1>1, <1>3

\* The value of a key is that of the place with the key that has none before it.
LEMMA ValueIs ==
    ASSUME NEW s \in Seq(Pair), NEW key \in Key, NEW n \in Places(s, key),
           \A m \in Places(s, key) : n <= m
    PROVE  Info_ValueForKey(s, key) = s[n].value
  <1>1. Places(s, key) # {} /\ Places(s, key) \subseteq Nat
    BY DEF Places
  <1>2. FirstPlace(s, key) = n
    BY <1>1, FirstIsFound
  <1> QED
    BY <1>1, <1>2 DEF Info_ValueForKey

\* A slice of a string has the pairs of its places.
LEMMA SliceOf ==
    ASSUME NEW s \in Seq(Pair), NEW a \in 1..(Len(s) + 1), NEW b \in 0..Len(s),
           a <= b + 1
    PROVE  /\ SubSeq(s, a, b) \in Seq(Pair)
           /\ Len(SubSeq(s, a, b)) = b - a + 1
           /\ \A n \in 1..(b - a + 1) : SubSeq(s, a, b)[n] = s[a + n - 1]
  <1>1. a \in Int /\ b \in Int /\ \A n \in a..b : s[n] \in Pair
    OBVIOUS
  <1>2. /\ SubSeq(s, a, b) \in Seq(Pair)
        /\ Len(SubSeq(s, a, b)) = IF a <= b THEN b - a + 1 ELSE 0
        /\ \A n \in 1..(b - a + 1) : SubSeq(s, a, b)[n] = s[a + n - 1]
    BY <1>1, SubSeqProperties
  <1> QED
    BY <1>1, <1>2

\* What is left of a string without one of its places.
LEMMA RemovedAt ==
    ASSUME NEW s \in Seq(Pair), NEW p \in 1..Len(s)
    PROVE  /\ RemoveAt(s, p) \in Seq(Pair)
           /\ Len(RemoveAt(s, p)) = Len(s) - 1
           /\ \A n \in 1..(Len(s) - 1) :
                    RemoveAt(s, p)[n] = IF n < p THEN s[n] ELSE s[n + 1]
  <1> DEFINE before == SubSeq(s, 1, p - 1)
             behind == SubSeq(s, p + 1, Len(s))
  <1>1. Len(s) \in Nat /\ p \in Nat /\ \A n \in 1..Len(s) : s[n] \in Pair
    OBVIOUS
  <1>2. /\ before \in Seq(Pair) /\ Len(before) = p - 1
        /\ \A n \in 1..(p - 1) : before[n] = s[n]
    <2>1. /\ 1 \in 1..(Len(s) + 1) /\ p - 1 \in 0..Len(s) /\ 1 <= (p - 1) + 1
          /\ (p - 1) - 1 + 1 = p - 1 /\ \A n \in 1..(p - 1) : 1 + n - 1 = n
      BY <1>1
    <2>2. /\ before \in Seq(Pair)
          /\ Len(before) = p - 1
          /\ \A n \in 1..(p - 1) : before[n] = s[n]
      BY <1>1, <2>1, SliceOf
    <2> HIDE DEF before
    <2> QED
      BY <1>1, <2>2
  <1>3. /\ behind \in Seq(Pair) /\ Len(behind) = Len(s) - p
        /\ \A n \in 1..(Len(s) - p) : behind[n] = s[p + n]
    <2>1. p + 1 \in Int /\ Len(s) \in Int /\ \A n \in (p + 1)..Len(s) : s[n] \in Pair
      BY <1>1
    <2>2. p + 1 \in 1..(Len(s) + 1) /\ Len(s) \in 0..Len(s) /\ p + 1 <= Len(s) + 1
          /\ Len(s) - (p + 1) + 1 = Len(s) - p
      BY <1>1
    <2>3. /\ behind \in Seq(Pair)
          /\ Len(behind) = Len(s) - p
          /\ \A n \in 1..(Len(s) - p) : behind[n] = s[(p + 1) + n - 1]
      BY <1>1, <2>1, <2>2, SliceOf
    <2> HIDE DEF behind
    <2>4. ASSUME NEW n \in 1..(Len(s) - p) PROVE (p + 1) + n - 1 = p + n
      BY <1>1
    <2> QED
      BY <2>3, <2>4
  <1>4. RemoveAt(s, p) = before \o behind
    BY DEF RemoveAt
  <1> HIDE DEF before, behind
  <1>5. /\ before \o behind \in Seq(Pair)
        /\ Len(before \o behind) = Len(before) + Len(behind)
        /\ \A n \in 1..(Len(before) + Len(behind)) : (before \o behind)[n] =
                IF n <= Len(before) THEN before[n] ELSE behind[n - Len(before)]
    BY <1>2, <1>3, ConcatProperties, Zenon
  <1>6. Len(before) + Len(behind) = Len(s) - 1
    BY <1>1, <1>2, <1>3
  <1>7. ASSUME NEW n \in 1..(Len(s) - 1)
        PROVE  RemoveAt(s, p)[n] = IF n < p THEN s[n] ELSE s[n + 1]
    <2>1. RemoveAt(s, p)[n] = IF n <= p - 1 THEN before[n] ELSE behind[n - (p - 1)]
      BY <1>2, <1>4, <1>5, <1>6
    <2>2. CASE n < p
      BY <1>1, <1>2, <2>1, <2>2
    <2>3. CASE ~(n < p)
      <3>1. n - (p - 1) \in 1..(Len(s) - p) /\ p + (n - (p - 1)) = n + 1
        BY <1>1, <2>3
      <3>2. behind[n - (p - 1)] = s[n + 1]
        BY <1>3, <3>1
      <3> QED
        BY <1>1, <2>1, <2>3, <3>2
    <2> QED
      BY <2>2, <2>3
  <1> QED
    BY <1>4, <1>5, <1>6, <1>7

\* Removing a place of another key leaves a key its value.
LEMMA OtherValueStays ==
    ASSUME NEW s \in Seq(Pair), NEW key \in Key, NEW p \in 1..Len(s),
           p \notin Places(s, key)
    PROVE  Info_ValueForKey(RemoveAt(s, p), key) = Info_ValueForKey(s, key)
  <1> DEFINE r == RemoveAt(s, p)
             old(n) == IF n < p THEN n ELSE n + 1
  <1>1. /\ r \in Seq(Pair) /\ Len(r) = Len(s) - 1 /\ Len(s) \in Nat
        /\ \A n \in 1..(Len(s) - 1) : r[n] = s[old(n)]
    BY RemovedAt
  <1> HIDE DEF r
  <1>2. ASSUME NEW n \in 1..(Len(s) - 1)
        PROVE  n \in Places(r, key) <=> old(n) \in Places(s, key)
    <2>1. n \in 1..Len(r) /\ old(n) \in 1..Len(s) /\ r[n] = s[old(n)]
      BY <1>1
    <2> HIDE DEF old
    <2> QED
      BY <2>1 DEF Places
  <1>3. CASE Places(s, key) = {}
    <2>1. Places(r, key) \subseteq 1..(Len(s) - 1)
      BY <1>1 DEF Places
    <2>2. Places(r, key) = {}
      BY <1>2, <1>3, <2>1
    <2> QED
      BY <1>3, <2>2 DEF Info_ValueForKey, r
  <1>4. CASE Places(s, key) # {}
    <2> DEFINE q == FirstPlace(s, key)
               n == IF q < p THEN q ELSE q - 1
    <2>1. /\ q \in Places(s, key) /\ q \in 1..Len(s)
          /\ \A m \in Places(s, key) : q <= m
      BY <1>4, FirstIsFound
    <2>2. q # p
      BY <2>1
    <2> HIDE DEF q
    <2>3. n \in 1..(Len(s) - 1) /\ old(n) = q
      BY <1>1, <2>1, <2>2
    <2>4. n \in Places(r, key) /\ r[n] = s[q]
      BY <1>1, <1>2, <2>1, <2>3
    <2>5. \A m \in Places(r, key) : n <= m
      <3> SUFFICES ASSUME NEW m \in Places(r, key) PROVE n <= m
        OBVIOUS
      <3>1. m \in 1..(Len(s) - 1)
        BY <1>1 DEF Places
      <3>2. q <= old(m)
        BY <1>2, <2>1, <3>1
      <3> QED
        BY <1>1, <2>1, <2>2, <3>1, <3>2
    <2> HIDE DEF n
    <2>6. Info_ValueForKey(r, key) = r[n].value
      BY <1>1, <2>4, <2>5, ValueIs
    <2>7. Info_ValueForKey(s, key) = s[q].value
      BY <2>1, ValueIs
    <2> QED
      BY <2>4, <2>6, <2>7 DEF r
  <1> QED
    BY <1>3, <1>4

\* A pair at the end changes the value of no key that has one, or is another.
LEMMA ValueBehind ==
    ASSUME NEW s \in Seq(Pair), NEW pair \in Pair, NEW key \in Key
    PROVE  /\ Append(s, pair) \in Seq(Pair)
           /\ Places(s, key) # {} \/ ~SameKey(key, pair.key) =>
                Info_ValueForKey(Append(s, pair), key) = Info_ValueForKey(s, key)
           /\ Places(s, key) = {} /\ SameKey(key, pair.key) =>
                Info_ValueForKey(Append(s, pair), key) = pair.value
  <1> DEFINE t == Append(s, pair)
  <1>1. /\ t \in Seq(Pair) /\ Len(t) = Len(s) + 1 /\ Len(s) \in Nat
        /\ \A n \in 1..Len(s) : t[n] = s[n]
        /\ t[Len(s) + 1] = pair
    OBVIOUS
  <1> HIDE DEF t
  <1>2. SameKey(key, pair.key) <=> SameKey(pair.key, key)
    BY DEF SameKey
  <1>3. Places(t, key) = Places(s, key) \cup
            (IF SameKey(key, pair.key) THEN {Len(s) + 1} ELSE {})
    BY <1>1, <1>2 DEF Places
  <1>4. CASE Places(s, key) # {}
    <2> DEFINE q == FirstPlace(s, key)
    <2>1. /\ q \in Places(s, key) /\ q \in 1..Len(s)
          /\ \A m \in Places(s, key) : q <= m
      BY <1>4, FirstIsFound
    <2> HIDE DEF q
    <2>2. q \in Places(t, key) /\ \A m \in Places(t, key) : q <= m
      BY <1>1, <1>3, <2>1
    <2>3. Info_ValueForKey(t, key) = t[q].value /\ Info_ValueForKey(s, key) = s[q].value
      BY <1>1, <2>1, <2>2, ValueIs
    <2> QED
      BY <1>1, <1>4, <2>1, <2>3 DEF t
  <1>5. CASE Places(s, key) = {} /\ SameKey(key, pair.key)
    <2>1. Places(t, key) = {Len(s) + 1}
      BY <1>3, <1>5
    <2>2. Len(s) + 1 \in Places(t, key) /\ \A m \in Places(t, key) : Len(s) + 1 <= m
      BY <1>1, <2>1
    <2>3. Info_ValueForKey(t, key) = t[Len(s) + 1].value
      BY <1>1, <2>2, ValueIs
    <2> QED
      BY <1>1, <1>5, <2>3 DEF t
  <1>6. CASE Places(s, key) = {} /\ ~SameKey(key, pair.key)
    <2>1. Places(t, key) = {}
      BY <1>3, <1>6
    <2> QED
      BY <1>1, <1>6, <2>1 DEF t, Info_ValueForKey
  <1> QED
    BY <1>1, <1>4, <1>5, <1>6 DEF t

\* A key that was there once at most is gone when it is removed.
LEMMA OwnKeyGoes ==
    ASSUME NEW s \in Seq(Pair), NEW key \in Key, Cardinality(Places(s, key)) <= 1
    PROVE  Places(Info_RemoveKey(s, key), key) = {}
  <1>1. CASE Places(s, key) = {}
    BY <1>1 DEF Info_RemoveKey
  <1>2. CASE Places(s, key) # {}
    <2> DEFINE p == FirstPlace(s, key)
               r == RemoveAt(s, p)
    <2>1. p \in Places(s, key) /\ p \in 1..Len(s) /\ Len(s) \in Nat
      BY <1>2, FirstIsFound
    <2> HIDE DEF p
    <2>2. Places(s, key) = {p}
      <3>1. Places(s, key) \in SUBSET (1..Len(s))
        BY DEF Places
      <3>2. IsFiniteSet(1..Len(s))
        BY <2>1, FS_Interval
      <3>3. IsFiniteSet(Places(s, key))
        BY <3>1, <3>2, FS_Subset
      <3>4. {p} \in SUBSET Places(s, key) /\ Cardinality({p}) = 1
        BY <2>1, FS_Singleton
      <3>5. /\ Cardinality({p}) <= Cardinality(Places(s, key))
            /\ Cardinality(Places(s, key)) = Cardinality({p}) => Places(s, key) = {p}
        BY <3>3, <3>4, FS_Subset
      <3>6. Cardinality(Places(s, key)) \in Nat
        BY <3>3, FS_CardinalityType
      <3> QED
        BY <3>4, <3>5, <3>6
    <2>3. /\ r \in Seq(Pair) /\ Len(r) = Len(s) - 1
          /\ \A n \in 1..(Len(s) - 1) : r[n] = IF n < p THEN s[n] ELSE s[n + 1]
      BY <2>1, RemovedAt
    <2>4. Info_RemoveKey(s, key) = r
      BY <1>2 DEF Info_RemoveKey, p
    <2> HIDE DEF r
    <2>5. ASSUME NEW n \in Places(r, key) PROVE FALSE
      <3>1. n \in 1..(Len(s) - 1) /\ SameKey(r[n].key, key)
        BY <2>3 DEF Places
      <3>2. CASE n < p
        <4>1. n \in Places(s, key)
          BY <2>1, <2>3, <3>1, <3>2 DEF Places
        <4> QED
          BY <2>1, <2>2, <3>1, <3>2, <4>1
      <3>3. CASE ~(n < p)
        <4>1. n + 1 \in Places(s, key)
          BY <2>1, <2>3, <3>1, <3>3 DEF Places
        <4> QED
          BY <2>1, <2>2, <3>1, <3>3, <4>1
      <3> QED
        BY <3>2, <3>3
    <2> QED
      BY <2>4, <2>5
  <1> QED
    BY <1>1, <1>2

\* Removing a key leaves all others their values.
LEMMA RemovalIsExact ==
    ASSUME NEW s \in Seq(Pair), NEW gone \in Key
    PROVE  /\ Info_RemoveKey(s, gone) \in Seq(Pair)
           /\ \A key \in Key : ~SameKey(key, gone) =>
                Info_ValueForKey(Info_RemoveKey(s, gone), key) = Info_ValueForKey(s, key)
  <1>1. CASE Places(s, gone) = {}
    BY <1>1 DEF Info_RemoveKey
  <1>2. CASE Places(s, gone) # {}
    <2> DEFINE p == FirstPlace(s, gone)
    <2>1. p \in Places(s, gone) /\ p \in 1..Len(s)
      BY <1>2, FirstIsFound
    <2>2. Info_RemoveKey(s, gone) = RemoveAt(s, p)
      BY <1>2 DEF Info_RemoveKey
    <2> HIDE DEF p
    <2>3. \A key \in Key : ~SameKey(key, gone) => p \notin Places(s, key)
      BY <2>1 DEF Places, SameKey
    <2> QED
      BY <2>1, <2>2, <2>3, RemovedAt, OtherValueStays
  <1> QED
    BY <1>1, <1>2

\* Setting a pair changes no other key's value, and a key that was there once
\* at most has the value it was set to, or none.
THEOREM SetsAreExact == InfoSpec => SetIsExact
  <1> DEFINE Typed == info \in Seq(Pair)
             Exact == set' # NoPair => \A key \in Key :
                /\ ~SameKey(key, set'.key) =>
                        Info_ValueForKey(info', key) = Info_ValueForKey(info, key)
                /\ set'.key = key /\ Cardinality(Places(info, key)) <= 1 =>
                        Info_ValueForKey(info', key) \in {set'.value, ""}
  <1>1. InfoInit => Typed
    BY InfoAssumption DEF InfoInit
  <1>2. ASSUME Typed, NEW key \in Key, NEW value \in Value \cup {""},
               Info_SetValueForKey(key, value)
        PROVE  Typed' /\ Exact
    <2> DEFINE rest == Info_RemoveKey(info, key)
               pair == [key |-> key, value |-> value]
    <2>1. /\ rest \in Seq(Pair)
          /\ \A e \in Key : ~SameKey(e, key) =>
                Info_ValueForKey(rest, e) = Info_ValueForKey(info, e)
      BY <1>2, RemovalIsExact
    <2>2. set'.key = key /\ set'.value = value
      BY <1>2 DEF Info_SetValueForKey
    <2>3. Cardinality(Places(info, key)) <= 1 => Places(rest, key) = {}
      BY <1>2, OwnKeyGoes
    <2>4. info' = IF value # "" /\ HasRoom(rest, key, value) THEN Append(rest, pair) ELSE rest
      BY <1>2 DEF Info_SetValueForKey, WithPair
    <2> HIDE DEF rest, pair
    <2>5. CASE info' = rest
      <3>1. Places(rest, key) = {} => Info_ValueForKey(rest, key) = ""
        BY DEF Info_ValueForKey
      <3> QED
        BY <2>1, <2>2, <2>3, <2>5, <3>1
    <2>6. CASE value # "" /\ info' = Append(rest, pair)
      <3>1. pair \in Pair /\ pair.key = key /\ pair.value = value
        BY <2>6 DEF Pair, pair
      <3>2. ASSUME NEW e \in Key
            PROVE  /\ Append(rest, pair) \in Seq(Pair)
                   /\ ~SameKey(e, key) =>
                        Info_ValueForKey(Append(rest, pair), e) = Info_ValueForKey(rest, e)
                   /\ Places(rest, e) = {} /\ SameKey(e, key) =>
                        Info_ValueForKey(Append(rest, pair), e) = value
        BY <2>1, <3>1, ValueBehind
      <3>3. SameKey(key, key)
        BY DEF SameKey
      <3> QED
        BY <2>1, <2>2, <2>3, <2>6, <3>2, <3>3
    <2> QED
      BY <2>4, <2>5, <2>6
  <1>3. Typed /\ [InfoNext]_ivars => Typed' /\ [Exact]_ivars
    <2> SUFFICES ASSUME Typed, [InfoNext]_ivars PROVE Typed' /\ [Exact]_ivars
      OBVIOUS
    <2>1. CASE UNCHANGED ivars
      BY <2>1 DEF ivars
    <2>2. ASSUME NEW key \in Key, NEW value \in Value \cup {""}, Info_SetRefused(key, value)
          PROVE  Typed' /\ Exact
      BY <2>2 DEF Info_SetRefused
    <2> QED
      BY <1>2, <2>1, <2>2 DEF InfoNext
  <1> QED
    BY <1>1, <1>3, PTL DEF InfoSpec, SetIsExact

------------------------------------------------------------------------------
(* What is set for players and where it shows.  First the lengths of lists:   *)
(* Total is followed, as far as wanted, by a function that adds up.           *)

\* f satisfies the equation of the function of Total as far as n.
AddsUp(f, w, n) == f = [k \in 0..n |-> IF k = 0 THEN 0 ELSE f[k - 1] + w[k]]

\* There is such a function, and its values are numbers, however far it is to go.
LEMMA AddsUpExists ==
    ASSUME NEW w \in Seq(Nat), NEW n \in 0..Len(w)
    PROVE  \E f \in [0..n -> Nat] : AddsUp(f, w, n)
  <1> DEFINE Done == {m \in Nat : m <= Len(w) => \E f \in [0..m -> Nat] : AddsUp(f, w, m)}
  <1>1. 0 \in Done
    <2> DEFINE f == [k \in 0..0 |-> 0]
    <2>1. f = [k \in 0..0 |-> IF k = 0 THEN 0 ELSE f[k - 1] + w[k]] /\ f \in [0..0 -> Nat]
      OBVIOUS
    <2> QED
      BY <2>1, Zenon DEF AddsUp
  <1>2. ASSUME NEW m \in Done PROVE m + 1 \in Done
    <2> SUFFICES ASSUME m + 1 <= Len(w)
                 PROVE  \E f \in [0..(m + 1) -> Nat] : AddsUp(f, w, m + 1)
      OBVIOUS
    <2>1. PICK f \in [0..m -> Nat] :
                f = [k \in 0..m |-> IF k = 0 THEN 0 ELSE f[k - 1] + w[k]]
      <3>1. m <= Len(w)
        OBVIOUS
      <3> QED
        BY <3>1, Zenon DEF AddsUp
    <2>2. m \in Nat /\ m + 1 \in 1..Len(w) /\ w[m + 1] \in Nat
      OBVIOUS
    <2> DEFINE g == [k \in 0..(m + 1) |-> IF k = m + 1 THEN f[m] + w[k] ELSE f[k]]
    <2>3. g \in [0..(m + 1) -> Nat]
      <3>1. ASSUME NEW k \in 0..(m + 1)
            PROVE  (IF k = m + 1 THEN f[m] + w[k] ELSE f[k]) \in Nat
        <4>1. CASE k = m + 1
          <5>1. m \in 0..m
            BY <2>2
          <5>2. f[m] \in Nat
            BY <2>1, <5>1
          <5>3. f[m] + w[m + 1] \in Nat
            BY <2>2, <5>2
          <5> QED
            BY <4>1, <5>3
        <4>2. CASE k # m + 1
          <5>1. k \in 0..m
            BY <2>2, <4>2
          <5> QED
            BY <2>1, <4>2, <5>1
        <4> QED
          BY <4>1, <4>2
      <3> QED
        BY <3>1
    <2>4. ASSUME NEW k \in 0..(m + 1)
          PROVE  g[k] = IF k = 0 THEN 0 ELSE g[k - 1] + w[k]
      <3>1. CASE k = 0
        BY <2>1, <2>2, <3>1
      <3>2. CASE k \in 1..m
        <4>1. f[k] = f[k - 1] + w[k]
          BY <2>1, <2>2, <3>2
        <4>2. k # 0 /\ k # m + 1 /\ k - 1 # m + 1 /\ k - 1 \in 0..(m + 1)
          BY <2>2, <3>2
        <4> QED
          BY <4>1, <4>2
      <3>3. CASE k = m + 1
        BY <2>2, <3>3
      <3> QED
        BY <2>2, <3>1, <3>2, <3>3
    <2>5. g = [k \in 0..(m + 1) |-> g[k]]
      OBVIOUS
    <2> HIDE DEF g
    <2>6. g = [k \in 0..(m + 1) |-> IF k = 0 THEN 0 ELSE g[k - 1] + w[k]]
      BY <2>4, <2>5
    <2> QED
      BY <2>3, <2>6, Zenon DEF AddsUp
  <1>3. Done = Nat
    <2>1. Done \in SUBSET Nat
      OBVIOUS
    <2> HIDE DEF Done
    <2> QED
      BY <1>1, <1>2, <2>1, AllNumbers
  <1>4. n \in Nat /\ n <= Len(w)
    OBVIOUS
  <1> QED
    BY <1>3, <1>4

\* Total is the last value of a function that adds up.
LEMMA TotalAddsUp ==
    ASSUME NEW w \in Seq(Nat)
    PROVE  \E f \in [0..Len(w) -> Nat] : AddsUp(f, w, Len(w)) /\ Total(w) = f[Len(w)]
  <1> DEFINE sum == CHOOSE f : f = [k \in 0..Len(w) |->
                                        IF k = 0 THEN 0 ELSE f[k - 1] + w[k]]
  <1>1. Total(w) = sum[Len(w)]
    BY DEF Total
  <1>2. Len(w) \in 0..Len(w)
    OBVIOUS
  <1>3. PICK f \in [0..Len(w) -> Nat] : AddsUp(f, w, Len(w))
    BY <1>2, AddsUpExists
  <1>4. AddsUp(sum, w, Len(w))
    BY <1>3, Zenon DEF AddsUp
  <1>5. sum = [k \in 0..Len(w) |-> IF k = 0 THEN 0 ELSE sum[k - 1] + w[k]]
    BY <1>4, Zenon DEF AddsUp
  <1>6. f = [k \in 0..Len(w) |-> IF k = 0 THEN 0 ELSE f[k - 1] + w[k]]
    BY <1>3, Zenon DEF AddsUp
  <1> HIDE DEF sum
  <1> DEFINE Done == {m \in Nat : m <= Len(w) => sum[m] = f[m]}
  <1>7. Done = Nat
    <2>1. 0 \in Done
      BY <1>5, <1>6
    <2>2. ASSUME NEW m \in Done PROVE m + 1 \in Done
      <3> SUFFICES ASSUME m + 1 <= Len(w) PROVE sum[m + 1] = f[m + 1]
        OBVIOUS
      <3>1. m + 1 \in 0..Len(w) /\ m + 1 # 0 /\ (m + 1) - 1 = m /\ sum[m] = f[m]
        OBVIOUS
      <3>2. sum[m + 1] = sum[m] + w[m + 1]
        BY <1>5, <3>1
      <3>3. f[m + 1] = f[m] + w[m + 1]
        BY <1>6, <3>1
      <3> QED
        BY <3>1, <3>2, <3>3
    <2>3. Done \in SUBSET Nat
      OBVIOUS
    <2> HIDE DEF Done
    <2> QED
      BY <2>1, <2>2, <2>3, AllNumbers
  <1>8. sum[Len(w)] = f[Len(w)]
    BY <1>7
  <1> QED
    BY <1>1, <1>3, <1>8, Zenon

\* The total of a sequence that is not empty is that of all but the last, and the last.
LEMMA TotalOfNext ==
    ASSUME NEW w \in Seq(Nat), NEW v \in Seq(Nat), Len(v) = Len(w) + 1,
           \A k \in 1..Len(w) : w[k] = v[k]
    PROVE  Total(v) = Total(w) + v[Len(v)]
  <1>1. PICK f \in [0..Len(w) -> Nat] : AddsUp(f, w, Len(w)) /\ Total(w) = f[Len(w)]
    BY TotalAddsUp
  <1>2. PICK g \in [0..Len(v) -> Nat] : AddsUp(g, v, Len(v)) /\ Total(v) = g[Len(v)]
    BY TotalAddsUp
  <1>3. f = [k \in 0..Len(w) |-> IF k = 0 THEN 0 ELSE f[k - 1] + w[k]]
    BY <1>1, Zenon DEF AddsUp
  <1>4. g = [k \in 0..Len(v) |-> IF k = 0 THEN 0 ELSE g[k - 1] + v[k]]
    BY <1>2, Zenon DEF AddsUp
  <1> DEFINE Done == {m \in Nat : m <= Len(w) => f[m] = g[m]}
  <1>5. Done = Nat
    <2>1. 0 \in Done
      BY <1>3, <1>4
    <2>2. ASSUME NEW m \in Done PROVE m + 1 \in Done
      <3> SUFFICES ASSUME m + 1 <= Len(w) PROVE f[m + 1] = g[m + 1]
        OBVIOUS
      <3>1. /\ m + 1 \in 0..Len(w) /\ m + 1 \in 0..Len(v) /\ m + 1 # 0
            /\ (m + 1) - 1 = m /\ f[m] = g[m] /\ w[m + 1] = v[m + 1]
        OBVIOUS
      <3>2. f[m + 1] = f[m] + w[m + 1]
        BY <1>3, <3>1
      <3>3. g[m + 1] = g[m] + v[m + 1]
        BY <1>4, <3>1
      <3> QED
        BY <3>1, <3>2, <3>3
    <2>3. Done \in SUBSET Nat
      OBVIOUS
    <2> HIDE DEF Done
    <2> QED
      BY <2>1, <2>2, <2>3, AllNumbers
  <1>6. f[Len(w)] = g[Len(w)]
    BY <1>5
  <1>7. g[Len(v)] = g[Len(w)] + v[Len(v)]
    <2>1. Len(v) \in 0..Len(v) /\ Len(v) # 0 /\ Len(v) - 1 = Len(w)
      OBVIOUS
    <2> QED
      BY <1>4, <2>1
  <1> QED
    BY <1>1, <1>2, <1>6, <1>7

\* Totals are numbers, and nothing adds up to 0.
LEMMA TotalIsNumber ==
    ASSUME NEW w \in Seq(Nat)
    PROVE  Total(w) \in Nat /\ (Len(w) = 0 => Total(w) = 0)
  <1>1. PICK f \in [0..Len(w) -> Nat] : AddsUp(f, w, Len(w)) /\ Total(w) = f[Len(w)]
    BY TotalAddsUp
  <1>2. f = [k \in 0..Len(w) |-> IF k = 0 THEN 0 ELSE f[k - 1] + w[k]]
    BY <1>1, Zenon DEF AddsUp
  <1>3. Len(w) \in 0..Len(w)
    OBVIOUS
  <1> QED
    BY <1>1, <1>2, <1>3

\* What a sum without one of its terms lacks, for the sums f and g of the first
\* terms of w and of what is left of w.
LEMMA SumWithout ==
    ASSUME NEW l \in Nat, NEW p \in 1..(l + 1), NEW w \in [1..(l + 1) -> Nat],
           NEW f \in [0..(l + 1) -> Nat], NEW g \in [0..l -> Nat], f[0] = 0, g[0] = 0,
           \A k \in 0..l : f[k + 1] = f[k] + w[k + 1],
           \A k \in 0..l : k < l /\ k + 1 < p => g[k + 1] = g[k] + w[k + 1],
           \A k \in 0..l : k < l /\ k + 1 >= p => g[k + 1] = g[k] + w[k + 2]
    PROVE  f[l + 1] = g[l] + w[p]
  <1> DEFINE Done == {m \in Nat : m <= l => /\ m < p => f[m] = g[m]
                                            /\ m >= p => f[m + 1] = g[m] + w[p]}
  <1>1. 0 \in Done
    OBVIOUS
  <1>2. ASSUME NEW m \in Done PROVE m + 1 \in Done
    <2>1. SUFFICES ASSUME m + 1 <= l
                   PROVE  /\ m + 1 < p => f[m + 1] = g[m + 1]
                          /\ m + 1 >= p => f[m + 2] = g[m + 1] + w[p]
      <3>1. m \in Nat
        OBVIOUS
      <3>2. (m + 1) + 1 = m + 2
        BY <3>1
      <3> QED
        BY <2>1, <3>1, <3>2
    <2>2. /\ m \in Nat /\ m \in 0..l /\ m + 1 \in 0..l /\ m < l /\ p \in Nat
          /\ (m + 1) + 1 = m + 2
      BY <2>1
    <2>3. (m < p => f[m] = g[m]) /\ (m >= p => f[m + 1] = g[m] + w[p])
      BY <2>1, <2>2
    <2>4. f[m + 1] = f[m] + w[m + 1] /\ f[m + 2] = f[m + 1] + w[m + 2]
      BY <2>2
    <2>5. /\ m + 1 < p => g[m + 1] = g[m] + w[m + 1]
          /\ m + 1 >= p => g[m + 1] = g[m] + w[m + 2]
      BY <2>2
    <2>6. /\ f[m] \in Nat /\ f[m + 1] \in Nat /\ g[m] \in Nat /\ g[m + 1] \in Nat
          /\ w[m + 1] \in Nat /\ w[m + 2] \in Nat /\ w[p] \in Nat
      <3>1. /\ m \in 0..(l + 1) /\ m + 1 \in 0..(l + 1) /\ m \in 0..l /\ m + 1 \in 0..l
            /\ m + 1 \in 1..(l + 1) /\ m + 2 \in 1..(l + 1) /\ p \in 1..(l + 1)
        BY <2>1, <2>2
      <3> HIDE DEF Done
      <3> QED
        BY <3>1
    <2> HIDE DEF Done
    <2>7. CASE m + 1 < p
      BY <2>2, <2>3, <2>4, <2>5, <2>7
    <2>8. CASE m + 1 = p
      <3>1. f[m] = g[m] /\ g[m + 1] = g[m] + w[m + 2]
        BY <2>2, <2>3, <2>5, <2>8
      <3>2. f[m + 2] = (f[m] + w[p]) + w[m + 2]
        BY <2>4, <2>8
      <3> QED
        BY <2>2, <2>6, <2>8, <3>1, <3>2
    <2>9. CASE m + 1 > p
      <3>1. f[m + 1] = g[m] + w[p] /\ g[m + 1] = g[m] + w[m + 2]
        BY <2>2, <2>3, <2>5, <2>9
      <3>2. f[m + 2] = (g[m] + w[p]) + w[m + 2]
        BY <2>4, <3>1
      <3> QED
        BY <2>2, <2>6, <2>9, <3>1, <3>2
    <2> QED
      BY <2>2, <2>7, <2>8, <2>9
  <1>3. Done = Nat
    <2>1. Done \in SUBSET Nat
      OBVIOUS
    <2> HIDE DEF Done
    <2> QED
      BY <1>1, <1>2, <2>1, AllNumbers
  <1>4. (l < p => f[l] = g[l]) /\ (l >= p => f[l + 1] = g[l] + w[p])
    <2>1. l \in Done
      BY <1>3, Zenon
    <2> QED
      BY <2>1
  <1>5. f[l + 1] = f[l] + w[l + 1]
    OBVIOUS
  <1>6. l < p => p = l + 1
    OBVIOUS
  <1>7. p \in Nat /\ (l < p \/ l >= p)
    OBVIOUS
  <1> QED
    BY <1>4, <1>5, <1>6, <1>7, Zenon

\* Without one of its numbers a sequence adds up to that much less.
LEMMA TotalWithout ==
    ASSUME NEW w \in Seq(Nat), NEW v \in Seq(Nat), NEW p \in 1..Len(w), Len(v) = Len(w) - 1,
           \A k \in 1..Len(v) : v[k] = IF k < p THEN w[k] ELSE w[k + 1]
    PROVE  Total(w) = Total(v) + w[p]
  <1>1. PICK f \in [0..Len(w) -> Nat] : AddsUp(f, w, Len(w)) /\ Total(w) = f[Len(w)]
    BY TotalAddsUp
  <1>2. PICK g \in [0..Len(v) -> Nat] : AddsUp(g, v, Len(v)) /\ Total(v) = g[Len(v)]
    BY TotalAddsUp
  <1>3. f = [k \in 0..Len(w) |-> IF k = 0 THEN 0 ELSE f[k - 1] + w[k]]
    BY <1>1, Zenon DEF AddsUp
  <1>4. g = [k \in 0..Len(v) |-> IF k = 0 THEN 0 ELSE g[k - 1] + v[k]]
    BY <1>2, Zenon DEF AddsUp
  <1> DEFINE l == Len(v)
  <1>5. l \in Nat /\ Len(w) = l + 1 /\ p \in 1..(l + 1) /\ w \in [1..(l + 1) -> Nat]
    <2>1. Len(w) \in Nat /\ Len(v) \in Nat /\ w \in [1..Len(w) -> Nat]
      OBVIOUS
    <2>2. Len(w) = l + 1
      BY <2>1
    <2> QED
      BY <2>1, <2>2, Zenon
  <1>6. \A k \in 1..l : v[k] = IF k < p THEN w[k] ELSE w[k + 1]
    OBVIOUS
  <1> HIDE DEF l
  <1>7. f = [k \in 0..(l + 1) |-> IF k = 0 THEN 0 ELSE f[k - 1] + w[k]]
    BY <1>3, <1>5, Zenon
  <1>8. g = [k \in 0..l |-> IF k = 0 THEN 0 ELSE g[k - 1] + v[k]]
    BY <1>4, Zenon DEF l
  <1>9. f[0] = 0 /\ \A k \in 0..l : f[k + 1] = f[k] + w[k + 1]
    <2>1. 0 \in 0..(l + 1)
      BY <1>5
    <2>2. \A k \in 0..l : k + 1 \in 0..(l + 1) /\ k + 1 # 0 /\ (k + 1) - 1 = k
      BY <1>5
    <2>3. \A k \in 0..(l + 1) : f[k] = IF k = 0 THEN 0 ELSE f[k - 1] + w[k]
      BY <1>7, Zenon
    <2> QED
      BY <2>1, <2>2, <2>3, Zenon
  <1>10. g[0] = 0 /\ \A k \in 0..l : k < l => g[k + 1] = g[k] + v[k + 1]
    <2>1. 0 \in 0..l
      BY <1>5
    <2>2. \A k \in 0..l : k < l => k + 1 \in 0..l /\ k + 1 # 0 /\ (k + 1) - 1 = k
      BY <1>5
    <2> QED
      BY <1>8, <2>1, <2>2
  <1>11. \A k \in 0..l : k < l => /\ k + 1 \in 1..l /\ (k + 1) + 1 = k + 2
                                  /\ k + 1 < p \/ k + 1 >= p
                                  /\ ~(k + 1 < p /\ k + 1 >= p)
    BY <1>5
  <1>12. \A k \in 0..l : k < l /\ k + 1 < p => g[k + 1] = g[k] + w[k + 1]
    BY <1>6, <1>10, <1>11, Zenon
  <1>13. \A k \in 0..l : k < l /\ k + 1 >= p => g[k + 1] = g[k] + w[k + 2]
    BY <1>6, <1>10, <1>11, Zenon
  <1>14. f \in [0..(l + 1) -> Nat] /\ g \in [0..l -> Nat]
    BY <1>5, Zenon DEF l
  <1>15. f[l + 1] = g[l] + w[p]
    BY <1>5, <1>9, <1>10, <1>12, <1>13, <1>14, SumWithout
  <1> QED
    BY <1>1, <1>2, <1>5, <1>15, Zenon DEF l

\* What the pairs of a string take.
Taken(s) == [n \in DOMAIN s |-> Size[s[n].key] + Size[s[n].value]]

\* Each takes some characters.
LEMMA SizesOf ==
    ASSUME NEW s \in Seq(Pair)
    PROVE  /\ Taken(s) \in Seq(Nat) /\ Len(Taken(s)) = Len(s) /\ Length(s) = Total(Taken(s))
           /\ \A n \in 1..Len(s) : Taken(s)[n] = Size[s[n].key] + Size[s[n].value]
           /\ Length(s) \in Nat
  <1>1. Len(s) \in Nat /\ DOMAIN s = 1..Len(s) /\ \A n \in 1..Len(s) : s[n] \in Pair
    OBVIOUS
  <1>2. \A n \in 1..Len(s) : Size[s[n].key] + Size[s[n].value] \in Nat
    <2> TAKE n \in 1..Len(s)
    <2>1. s[n].key \in Key /\ s[n].value \in Value
      BY <1>1 DEF Pair
    <2>2. Size[s[n].key] \in Nat /\ Size[s[n].value] \in Nat
      BY <2>1, InfoAssumption
    <2> QED
      BY <2>2
  <1>3. Taken(s) = [n \in 1..Len(s) |-> Size[s[n].key] + Size[s[n].value]]
    BY <1>1 DEF Taken
  <1>4. Taken(s) \in Seq(Nat) /\ Len(Taken(s)) = Len(s)
    BY <1>1, <1>2, <1>3
  <1>5. Length(s) = Total(Taken(s))
    BY Zenon DEF Length, Taken
  <1> QED
    BY <1>3, <1>4, <1>5, TotalIsNumber

\* A removal makes no string longer.
LEMMA RemovalShortens ==
    ASSUME NEW s \in Seq(Pair), NEW key \in Key
    PROVE  Length(Info_RemoveKey(s, key)) <= Length(s)
  <1>1. CASE Places(s, key) = {}
    BY <1>1, SizesOf DEF Info_RemoveKey
  <1>2. CASE Places(s, key) # {}
    <2> DEFINE p == FirstPlace(s, key)
               rest == RemoveAt(s, p)
    <2>1. p \in 1..Len(s) /\ Info_RemoveKey(s, key) = rest
      BY <1>2, FirstIsFound DEF Info_RemoveKey
    <2> HIDE DEF p
    <2>2. /\ rest \in Seq(Pair) /\ Len(rest) = Len(s) - 1
          /\ \A n \in 1..(Len(s) - 1) : rest[n] = IF n < p THEN s[n] ELSE s[n + 1]
      BY <2>1, RemovedAt
    <2> HIDE DEF rest
    <2>3. /\ Taken(s) \in Seq(Nat) /\ Len(Taken(s)) = Len(s) /\ Length(s) = Total(Taken(s))
          /\ \A n \in 1..Len(s) : Taken(s)[n] = Size[s[n].key] + Size[s[n].value]
      BY SizesOf
    <2>4. /\ Taken(rest) \in Seq(Nat) /\ Len(Taken(rest)) = Len(rest)
          /\ Length(rest) = Total(Taken(rest)) /\ Length(rest) \in Nat
          /\ \A n \in 1..Len(rest) : Taken(rest)[n] = Size[rest[n].key] + Size[rest[n].value]
      BY <2>2, SizesOf
    <2>5. \A n \in 1..Len(rest) :
                Taken(rest)[n] = IF n < p THEN Taken(s)[n] ELSE Taken(s)[n + 1]
      <3> TAKE n \in 1..Len(rest)
      <3>1. n \in 1..(Len(s) - 1) /\ n \in 1..Len(s) /\ n + 1 \in 1..Len(s)
        BY <2>2
      <3>2. CASE n < p
        <4>1. rest[n] = s[n]
          BY <2>2, <3>1, <3>2
        <4> QED
          BY <2>3, <2>4, <3>1, <3>2, <4>1
      <3>3. CASE ~(n < p)
        <4>1. rest[n] = s[n + 1]
          BY <2>2, <3>1, <3>3
        <4> QED
          BY <2>3, <2>4, <3>1, <3>3, <4>1
      <3> QED
        BY <3>2, <3>3
    <2> DEFINE w == Taken(s)
               v == Taken(rest)
    <2>6. /\ w \in Seq(Nat) /\ v \in Seq(Nat) /\ p \in 1..Len(w) /\ Len(v) = Len(w) - 1
          /\ \A n \in 1..Len(v) : v[n] = IF n < p THEN w[n] ELSE w[n + 1]
          /\ w[p] \in Nat
      BY <2>1, <2>2, <2>3, <2>4, <2>5
    <2> HIDE DEF w, v
    <2>7. Total(w) = Total(v) + w[p] /\ Total(v) \in Nat
      BY <2>6, TotalWithout, TotalIsNumber
    <2>8. Total(v) <= Total(w)
      BY <2>6, <2>7
    <2> QED
      BY <2>1, <2>3, <2>4, <2>8 DEF w, v
  <1> QED
    BY <1>1, <1>2

\* What is behind a sequence, and what stays in front of it.
LEMMA AppendedAt ==
    ASSUME NEW s \in Seq(Pair), NEW x \in Pair
    PROVE  /\ Append(s, x) \in Seq(Pair) /\ Len(Append(s, x)) = Len(s) + 1
           /\ Append(s, x)[Len(s) + 1] = x /\ Len(s) \in Nat
           /\ \A n \in 1..Len(s) : Append(s, x)[n] = s[n]
  OBVIOUS

\* A range that is one longer holds its new end and all of the other.
LEMMA OneLonger == \A a, b \in Nat : b = a + 1 => b \in 1..b /\ \A k \in 1..a : k \in 1..b
  OBVIOUS

\* Three numbers add up in either order.
LEMMA SumsGroup == \A a, i, j \in Nat : a + i + j = a + (i + j)
  OBVIOUS

\* What is not above a number is not above a greater one.
LEMMA NotAbove == \A a, b, n \in Nat : a <= b /\ b <= n => a <= n
  OBVIOUS

\* However often keys are set: a string of the server or of a client, whatever
\* keys the client has put into it, stays as short as its buffer (shared.c:526).
THEOREM InfoStaysShort == InfoSpec => []InfoTypeOK
  <1>1. InfoInit => InfoTypeOK
    BY InfoAssumption, ReceivedAssumption DEF InfoInit, InfoTypeOK
  <1>2. ASSUME InfoTypeOK, NEW key \in Key, NEW value \in Value \cup {""},
               Info_SetValueForKey(key, value)
        PROVE  InfoTypeOK'
    <2> DEFINE rest == Info_RemoveKey(info, key)
               pair == [key |-> key, value |-> value]
               room == value # "" /\ HasRoom(rest, key, value)
    <2>1. info \in Seq(Pair) /\ Length(info) <= MAX_INFO_STRING /\ Length(info) \in Nat
      BY <1>2, SizesOf DEF InfoTypeOK
    <2>2. rest \in Seq(Pair) /\ Length(rest) <= Length(info) /\ Length(rest) \in Nat
      BY <2>1, RemovalIsExact, RemovalShortens, SizesOf
    <2>3. info' = IF room THEN Append(rest, pair) ELSE rest
      BY <1>2, Zenon DEF Info_SetValueForKey, WithPair
    <2>4. CASE room
      <3>1. info' = Append(rest, pair) /\ pair \in Pair /\ pair.key = key /\ pair.value = value
        <4>1. value \in Value
          BY <2>4
        <4>2. pair \in Pair /\ pair.key = key /\ pair.value = value
          BY <4>1 DEF Pair
        <4> QED
          BY <2>3, <2>4, <4>2, Zenon
      <3>2. Length(rest) + Size[key] + Size[value] <= MAX_INFO_STRING
        BY <2>4 DEF HasRoom
      <3> HIDE DEF rest, pair, room
      <3> DEFINE long == Append(rest, pair)
      <3>3. /\ long \in Seq(Pair) /\ Len(long) = Len(rest) + 1 /\ long[Len(long)] = pair
            /\ \A n \in 1..Len(rest) : long[n] = rest[n]
            /\ Len(rest) \in Nat
        <4>1. /\ long \in Seq(Pair) /\ Len(long) = Len(rest) + 1
              /\ long[Len(rest) + 1] = pair /\ Len(rest) \in Nat
              /\ \A n \in 1..Len(rest) : long[n] = rest[n]
          BY <2>2, <3>1, AppendedAt
        <4> QED
          BY <4>1, Zenon
      <3> HIDE DEF long
      <3>4. /\ Taken(long) \in Seq(Nat) /\ Len(Taken(long)) = Len(long)
            /\ Length(long) = Total(Taken(long))
            /\ \A n \in 1..Len(long) :
                    Taken(long)[n] = Size[long[n].key] + Size[long[n].value]
        BY <3>3, SizesOf
      <3>5. /\ Taken(rest) \in Seq(Nat) /\ Len(Taken(rest)) = Len(rest)
            /\ Length(rest) = Total(Taken(rest))
            /\ \A n \in 1..Len(rest) :
                    Taken(rest)[n] = Size[rest[n].key] + Size[rest[n].value]
        BY <2>2, SizesOf
      <3> DEFINE w == Taken(rest)
                 v == Taken(long)
      <3>6. /\ w \in Seq(Nat) /\ v \in Seq(Nat) /\ Len(v) = Len(w) + 1
            /\ \A k \in 1..Len(w) : w[k] = v[k]
            /\ v[Len(v)] = Size[key] + Size[value]
        <4>2. /\ Len(long) \in 1..Len(long)
              /\ \A k \in 1..Len(rest) : k \in 1..Len(long)
          BY <3>3, OneLonger, LenProperties
        <4>3. \A k \in 1..Len(w) : w[k] = v[k]
          BY <3>3, <3>4, <3>5, <4>2, Zenon
        <4>4. v[Len(v)] = Size[key] + Size[value]
          BY <3>1, <3>3, <3>4, <4>2, Zenon
        <4> QED
          BY <3>3, <3>4, <3>5, <4>3, <4>4, Zenon
      <3> HIDE DEF w, v
      <3>7. Total(v) = Total(w) + v[Len(v)]
        BY <3>6, TotalOfNext
      <3>8. Size[key] \in Nat /\ Size[value] \in Nat
        <4>1. value \in Value
          BY <2>4 DEF room
        <4> QED
          BY <4>1, InfoAssumption
      <3>9. Length(long) = Length(rest) + (Size[key] + Size[value])
        BY <3>4, <3>5, <3>6, <3>7 DEF w, v
      <3>10. Length(long) <= MAX_INFO_STRING
        <4> QED
          BY <2>2, <3>2, <3>8, <3>9, SumsGroup, Zenon
      <3> QED
        BY <3>1, <3>3, <3>10 DEF InfoTypeOK, long
    <2>5. CASE ~room
      <3>1. info' = rest
        BY <2>3, <2>5, Zenon
      <3>2. Length(rest) <= MAX_INFO_STRING
        <4>2. MAX_INFO_STRING \in Nat
          BY InfoAssumption
        <4> QED
          BY <2>1, <2>2, <4>2, NotAbove, Zenon
      <3> HIDE DEF rest
      <3> QED
        BY <2>2, <3>1, <3>2, Zenon DEF InfoTypeOK
    <2> QED
      BY <2>4, <2>5
  <1>3. InfoTypeOK /\ [InfoNext]_ivars => InfoTypeOK'
    <2> SUFFICES ASSUME InfoTypeOK, [InfoNext]_ivars PROVE InfoTypeOK'
      OBVIOUS
    <2>1. ASSUME UNCHANGED info PROVE InfoTypeOK'
      BY <2>1 DEF InfoTypeOK
    <2>2. CASE UNCHANGED ivars
      BY <2>1, <2>2 DEF ivars
    <2>3. ASSUME NEW key \in Key, NEW value \in Value \cup {""}, Info_SetRefused(key, value)
          PROVE  InfoTypeOK'
      BY <2>1, <2>3 DEF Info_SetRefused
    <2> QED
      BY <1>2, <2>2, <2>3 DEF InfoNext
  <1> QED
    BY <1>1, <1>3, PTL DEF InfoSpec

\* A nonempty set of numbers that has a bound has a greatest one.
LEMMA GreatestOf ==
    ASSUME NEW S \in SUBSET Nat, S # {}, NEW bound \in Nat, \A i \in S : i <= bound
    PROVE  Max(S) \in S /\ \A j \in S : j <= Max(S)
  <1> DEFINE below == {bound - i : i \in S}
  <1>1. below \in SUBSET Nat /\ below # {}
    <2>1. ASSUME NEW i \in S PROVE bound - i \in Nat
      OBVIOUS
    <2> QED
      BY <2>1, Zenon
  <1>2. PICK m \in below : \A n \in below : m <= n
    BY <1>1, LeastOf
  <1>3. PICK i \in S : m = bound - i
    BY <1>2
  <1>4. ASSUME NEW j \in S PROVE i >= j
    <2>1. bound - j \in below
      BY Zenon
    <2> HIDE DEF below
    <2>2. bound - i <= bound - j
      BY <1>2, <1>3, <2>1
    <2> QED
      BY <2>2
  <1>5. Max(S) \in S /\ \A j \in S : Max(S) >= j
    BY <1>3, <1>4, Zenon DEF Max
  <1> QED
    BY <1>5

\* The first elements of a list.
LEMMA FirstOf ==
    ASSUME NEW R, NEW s \in Seq(R), NEW n \in 0..Len(s)
    PROVE  /\ SubSeq(s, 1, n) \in Seq(R) /\ Len(SubSeq(s, 1, n)) = n
           /\ \A k \in 1..n : SubSeq(s, 1, n)[k] = s[k]
  <1>1. 1 \in Int /\ n \in Int /\ \A k \in 1..n : s[k] \in R
    OBVIOUS
  <1>2. /\ SubSeq(s, 1, n) \in Seq(R)
        /\ Len(SubSeq(s, 1, n)) = IF 1 <= n THEN n - 1 + 1 ELSE 0
        /\ \A k \in 1..(n - 1 + 1) : SubSeq(s, 1, n)[k] = s[1 + k - 1]
    BY <1>1, SubSeqProperties
  <1> QED
    BY <1>1, <1>2

\* As much of a list of these lengths as fits within the limit: it fits, and the
\* next would not.
LEMMA LongestFits ==
    ASSUME NEW w \in Seq(Nat), NEW limit \in Nat
    PROVE  LET n == Max({m \in 0..Len(w) : Total(SubSeq(w, 1, m)) <= limit})
           IN  /\ n \in 0..Len(w) /\ Total(SubSeq(w, 1, n)) <= limit
               /\ n < Len(w) => Total(SubSeq(w, 1, n)) + w[n + 1] > limit
  <1> DEFINE S == {m \in 0..Len(w) : Total(SubSeq(w, 1, m)) <= limit}
  <1>1. S \in SUBSET Nat /\ S # {}
    <2>1. 0 \in 0..Len(w)
      OBVIOUS
    <2>2. Total(SubSeq(w, 1, 0)) = 0
      BY <2>1, FirstOf, TotalIsNumber
    <2> QED
      BY <2>1, <2>2
  <1>2. Len(w) \in Nat /\ \A m \in S : m <= Len(w)
    OBVIOUS
  <1>3. Max(S) \in S /\ \A m \in S : m <= Max(S)
    <2> HIDE DEF S
    <2> QED
      BY <1>1, <1>2, GreatestOf
  <1> DEFINE n == Max(S)
  <1>4. n \in 0..Len(w) /\ Total(SubSeq(w, 1, n)) <= limit
    BY <1>3
  <1>5. ASSUME n < Len(w)
        PROVE  Total(SubSeq(w, 1, n)) + w[n + 1] > limit
    <2> HIDE DEF n
    <2>1. n + 1 \in 0..Len(w) /\ n + 1 \notin S
      <3>1. n + 1 \in 0..Len(w) /\ ~(n + 1 <= n)
        BY <1>4, <1>5
      <3> QED
        BY <1>3, <3>1 DEF n
    <2>2. /\ SubSeq(w, 1, n) \in Seq(Nat) /\ Len(SubSeq(w, 1, n)) = n
          /\ \A k \in 1..n : SubSeq(w, 1, n)[k] = w[k]
      BY <1>4, FirstOf
    <2>3. /\ SubSeq(w, 1, n + 1) \in Seq(Nat) /\ Len(SubSeq(w, 1, n + 1)) = n + 1
          /\ \A k \in 1..(n + 1) : SubSeq(w, 1, n + 1)[k] = w[k]
      BY <2>1, FirstOf
    <2> DEFINE u == SubSeq(w, 1, n)
               v == SubSeq(w, 1, n + 1)
    <2>4. v[n + 1] = w[n + 1] /\ \A k \in 1..Len(u) : u[k] = v[k]
      BY <1>4, <2>2, <2>3
    <2>5. Len(v) = Len(u) + 1 /\ Len(v) = n + 1 /\ u \in Seq(Nat) /\ v \in Seq(Nat)
      BY <2>2, <2>3
    <2> HIDE DEF u, v
    <2>6. Total(v) = Total(u) + w[n + 1]
      BY <2>4, <2>5, TotalOfNext
    <2>7. Total(v) \in Nat /\ ~(Total(v) <= limit)
      BY <2>1, <2>5, TotalIsNumber DEF v, S
    <2> QED
      BY <2>6, <2>7 DEF u
  <1> QED
    BY <1>4, <1>5

\* %i of a number has a number of characters.
LEMMA DigitsAreCounted == \A n \in Int : Digits(n) \in Nat
  <1> SUFFICES ASSUME NEW n \in Int PROVE Digits(n) \in Nat
    OBVIOUS
  <1> DEFINE S == {e \in 0..9 : 10^e <= IF n < 0 THEN -n ELSE n}
  <1>1. IsFiniteSet(0..9)
    BY 0 \in Int, 9 \in Int, FS_Interval, Zenon
  <1>2. S \in SUBSET (0..9)
    BY Zenon
  <1>3. Cardinality(S) \in Nat
    <2> HIDE DEF S
    <2> QED
      BY <1>1, <1>2, FS_Subset, FS_CardinalityType
  <1> HIDE DEF S
  <1> QED
    BY <1>3 DEF Digits, S

\* The lines of a scoreboard or of an answer to getstatus.
ListLine == [client : ClientNum, ping : Int]

\* The lengths of the lines are numbers, as is what those of the first add up to.
LEMMA BoardLengths ==
    ASSUME NEW entries \in Seq(ListLine)
    PROVE  /\ [k \in DOMAIN entries |-> BoardEntryLength(entries[k])] \in Seq(Nat)
           /\ \A n \in 0..Len(entries) : BoardLength(SubSeq(entries, 1, n)) =
                Total(SubSeq([k \in DOMAIN entries |-> BoardEntryLength(entries[k])], 1, n))
  <1> DEFINE w == [k \in DOMAIN entries |-> BoardEntryLength(entries[k])]
  <1>1. \A e \in ListLine : BoardEntryLength(e) \in Nat
    <2> SUFFICES ASSUME NEW e \in ListLine PROVE BoardEntryLength(e) \in Nat
      OBVIOUS
    <2>1. e.client \in Int /\ e.ping \in Int
      BY DEF ListLine, ClientNum
    <2>2. Digits(e.client) \in Nat /\ Digits(e.ping) \in Nat
      BY <2>1, DigitsAreCounted, Zenon
    <2> QED
      BY <2>2 DEF BoardEntryLength
  <1>2. DOMAIN entries = 1..Len(entries) /\ \A k \in 1..Len(entries) : entries[k] \in ListLine
    OBVIOUS
  <1>3. w \in [1..Len(entries) -> Nat]
    BY <1>1, <1>2
  <1>4. w \in Seq(Nat) /\ Len(w) = Len(entries)
    BY <1>3
  <1>5. \A k \in 1..Len(entries) : w[k] = BoardEntryLength(entries[k])
    BY <1>2
  <1> HIDE DEF w
  <1>6. ASSUME NEW n \in 0..Len(entries)
        PROVE  BoardLength(SubSeq(entries, 1, n)) = Total(SubSeq(w, 1, n))
    <2> DEFINE first == SubSeq(entries, 1, n)
    <2>1. /\ first \in Seq(ListLine) /\ Len(first) = n
          /\ \A k \in 1..n : first[k] = entries[k]
      BY FirstOf, Zenon
    <2>2. /\ SubSeq(w, 1, n) \in Seq(Nat) /\ Len(SubSeq(w, 1, n)) = n
          /\ \A k \in 1..n : SubSeq(w, 1, n)[k] = w[k]
      BY <1>4, FirstOf
    <2> HIDE DEF first
    <2>3. SubSeq(w, 1, n) = [k \in DOMAIN first |-> BoardEntryLength(first[k])]
      <3>1. DOMAIN first = 1..n
        BY <2>1
      <3>2. ASSUME NEW k \in 1..n PROVE SubSeq(w, 1, n)[k] = BoardEntryLength(first[k])
        <4>1. k \in 1..Len(entries)
          OBVIOUS
        <4> QED
          BY <1>5, <2>1, <2>2, <4>1
      <3>3. SubSeq(w, 1, n) = [k \in 1..n |-> SubSeq(w, 1, n)[k]]
        BY <2>2
      <3> QED
        BY <3>1, <3>2, <3>3, Zenon
    <2> QED
      BY <2>3, Zenon DEF BoardLength, first
  <1> QED
    BY <1>4, <1>6, Zenon DEF w

\* What is visible of a list of entries is its first ones, which fit, and the next
\* would not.
LEMMA VisibleFits ==
    ASSUME NEW entries \in Seq(ListLine)
    PROVE  \E n \in 0..Len(entries) :
             /\ Visible(entries) = SubSeq(entries, 1, n)
             /\ BoardLength(Visible(entries)) <= MAX_BOARD
             /\ n < Len(entries) => BoardLength(Visible(entries)) +
                                        BoardEntryLength(entries[n + 1]) > MAX_BOARD
  <1> DEFINE w == [k \in DOMAIN entries |-> BoardEntryLength(entries[k])]
  <1>1. w \in Seq(Nat) /\ \A n \in 0..Len(entries) :
            BoardLength(SubSeq(entries, 1, n)) = Total(SubSeq(w, 1, n))
    BY BoardLengths, Zenon
  <1>2. Len(w) = Len(entries) /\ \A k \in 1..Len(entries) : w[k] = BoardEntryLength(entries[k])
    OBVIOUS
  <1> HIDE DEF w
  <1> DEFINE n == Max({m \in 0..Len(w) : Total(SubSeq(w, 1, m)) <= MAX_BOARD})
  <1>3. MAX_BOARD \in Nat
    BY SettingsAssumption
  <1>4. /\ n \in 0..Len(w) /\ Total(SubSeq(w, 1, n)) <= MAX_BOARD
        /\ n < Len(w) => Total(SubSeq(w, 1, n)) + w[n + 1] > MAX_BOARD
    BY <1>1, <1>3, LongestFits, Zenon
  <1>5. {m \in 0..Len(w) : Total(SubSeq(w, 1, m)) <= MAX_BOARD}
            = {m \in 0..Len(entries) : BoardLength(SubSeq(entries, 1, m)) <= MAX_BOARD}
    BY <1>1, <1>2, Zenon
  <1>6. Visible(entries) = SubSeq(entries, 1, n)
    BY <1>5, Zenon DEF Visible
  <1> HIDE DEF n
  <1>7. BoardLength(Visible(entries)) = Total(SubSeq(w, 1, n))
    BY <1>1, <1>2, <1>4, <1>6, Zenon
  <1>8. n < Len(entries) => w[n + 1] = BoardEntryLength(entries[n + 1])
    BY <1>2, <1>4
  <1> QED
    BY <1>2, <1>4, <1>6, <1>7, <1>8, Zenon

\* The lengths of the lines are numbers, as is what those of the first add up to.
LEMMA StatusLengths ==
    ASSUME NEW entries \in Seq(ListLine)
    PROVE  /\ [k \in DOMAIN entries |-> StatusLineLength(entries[k])] \in Seq(Nat)
           /\ \A n \in 0..Len(entries) : StatusLength(SubSeq(entries, 1, n)) =
                Total(SubSeq([k \in DOMAIN entries |-> StatusLineLength(entries[k])], 1, n))
  <1> DEFINE w == [k \in DOMAIN entries |-> StatusLineLength(entries[k])]
  <1>1. \A e \in ListLine : StatusLineLength(e) \in Nat
    <2> SUFFICES ASSUME NEW e \in ListLine PROVE StatusLineLength(e) \in Nat
      OBVIOUS
    <2>1. e.ping \in Int
      BY DEF ListLine
    <2>2. Digits(e.ping) \in Nat
      BY <2>1, DigitsAreCounted, Zenon
    <2> QED
      BY <2>2 DEF StatusLineLength
  <1>2. DOMAIN entries = 1..Len(entries) /\ \A k \in 1..Len(entries) : entries[k] \in ListLine
    OBVIOUS
  <1>3. w \in [1..Len(entries) -> Nat]
    BY <1>1, <1>2
  <1>4. w \in Seq(Nat) /\ Len(w) = Len(entries)
    BY <1>3
  <1>5. \A k \in 1..Len(entries) : w[k] = StatusLineLength(entries[k])
    BY <1>2
  <1> HIDE DEF w
  <1>6. ASSUME NEW n \in 0..Len(entries)
        PROVE  StatusLength(SubSeq(entries, 1, n)) = Total(SubSeq(w, 1, n))
    <2> DEFINE first == SubSeq(entries, 1, n)
    <2>1. /\ first \in Seq(ListLine) /\ Len(first) = n
          /\ \A k \in 1..n : first[k] = entries[k]
      BY FirstOf, Zenon
    <2>2. /\ SubSeq(w, 1, n) \in Seq(Nat) /\ Len(SubSeq(w, 1, n)) = n
          /\ \A k \in 1..n : SubSeq(w, 1, n)[k] = w[k]
      BY <1>4, FirstOf
    <2> HIDE DEF first
    <2>3. SubSeq(w, 1, n) = [k \in DOMAIN first |-> StatusLineLength(first[k])]
      <3>1. DOMAIN first = 1..n
        BY <2>1
      <3>2. ASSUME NEW k \in 1..n PROVE SubSeq(w, 1, n)[k] = StatusLineLength(first[k])
        <4>1. k \in 1..Len(entries)
          OBVIOUS
        <4> QED
          BY <1>5, <2>1, <2>2, <4>1
      <3>3. SubSeq(w, 1, n) = [k \in 1..n |-> SubSeq(w, 1, n)[k]]
        BY <2>2
      <3> QED
        BY <3>1, <3>2, <3>3, Zenon
    <2> QED
      BY <2>3, Zenon DEF StatusLength, first
  <1> QED
    BY <1>4, <1>6, Zenon DEF w

\* What is listed of a list of entries is its first ones, which fit, and the next
\* would not.
LEMMA ListedFits ==
    ASSUME NEW entries \in Seq(ListLine)
    PROVE  \E n \in 0..Len(entries) :
             /\ Listed(entries) = SubSeq(entries, 1, n)
             /\ StatusLength(Listed(entries)) < MAX_STATUS
             /\ n < Len(entries) => StatusLength(Listed(entries)) +
                                        StatusLineLength(entries[n + 1]) >= MAX_STATUS
  <1> DEFINE w == [k \in DOMAIN entries |-> StatusLineLength(entries[k])]
  <1>1. w \in Seq(Nat) /\ \A n \in 0..Len(entries) :
            StatusLength(SubSeq(entries, 1, n)) = Total(SubSeq(w, 1, n))
    BY StatusLengths, Zenon
  <1>2. Len(w) = Len(entries) /\ \A k \in 1..Len(entries) : w[k] = StatusLineLength(entries[k])
    OBVIOUS
  <1> HIDE DEF w
  <1> DEFINE n == Max({m \in 0..Len(w) : Total(SubSeq(w, 1, m)) <= MAX_STATUS - 1})
  <1>3. MAX_STATUS \in Nat \ {0} /\ MAX_STATUS - 1 \in Nat
    BY SettingsAssumption
  <1>4. /\ n \in 0..Len(w) /\ Total(SubSeq(w, 1, n)) <= MAX_STATUS - 1
        /\ n < Len(w) => Total(SubSeq(w, 1, n)) + w[n + 1] > MAX_STATUS - 1
    BY <1>1, <1>3, LongestFits, Zenon
  <1>5. \A m \in 0..Len(w) :
            /\ Total(SubSeq(w, 1, m)) \in Nat
            /\ Total(SubSeq(w, 1, m)) <= MAX_STATUS - 1
                    <=> Total(SubSeq(w, 1, m)) < MAX_STATUS
    <2> SUFFICES ASSUME NEW m \in 0..Len(w)
                 PROVE  /\ Total(SubSeq(w, 1, m)) \in Nat
                        /\ Total(SubSeq(w, 1, m)) <= MAX_STATUS - 1
                                <=> Total(SubSeq(w, 1, m)) < MAX_STATUS
      OBVIOUS
    <2>1. Total(SubSeq(w, 1, m)) \in Nat
      BY <1>1, FirstOf, TotalIsNumber
    <2> QED
      BY <1>3, <2>1
  <1>6. {m \in 0..Len(w) : Total(SubSeq(w, 1, m)) <= MAX_STATUS - 1}
            = {m \in 0..Len(entries) : StatusLength(SubSeq(entries, 1, m)) < MAX_STATUS}
    BY <1>1, <1>2, <1>5, Zenon
  <1>7. Listed(entries) = SubSeq(entries, 1, n)
    BY <1>6, Zenon DEF Listed
  <1> HIDE DEF n
  <1>8. StatusLength(Listed(entries)) = Total(SubSeq(w, 1, n))
    BY <1>1, <1>2, <1>4, <1>7, Zenon
  <1>9. n < Len(entries) =>
            w[n + 1] = StatusLineLength(entries[n + 1]) /\ w[n + 1] \in Nat
    BY <1>1, <1>2, <1>4
  <1> DEFINE t == Total(SubSeq(w, 1, n))
  <1>10. t \in Nat /\ t <= MAX_STATUS - 1 /\ (n < Len(w) => t + w[n + 1] > MAX_STATUS - 1)
    BY <1>4, <1>5, Zenon
  <1> HIDE DEF t
  <1>11. t < MAX_STATUS
         /\ (n < Len(entries) => t + StatusLineLength(entries[n + 1]) >= MAX_STATUS)
    BY <1>2, <1>3, <1>9, <1>10
  <1> QED
    BY <1>2, <1>4, <1>7, <1>8, <1>11, Zenon DEF t

------------------------------------------------------------------------------
(* What is kept for the slots *)

\* Settings are well-formed at first.
LEMMA SettingsInitOK == SettingsInit => SettingsTypeOK
  <1> SUFFICES ASSUME SettingsInit PROVE SettingsTypeOK
    OBVIOUS
  <1>1. NoSettings \in Setting /\ NothingAsked \in Request
    BY DEF NoSettings, Setting, NothingAsked, Request
  <1>2. \A id \in ClientNum : AsAsked(id)
    BY DEF SettingsInit, AsAsked, NoSettings, NothingAsked
  <1> QED
    BY <1>1, <1>2, Zenon DEF SettingsInit, SettingsTypeOK

\* A step that changes one slot keeps what the others have, and gives that one the
\* settings s, the perks p and what is asked of it.
LEMMA SlotChanges ==
    ASSUME SettingsTypeOK, NEW id \in ClientNum, NEW s \in Setting, NEW a \in Request,
           NEW p \in SUBSET Perk, NEW state \in {"free", "connecting", "playing"},
           players' = [players EXCEPT ![id] = state],
           settings' = [settings EXCEPT ![id] = s],
           perks' = [perks EXCEPT ![id] = p],
           asked' = [asked EXCEPT ![id] = a],
           IF s.overridePing THEN s.ping \in a.board ELSE a.board = {},
           IF s.overrideStatusPing THEN s.statusPing \in a.status ELSE a.status = {},
           s.speed = a.speed,
           state # "free" => p = a.perks
    PROVE  SettingsTypeOK'
  <1>1. /\ players' \in [ClientNum -> {"free", "connecting", "playing"}]
        /\ settings' \in [ClientNum -> Setting]
        /\ perks' \in [ClientNum -> SUBSET Perk]
        /\ asked' \in [ClientNum -> Request]
    BY DEF SettingsTypeOK
  <1>2. ASSUME NEW i \in ClientNum PROVE AsAsked(i)'
    <2>1. CASE i = id
      <3>1. settings'[i] = s /\ asked'[i] = a /\ players'[i] = state /\ perks'[i] = p
        BY <2>1 DEF SettingsTypeOK
      <3> QED
        BY <3>1, Zenon DEF AsAsked
    <2>2. CASE i # id
      <3>1. /\ settings'[i] = settings[i] /\ asked'[i] = asked[i]
            /\ players'[i] = players[i] /\ perks'[i] = perks[i]
        BY <2>2 DEF SettingsTypeOK
      <3> QED
        BY <3>1, Zenon DEF AsAsked, SettingsTypeOK
    <2> QED
      BY <2>1, <2>2
  <1> QED
    BY <1>1, <1>2, Zenon DEF SettingsTypeOK

\* What a slot has is what is changed when nothing of it changes.
LEMMA SlotStays ==
    ASSUME SettingsTypeOK, NEW id \in ClientNum
    PROVE  /\ settings[id] \in Setting /\ asked[id] \in Request
           /\ perks[id] \in SUBSET Perk
           /\ players[id] \in {"free", "connecting", "playing"}
           /\ settings = [settings EXCEPT ![id] = settings[id]]
           /\ asked = [asked EXCEPT ![id] = asked[id]]
           /\ perks = [perks EXCEPT ![id] = perks[id]]
           /\ players = [players EXCEPT ![id] = players[id]]
           /\ AsAsked(id)
  BY DEF SettingsTypeOK

\* Of an argument that is not of a wrong type: it is a number, or undefined.
LEMMA ArgumentIs ==
    ASSUME NEW arg \in SUBSET Pings, ~WrongType(arg)
    PROVE  /\ IsInt(arg) \in BOOLEAN
           /\ IsInt(arg) => TheInt(arg) \in arg /\ TheInt(arg) \in Pings
           /\ ~IsInt(arg) => arg = {}
  <1>1. IsInt(arg) => TheInt(arg) \in Pings /\ arg = {TheInt(arg)}
    BY Zenon DEF IsInt, TheInt
  <1> QED
    BY <1>1 DEF WrongType, IsInt

\* The ping of the scoreboard is what the argument says.
LEMMA BoardPingIsSet ==
    ASSUME NEW s \in Setting, NEW arg \in SUBSET Pings, ~WrongType(arg)
    PROVE  LET r == SetBoardPing(s, arg) IN
           /\ r \in Setting
           /\ IF r.overridePing THEN r.ping \in arg ELSE arg = {}
           /\ r.overrideStatusPing = s.overrideStatusPing
           /\ r.statusPing = s.statusPing /\ r.speed = s.speed
  <1> DEFINE b == IsInt(arg)
             n == IF IsInt(arg) THEN TheInt(arg) ELSE 0
  <1>1. b \in BOOLEAN /\ n \in Pings \cup {0} /\ (IF b THEN n \in arg ELSE arg = {})
    BY ArgumentIs, Zenon
  <1>2. SetBoardPing(s, arg) = [s EXCEPT !.overridePing = b, !.ping = n]
    BY Zenon DEF SetBoardPing
  <1> HIDE DEF b, n
  <1> DEFINE r == [s EXCEPT !.overridePing = b, !.ping = n]
  <1>3. r \in Setting
    BY <1>1 DEF Setting
  <1>4. r.overridePing = b
    BY Zenon DEF Setting
  <1>5. r.ping = n
    BY Zenon DEF Setting
  <1>6. /\ r.overrideStatusPing = s.overrideStatusPing
        /\ r.statusPing = s.statusPing /\ r.speed = s.speed
    BY DEF Setting
  <1> HIDE DEF r
  <1>7. IF r.overridePing THEN r.ping \in arg ELSE arg = {}
    BY <1>1, <1>4, <1>5, Zenon
  <1> QED
    BY <1>2, <1>3, <1>6, <1>7, Zenon DEF r

\* So is the ping of answers to getstatus.
LEMMA StatusPingIsSet ==
    ASSUME NEW s \in Setting, NEW arg \in SUBSET Pings, ~WrongType(arg)
    PROVE  LET r == SetStatusPing(s, arg) IN
           /\ r \in Setting
           /\ IF r.overrideStatusPing THEN r.statusPing \in arg ELSE arg = {}
           /\ r.overridePing = s.overridePing
           /\ r.ping = s.ping /\ r.speed = s.speed
  <1> DEFINE b == IsInt(arg)
             n == IF IsInt(arg) THEN TheInt(arg) ELSE 0
  <1>1. b \in BOOLEAN /\ n \in Pings \cup {0} /\ (IF b THEN n \in arg ELSE arg = {})
    BY ArgumentIs, Zenon
  <1>2. SetStatusPing(s, arg) = [s EXCEPT !.overrideStatusPing = b, !.statusPing = n]
    BY Zenon DEF SetStatusPing
  <1> HIDE DEF b, n
  <1> DEFINE r == [s EXCEPT !.overrideStatusPing = b, !.statusPing = n]
  <1>3. r \in Setting
    BY <1>1 DEF Setting
  <1>4. r.overrideStatusPing = b
    BY Zenon DEF Setting
  <1>5. r.statusPing = n
    BY Zenon DEF Setting
  <1>6. /\ r.overridePing = s.overridePing
        /\ r.ping = s.ping /\ r.speed = s.speed
    BY DEF Setting
  <1> HIDE DEF r
  <1>7. IF r.overrideStatusPing THEN r.statusPing \in arg ELSE arg = {}
    BY <1>1, <1>4, <1>5, Zenon
  <1> QED
    BY <1>2, <1>3, <1>6, <1>7, Zenon DEF r

\* What the one argument does to the ping of answers: with undefined, any number
\* may be left.
LEMMA AloneIsSet ==
    ASSUME NEW s \in Setting, NEW arg \in SUBSET Pings, ~WrongType(arg),
           NEW r, r = AloneForStatus(s, arg),
           NEW status, status = IF IsInt(arg) THEN arg ELSE Pings \cup {0}
    PROVE  /\ r \in Setting
           /\ IF r.overrideStatusPing THEN r.statusPing \in status ELSE status = {}
           /\ r.overridePing = s.overridePing
           /\ r.ping = s.ping /\ r.speed = s.speed
  <1>1. CASE IsInt(arg)
    BY <1>1, StatusPingIsSet, Zenon DEF AloneForStatus
  <1>2. CASE ~IsInt(arg)
    <2> DEFINE t == TRUE
    <2>1. r = [s EXCEPT !.overrideStatusPing = t] /\ t \in BOOLEAN /\ t
      BY <1>2, Zenon DEF AloneForStatus
    <2> HIDE DEF t
    <2>2. /\ r \in Setting /\ r.overridePing = s.overridePing /\ r.ping = s.ping
          /\ r.speed = s.speed /\ r.statusPing = s.statusPing
          /\ s.statusPing \in Pings \cup {0}
      BY <2>1 DEF Setting
    <2>3. r.overrideStatusPing = t
      BY <2>1, Zenon DEF Setting
    <2>4. IF r.overrideStatusPing THEN r.statusPing \in Pings \cup {0}
          ELSE Pings \cup {0} = {}
      BY <2>1, <2>2, <2>3, Zenon
    <2> QED
      BY <1>2, <2>1, <2>2, <2>4, Zenon
  <1> QED
    BY <1>1, <1>2

\* A player who connects has no perks; pings and speed are those of the slot.
LEMMA ConnectsKeepsSettings ==
    ASSUME SettingsTypeOK, NEW id \in ClientNum, PlayerConnects(id)
    PROVE  SettingsTypeOK'
  <1> DEFINE a == [asked[id] EXCEPT !.perks = {}]
  <1>1. a \in Request
    BY SlotStays DEF Request
  <1>2. /\ a.board = asked[id].board /\ a.status = asked[id].status
        /\ a.speed = asked[id].speed /\ a.perks = {}
    BY SlotStays DEF Request
  <1>3. asked' = [asked EXCEPT ![id] = a]
    BY DEF PlayerConnects, SettingsTypeOK, Request
  <1> HIDE DEF a
  <1>4. /\ IF settings[id].overridePing THEN settings[id].ping \in a.board ELSE a.board = {}
        /\ IF settings[id].overrideStatusPing THEN settings[id].statusPing \in a.status
           ELSE a.status = {}
        /\ settings[id].speed = a.speed
    BY <1>2, SlotStays, Zenon DEF AsAsked
  <1>5. /\ players' = [players EXCEPT ![id] = "connecting"]
        /\ perks' = [perks EXCEPT ![id] = {}]
        /\ settings' = [settings EXCEPT ![id] = settings[id]]
    BY SlotStays, Zenon DEF PlayerConnects
  <1> QED
    BY <1>1, <1>2, <1>3, <1>4, <1>5, SlotStays, SlotChanges, Zenon

\* A player who enters the game or leaves changes nothing of that.
LEMMA EntersKeepsSettings ==
    ASSUME SettingsTypeOK, NEW id \in ClientNum, EntersOrLeaves(id)
    PROVE  SettingsTypeOK'
  <1>1. PICK state \in {"free", "playing"} :
            /\ players' = [players EXCEPT ![id] = state] /\ players[id] # "free"
    BY DEF EntersOrLeaves
  <1>2. /\ settings' = [settings EXCEPT ![id] = settings[id]]
        /\ asked' = [asked EXCEPT ![id] = asked[id]]
        /\ perks' = [perks EXCEPT ![id] = perks[id]]
    BY SlotStays, Zenon DEF EntersOrLeaves
  <1>3. state \in {"free", "connecting", "playing"}
    BY <1>1
  <1>4. /\ IF settings[id].overridePing THEN settings[id].ping \in asked[id].board
           ELSE asked[id].board = {}
        /\ IF settings[id].overrideStatusPing THEN settings[id].statusPing \in asked[id].status
           ELSE asked[id].status = {}
        /\ settings[id].speed = asked[id].speed
        /\ perks[id] = asked[id].perks
    BY <1>1, SlotStays, Zenon DEF AsAsked
  <1> QED
    BY <1>1, <1>2, <1>3, <1>4, SlotStays, SlotChanges, Zenon

\* New perks of a slot with what is asked for it.
LEMMA PerksChange ==
    ASSUME SettingsTypeOK, NEW id \in ClientNum, NEW p \in SUBSET Perk, NEW a \in Request,
           perks' = [perks EXCEPT ![id] = p],
           asked' = [asked EXCEPT ![id] = a],
           UNCHANGED <<players, settings>>, a.perks = p, a.speed = asked[id].speed,
           a.board = asked[id].board, a.status = asked[id].status
    PROVE  SettingsTypeOK'
  <1>1. /\ players' = [players EXCEPT ![id] = players[id]]
        /\ settings' = [settings EXCEPT ![id] = settings[id]]
        /\ players[id] # "free" => p = a.perks
    BY SlotStays, Zenon
  <1>2. settings[id] \in Setting /\ players[id] \in {"free", "connecting", "playing"}
    BY SlotStays, Zenon
  <1>3. /\ IF settings[id].overridePing THEN settings[id].ping \in a.board ELSE a.board = {}
        /\ IF settings[id].overrideStatusPing THEN settings[id].statusPing \in a.status
           ELSE a.status = {}
        /\ settings[id].speed = a.speed
    BY SlotStays, Zenon DEF AsAsked
  <1> QED
    BY <1>1, <1>2, <1>3, SlotChanges, Zenon

\* A change of the perks of a player is one of what was asked for him.
LEMMA PerksFollow ==
    ASSUME SettingsTypeOK, NEW id \in ClientNum, NEW p \in SUBSET Perk,
           perks' = [perks EXCEPT ![id] = p], asked' = [asked EXCEPT ![id].perks = p],
           UNCHANGED <<players, settings>>
    PROVE  SettingsTypeOK'
  <1> DEFINE a == [asked[id] EXCEPT !.perks = p]
  <1>1. a \in Request
    BY SlotStays DEF Request
  <1>2. /\ a.board = asked[id].board /\ a.status = asked[id].status
        /\ a.speed = asked[id].speed /\ a.perks = p
    BY SlotStays DEF Request
  <1>3. asked' = [asked EXCEPT ![id] = a]
    BY DEF SettingsTypeOK, Request
  <1> HIDE DEF a
  <1> QED
    BY <1>1, <1>2, <1>3, PerksChange

\* Giving and taking a perk.
LEMMA PerkStepsKeepSettings ==
    ASSUME SettingsTypeOK, NEW id \in ClientNum, NEW perk,
           PlayerCmd_SetPerk(id, perk) \/ PlayerCmd_UnsetPerk(id, perk)
    PROVE  SettingsTypeOK'
  <1>1. players[id] # "free" /\ perks[id] = asked[id].perks /\ perks[id] \in SUBSET Perk
    BY SlotStays, Zenon DEF AsAsked, PlayerCmd_SetPerk, PlayerCmd_UnsetPerk
  <1>2. CASE PlayerCmd_SetPerk(id, perk)
    <2> DEFINE p == perks[id] \cup ({perk} \cap Perk)
    <2>1. perks' = [perks EXCEPT ![id] = p] /\ UNCHANGED <<players, settings>>
      BY <1>2, Zenon DEF PlayerCmd_SetPerk
    <2>2. asked' = [asked EXCEPT ![id].perks = p]
      BY <1>1, <1>2 DEF PlayerCmd_SetPerk
    <2>3. p \in SUBSET Perk
      BY <1>1
    <2> HIDE DEF p
    <2> QED
      BY <2>1, <2>2, <2>3, PerksFollow, Zenon
  <1>3. CASE PlayerCmd_UnsetPerk(id, perk)
    <2> DEFINE p == perks[id] \ {perk}
    <2>1. perks' = [perks EXCEPT ![id] = p] /\ UNCHANGED <<players, settings>>
      BY <1>3, Zenon DEF PlayerCmd_UnsetPerk
    <2>2. asked' = [asked EXCEPT ![id].perks = p]
      BY <1>1, <1>3 DEF PlayerCmd_UnsetPerk
    <2>3. p \in SUBSET Perk
      BY <1>1
    <2> HIDE DEF p
    <2> QED
      BY <2>1, <2>2, <2>3, PerksFollow, Zenon
  <1> QED
    BY <1>2, <1>3

\* New settings of a slot with what is asked for it.
LEMMA SettingsFollow ==
    ASSUME SettingsTypeOK, NEW id \in ClientNum, NEW s \in Setting, NEW a \in Request,
           settings' = [settings EXCEPT ![id] = s],
           asked' = [asked EXCEPT ![id] = a],
           UNCHANGED <<players, perks>>, a.perks = asked[id].perks,
           IF s.overridePing THEN s.ping \in a.board ELSE a.board = {},
           IF s.overrideStatusPing THEN s.statusPing \in a.status ELSE a.status = {},
           s.speed = a.speed
    PROVE  SettingsTypeOK'
  <1>1. /\ players' = [players EXCEPT ![id] = players[id]]
        /\ perks' = [perks EXCEPT ![id] = perks[id]]
        /\ players[id] # "free" => perks[id] = a.perks
    BY SlotStays, Zenon DEF AsAsked
  <1>2. perks[id] \in SUBSET Perk /\ players[id] \in {"free", "connecting", "playing"}
    BY SlotStays, Zenon
  <1> QED
    BY <1>1, <1>2, SlotChanges, Zenon

\* So they are after the speed of a player has been asked for.
LEMMA SpeedKeepsSettings ==
    ASSUME SettingsTypeOK, NEW id \in ClientNum, NEW speed \in Speeds,
           gsc_player_setspeed(id, speed)
    PROVE  SettingsTypeOK'
  <1> DEFINE s == [settings[id] EXCEPT !.speed = speed]
             a == [asked[id] EXCEPT !.speed = speed]
  <1>1. speed \in Nat
    BY SettingsAssumption DEF gsc_player_setspeed
  <1>2. s \in Setting /\ a \in Request
    BY <1>1, SlotStays DEF Setting, Request
  <1>3. /\ a.board = asked[id].board /\ a.status = asked[id].status
        /\ a.speed = speed /\ a.perks = asked[id].perks
    BY SlotStays DEF Request
  <1>4. /\ s.overridePing = settings[id].overridePing /\ s.ping = settings[id].ping
        /\ s.overrideStatusPing = settings[id].overrideStatusPing
        /\ s.statusPing = settings[id].statusPing /\ s.speed = speed
    BY SlotStays DEF Setting
  <1>5. asked' = [asked EXCEPT ![id] = a] /\ settings' = [settings EXCEPT ![id] = s]
    BY DEF gsc_player_setspeed, SettingsTypeOK, Request, Setting
  <1>6. UNCHANGED <<players, perks>>
    BY DEF gsc_player_setspeed
  <1> HIDE DEF s, a
  <1>7. /\ IF s.overridePing THEN s.ping \in a.board ELSE a.board = {}
        /\ IF s.overrideStatusPing THEN s.statusPing \in a.status ELSE a.status = {}
        /\ s.speed = a.speed
    BY <1>3, <1>4, SlotStays, Zenon DEF AsAsked
  <1> QED
    BY <1>2, <1>3, <1>5, <1>6, <1>7, SettingsFollow, Zenon

\* And after its ping has been.
LEMMA PingKeepsSettings ==
    ASSUME SettingsTypeOK, NEW id \in ClientNum, NEW args \in PingCalls,
           gsc_player_setping(id, args)
    PROVE  SettingsTypeOK'
  <1> DEFINE first == SetBoardPing(settings[id], args[1])
             s == IF Len(args) = 1 THEN AloneForStatus(first, args[1])
                  ELSE IF WrongType(args[2]) THEN first
                  ELSE SetStatusPing(first, args[2])
             status == IF Len(args) = 1
                       THEN IF IsInt(args[1]) THEN args[1] ELSE Pings \cup {0}
                       ELSE IF WrongType(args[2]) THEN asked[id].status ELSE args[2]
             a == [asked[id] EXCEPT !.board = args[1], !.status = status]
  <1>1. /\ args[1] \in SUBSET Pings /\ ~WrongType(args[1])
        /\ Len(args) # 1 => args[2] \in SUBSET Pings
    <2>1. args \in Seq(SUBSET Pings) /\ args # <<>>
      BY SettingsAssumption DEF gsc_player_setping
    <2>2. ~WrongType(args[1])
      BY Zenon DEF gsc_player_setping
    <2>3. Len(args) \in Nat \ {0} /\ \A n \in 1..Len(args) : args[n] \in SUBSET Pings
      BY <2>1
    <2>4. 1 \in 1..Len(args) /\ (Len(args) # 1 => 2 \in 1..Len(args))
      BY <2>3
    <2> QED
      BY <2>2, <2>3, <2>4, Zenon
  <1>2. /\ first \in Setting
        /\ IF first.overridePing THEN first.ping \in args[1] ELSE args[1] = {}
        /\ first.overrideStatusPing = settings[id].overrideStatusPing
        /\ first.statusPing = settings[id].statusPing /\ first.speed = settings[id].speed
    BY <1>1, SlotStays, BoardPingIsSet, Zenon
  <1> HIDE DEF first
  <1>3. /\ s \in Setting
        /\ IF s.overrideStatusPing THEN s.statusPing \in status ELSE status = {}
        /\ s.overridePing = first.overridePing /\ s.ping = first.ping /\ s.speed = first.speed
    <2>1. CASE Len(args) = 1
      <3>1. /\ s = AloneForStatus(first, args[1])
            /\ status = IF IsInt(args[1]) THEN args[1] ELSE Pings \cup {0}
        BY <2>1, Zenon
      <3> HIDE DEF s, status
      <3> QED
        BY <1>1, <1>2, <3>1, AloneIsSet
    <2>2. CASE Len(args) # 1 /\ WrongType(args[2])
      BY <1>2, <2>2, SlotStays, Zenon DEF AsAsked
    <2>3. CASE Len(args) # 1 /\ ~WrongType(args[2])
      BY <1>1, <1>2, <2>3, StatusPingIsSet, Zenon
    <2> QED
      BY <2>1, <2>2, <2>3, Zenon
  <1>4. status \in SUBSET (Pings \cup {0})
    BY <1>1, SlotStays DEF Request
  <1>5. /\ settings' = [settings EXCEPT ![id] = s]
        /\ asked' = [asked EXCEPT ![id].board = args[1], ![id].status = status]
        /\ UNCHANGED <<players, perks>>
    BY Zenon DEF gsc_player_setping, first
  <1> HIDE DEF s, status
  <1>6. asked' = [asked EXCEPT ![id] = a]
    BY <1>5 DEF SettingsTypeOK, Request
  <1>7. /\ a \in Request /\ a.board = args[1] /\ a.status = status
        /\ a.speed = asked[id].speed /\ a.perks = asked[id].perks
    BY <1>1, <1>4, SlotStays DEF Request
  <1> HIDE DEF a
  <1>8. /\ IF s.overridePing THEN s.ping \in a.board ELSE a.board = {}
        /\ IF s.overrideStatusPing THEN s.statusPing \in a.status ELSE a.status = {}
        /\ s.speed = a.speed
    BY <1>2, <1>3, <1>7, SlotStays, Zenon DEF AsAsked
  <1> QED
    BY <1>3, <1>5, <1>6, <1>7, <1>8, SettingsFollow, Zenon

\* A step that changes nothing of what is kept.
LEMMA KeepsSettings ==
    ASSUME SettingsTypeOK, UNCHANGED <<players, settings, perks, asked>>
    PROVE  SettingsTypeOK'
  BY DEF SettingsTypeOK, AsAsked

\* And after every step.
LEMMA SettingsNextOK == SettingsTypeOK /\ [SettingsNext]_setvars => SettingsTypeOK'
  <1> SUFFICES ASSUME SettingsTypeOK, [SettingsNext]_setvars PROVE SettingsTypeOK'
    OBVIOUS
  <1>1. ASSUME NEW id \in ClientNum, PlayerConnects(id) PROVE SettingsTypeOK'
    BY <1>1, ConnectsKeepsSettings
  <1>2. ASSUME NEW id \in ClientNum, EntersOrLeaves(id) PROVE SettingsTypeOK'
    BY <1>2, EntersKeepsSettings
  <1>3. ASSUME NEW id \in ClientNum, NEW perk,
               PlayerCmd_SetPerk(id, perk) \/ PlayerCmd_UnsetPerk(id, perk)
        PROVE  SettingsTypeOK'
    BY <1>3, PerkStepsKeepSettings
  <1>4. ASSUME NEW id \in ClientNum, NEW perk, PlayerCmd_HasPerk(id, perk)
        PROVE  SettingsTypeOK'
    BY <1>4, KeepsSettings DEF PlayerCmd_HasPerk
  <1>5. ASSUME NEW id \in ClientNum, NEW speed \in Speeds, gsc_player_setspeed(id, speed)
        PROVE  SettingsTypeOK'
    BY <1>5, SpeedKeepsSettings
  <1>6. ASSUME NEW id \in ClientNum, NEW args \in PingCalls, gsc_player_setping(id, args)
        PROVE  SettingsTypeOK'
    BY <1>6, PingKeepsSettings
  <1>7. ASSUME NEW id \in ClientNum, NEW watches \in BOOLEAN, custom_ClientEndFrame(id, watches)
        PROVE  SettingsTypeOK'
    BY <1>7, KeepsSettings DEF custom_ClientEndFrame
  <1>8. ASSUME NEW order, custom_DeathmatchScoreboardMessage(order) \/ SVC_StatusAnswer(order)
        PROVE  SettingsTypeOK'
    BY <1>8, KeepsSettings DEF custom_DeathmatchScoreboardMessage, SVC_StatusAnswer
  <1>9. CASE SVC_InfoAnswer
    BY <1>9, KeepsSettings DEF SVC_InfoAnswer
  <1>10. CASE UNCHANGED setvars
    BY <1>10, KeepsSettings DEF setvars
  <1> QED
    BY <1>1, <1>2, <1>3, <1>4, <1>5, <1>6, <1>7, <1>8, <1>9, <1>10, Zenon DEF SettingsNext

------------------------------------------------------------------------------
(* What is shown *)

\* An order of those who are connected names nobody twice.
LEMMA OrderOf ==
    ASSUME NEW order \in SetToSeqs(Connected)
    PROVE  /\ order \in Seq(ClientNum)
           /\ \A j, k \in DOMAIN order : order[j] = order[k] => j = k
  <1>1. Connected \subseteq ClientNum
    BY DEF Connected
  <1>2. IsFiniteSet(ClientNum)
    <2>1. 0 \in Int /\ sv_maxclients - 1 \in Int
      BY ClientNumbersAssumption
    <2> QED
      BY <2>1, FS_Interval, Zenon DEF ClientNum
  <1>3. Cardinality(Connected) \in Nat
    BY <1>1, <1>2, FS_Subset, FS_CardinalityType
  <1>4. /\ order \in [1..Cardinality(Connected) -> Connected]
        /\ \A j, k \in 1..Cardinality(Connected) : j # k => order[j] # order[k]
    BY Zenon DEF SetToSeqs
  <1> QED
    BY <1>1, <1>3, <1>4

\* The first lines of a list that names who is at the same place of the order.
LEMMA FirstLinesInOrder ==
    ASSUME NEW order \in SetToSeqs(Connected), NEW entries \in Seq(ListLine),
           DOMAIN entries = DOMAIN order,
           \A k \in DOMAIN order : entries[k].client = order[k],
           NEW n \in 0..Len(entries), NEW out, out.order = order,
           out.entries = SubSeq(entries, 1, n)
    PROVE  /\ LinesInOrder(out) /\ Len(out.entries) = n /\ DOMAIN out.entries = 1..n
           /\ \A k \in 1..n : out.entries[k] = entries[k] /\ k \in DOMAIN order
           /\ n + 1 \in DOMAIN order => n < Len(entries)
  <1>1. /\ SubSeq(entries, 1, n) \in Seq(ListLine) /\ Len(SubSeq(entries, 1, n)) = n
        /\ \A k \in 1..n : SubSeq(entries, 1, n)[k] = entries[k]
    BY FirstOf
  <1>2. DOMAIN order = 1..Len(entries)
    OBVIOUS
  <1> DEFINE first == SubSeq(entries, 1, n)
  <1> HIDE DEF first
  <1>3. DOMAIN first = 1..n /\ \A k \in 1..n : first[k] = entries[k] /\ k \in DOMAIN order
    BY <1>1, <1>2 DEF first
  <1>4. \A j, k \in DOMAIN first : first[j].client = first[k].client => j = k
    <2>1. \A k \in DOMAIN first : first[k].client = order[k] /\ k \in DOMAIN order
      BY <1>3, Zenon
    <2>2. \A j, k \in DOMAIN order : order[j] = order[k] => j = k
      BY OrderOf, Zenon
    <2> SUFFICES ASSUME NEW j \in DOMAIN first, NEW k \in DOMAIN first,
                        first[j].client = first[k].client
                 PROVE  j = k
      BY Zenon
    <2>3. order[j] = order[k]
      BY <2>1
    <2> QED
      BY <2>1, <2>2, <2>3, Zenon
  <1>5. LinesInOrder(out)
    BY <1>3, <1>4, Zenon DEF LinesInOrder, first
  <1>6. n + 1 \in DOMAIN order => n < Len(entries)
    BY <1>2
  <1> QED
    BY <1>1, <1>3, <1>5, <1>6, Zenon DEF first

\* The line of the scoreboard for a player is one that was asked for.
LEMMA EntryIs ==
    ASSUME SettingsTypeOK, NEW order \in SetToSeqs(Connected), NEW k \in DOMAIN order
    PROVE  Entry(order, k) \in ListLine /\ Entry(order, k) \in BoardLineOf(order[k])
  <1> DEFINE id == order[k]
  <1>1. id \in ClientNum
    BY OrderOf
  <1>2. settings[id] \in Setting /\ asked[id] \in Request /\ AsAsked(id)
    BY <1>1, SlotStays, Zenon
  <1>3. /\ IF settings[id].overridePing THEN settings[id].ping \in asked[id].board
           ELSE asked[id].board = {}
        /\ settings[id].ping \in Pings \cup {0}
    BY <1>2 DEF AsAsked, Setting
  <1>4. settings[id].ping \in Int
    <2>1. settings[id].ping \in Pings \cup {0}
      BY <1>2 DEF Setting
    <2>2. \A n \in Pings \cup {0} : n \in Int
      BY SettingsAssumption
    <2> QED
      BY <2>1, <2>2, Zenon
  <1>5. SV_GetClientPing(id) \in Int /\ SV_GetClientPing(id) \in Expected(asked[id].board)
    <2>1. CASE settings[id].overridePing
      <3>1. SV_GetClientPing(id) = settings[id].ping /\ asked[id].board # {}
        BY <1>3, <2>1, Zenon DEF SV_GetClientPing
      <3>2. settings[id].ping \in Int
        BY <1>4, Zenon
      <3> QED
        BY <1>3, <2>1, <3>1, <3>2, Zenon DEF Expected
    <2>2. CASE ~settings[id].overridePing
      <3>1. SV_GetClientPing(id) = Measured /\ asked[id].board = {}
        BY <1>3, <2>2, Zenon DEF SV_GetClientPing
      <3>2. Measured \in Int
        BY SettingsAssumption
      <3> QED
        BY <3>1, <3>2, Zenon DEF Expected
    <2> QED
      BY <2>1, <2>2
  <1>6. Entry(order, k) = [client |-> id, ping |-> IF players[id] = "connecting" THEN -1
                                                 ELSE SV_GetClientPing(id)]
    BY Zenon DEF Entry
  <1> HIDE DEF id
  <1>7. Entry(order, k) \in ListLine
    BY <1>1, <1>5, <1>6 DEF ListLine
  <1>8. Entry(order, k) \in BoardLineOf(id)
    <2>1. CASE players[id] = "connecting"
      BY <1>6, <2>1, Zenon DEF BoardLineOf
    <2>2. CASE players[id] # "connecting"
      BY <1>5, <1>6, <2>2, Zenon DEF BoardLineOf, LineFor
    <2> QED
      BY <2>1, <2>2
  <1> QED
    BY <1>7, <1>8 DEF id

\* A scoreboard shows what has been set for the players on it.
LEMMA BoardIsAsAsked ==
    ASSUME SettingsTypeOK, NEW order \in SetToSeqs(Connected),
           custom_DeathmatchScoreboardMessage(order)
    PROVE  shown'.kind = "board" /\ BoardAsAsked(shown')
  <1> DEFINE entries == [k \in DOMAIN order |-> Entry(order, k)]
             visible == Visible(entries)
             out == [kind |-> "board", count |-> Len(visible), entries |-> visible,
                     order |-> order]
  <1>1. shown' = out
    BY Zenon DEF custom_DeathmatchScoreboardMessage, Shows
  <1>2. /\ entries \in Seq(ListLine) /\ DOMAIN entries = DOMAIN order
        /\ \A k \in DOMAIN order : entries[k] = Entry(order, k)
    <2>1. order \in Seq(ClientNum)
      BY OrderOf
    <2>2. \A k \in DOMAIN order : Entry(order, k) \in ListLine
      BY EntryIs
    <2> QED
      BY <2>1, <2>2
  <1>3. \A k \in DOMAIN order : entries[k].client = order[k]
    BY <1>2 DEF Entry
  <1>4. /\ out.kind = "board" /\ out.count = Len(visible) /\ out.entries = visible
        /\ out.order = order
    OBVIOUS
  <1> HIDE DEF entries, out
  <1>5. PICK n \in 0..Len(entries) :
            /\ visible = SubSeq(entries, 1, n)
            /\ BoardLength(visible) <= MAX_BOARD
            /\ n < Len(entries) => BoardLength(visible) +
                                        BoardEntryLength(entries[n + 1]) > MAX_BOARD
    BY <1>2, VisibleFits, Zenon
  <1> HIDE DEF visible
  <1>6. /\ LinesInOrder(out) /\ Len(out.entries) = n /\ DOMAIN out.entries = 1..n
        /\ \A k \in 1..n : out.entries[k] = entries[k] /\ k \in DOMAIN order
        /\ n + 1 \in DOMAIN order => n < Len(entries)
    BY <1>2, <1>3, <1>4, <1>5, FirstLinesInOrder
  <1>7. \A k \in DOMAIN order : entries[k] \in BoardLineOf(order[k])
    BY <1>2, EntryIs, Zenon
  <1>8. BoardAsAsked(out)
    BY <1>4, <1>5, <1>6, <1>7, Zenon DEF BoardAsAsked
  <1> QED
    BY <1>1, <1>4, <1>8, Zenon

\* A status answer shows the pings that have been set.
LEMMA StatusIsAsAsked ==
    ASSUME SettingsTypeOK, NEW order \in SetToSeqs(Connected), SVC_StatusAnswer(order)
    PROVE  shown'.kind = "status" /\ StatusAsAsked(shown')
  <1> DEFINE line(id) == [client |-> id,
                          ping |-> IF settings[id].overrideStatusPing
                                   THEN settings[id].statusPing ELSE Measured]
             entries == [k \in DOMAIN order |-> line(order[k])]
             listed == Listed(entries)
             out == [kind |-> "status", entries |-> listed, order |-> order]
  <1>1. shown' = out
    BY Zenon DEF SVC_StatusAnswer, Shows
  <1>2. ASSUME NEW id \in ClientNum
        PROVE  line(id) \in ListLine /\ line(id) \in StatusLineOf(id) /\ line(id).client = id
    <2>1. settings[id] \in Setting /\ AsAsked(id)
      BY SlotStays, Zenon
    <2>2. settings[id].statusPing \in Int
      <3>1. settings[id].statusPing \in Pings \cup {0}
        BY <2>1 DEF Setting
      <3>2. \A n \in Pings \cup {0} : n \in Int
        BY SettingsAssumption
      <3> QED
        BY <3>1, <3>2, Zenon
    <2>3. Measured \in Int
      BY SettingsAssumption
    <2> DEFINE p == IF settings[id].overrideStatusPing THEN settings[id].statusPing
                    ELSE Measured
    <2>4. p \in Int /\ p \in Expected(asked[id].status)
      <3>1. CASE settings[id].overrideStatusPing
        BY <2>1, <2>2, <3>1, Zenon DEF AsAsked, Expected
      <3>2. CASE ~settings[id].overrideStatusPing
        BY <2>1, <2>3, <3>2, Zenon DEF AsAsked, Expected
      <3> QED
        BY <3>1, <3>2
    <2>5. line(id) = [client |-> id, ping |-> p]
      OBVIOUS
    <2> HIDE DEF p, line
    <2> QED
      BY <2>4, <2>5 DEF ListLine, StatusLineOf, LineFor
  <1>3. /\ order \in Seq(ClientNum)
        /\ \A k \in DOMAIN order : order[k] \in ClientNum
    BY OrderOf
  <1> HIDE DEF line
  <1>4. /\ entries \in Seq(ListLine) /\ DOMAIN entries = DOMAIN order
        /\ \A k \in DOMAIN order : entries[k] = line(order[k])
    BY <1>2, <1>3
  <1>5. \A k \in DOMAIN order : /\ entries[k].client = order[k]
                                /\ entries[k] \in StatusLineOf(order[k])
    BY <1>2, <1>3, <1>4, Zenon
  <1>6. out.kind = "status" /\ out.entries = listed /\ out.order = order
    OBVIOUS
  <1> HIDE DEF entries, out
  <1>7. PICK n \in 0..Len(entries) :
            /\ listed = SubSeq(entries, 1, n)
            /\ StatusLength(listed) < MAX_STATUS
            /\ n < Len(entries) => StatusLength(listed) +
                                        StatusLineLength(entries[n + 1]) >= MAX_STATUS
    BY <1>4, ListedFits, Zenon
  <1> HIDE DEF listed
  <1>8. /\ LinesInOrder(out) /\ Len(out.entries) = n /\ DOMAIN out.entries = 1..n
        /\ \A k \in 1..n : out.entries[k] = entries[k] /\ k \in DOMAIN order
        /\ n + 1 \in DOMAIN order => n < Len(entries)
    BY <1>4, <1>5, <1>6, <1>7, FirstLinesInOrder
  <1>9. StatusAsAsked(out)
    BY <1>5, <1>6, <1>7, <1>8, Zenon DEF StatusAsAsked
  <1> QED
    BY <1>1, <1>6, <1>9, Zenon

\* A player is as fast as has been set.
LEMMA SpeedIsAsAsked ==
    ASSUME SettingsTypeOK, NEW id \in ClientNum, NEW watches \in BOOLEAN,
           custom_ClientEndFrame(id, watches)
    PROVE  shown'.kind = "speed" /\ SpeedAsAsked(shown')
  <1> DEFINE speed == IF ~watches /\ settings[id].speed > 0 THEN settings[id].speed
                      ELSE g_speed
             out == [kind |-> "speed", client |-> id, watches |-> watches, speed |-> speed]
  <1>1. shown' = out
    BY Zenon DEF custom_ClientEndFrame, Shows
  <1>2. settings[id].speed = asked[id].speed
    BY SlotStays, Zenon DEF AsAsked
  <1>3. speed = IF ~watches /\ asked[id].speed > 0 THEN asked[id].speed ELSE g_speed
    BY <1>2, Zenon
  <1>4. out.kind = "speed" /\ out.speed = speed /\ out.client = id /\ out.watches = watches
    BY Zenon
  <1> HIDE DEF out, speed
  <1>5. SpeedAsAsked(out)
    BY <1>3, <1>4, Zenon DEF SpeedAsAsked
  <1> QED
    BY <1>1, <1>4, <1>5, Zenon

\* Whatever a step shows is as it was asked for.
LEMMA StepShows ==
    ASSUME SettingsTypeOK, SettingsNext
    PROVE  /\ shown'.kind = "board" => BoardAsAsked(shown')
           /\ shown'.kind = "status" => StatusAsAsked(shown')
           /\ shown'.kind = "speed" => SpeedAsAsked(shown')
  <1>1. ASSUME ShowsNothing PROVE shown'.kind = "nothing"
    BY <1>1 DEF ShowsNothing, Shows, NothingShown
  <1>2. ASSUME NEW id \in ClientNum,
               \/ PlayerConnects(id) \/ EntersOrLeaves(id)
               \/ \E perk \in Perk \cup {"unknown"} :
                    PlayerCmd_SetPerk(id, perk) \/ PlayerCmd_UnsetPerk(id, perk)
               \/ \E speed \in Speeds : gsc_player_setspeed(id, speed)
               \/ \E args \in PingCalls : gsc_player_setping(id, args)
        PROVE  shown'.kind = "nothing"
    BY <1>1, <1>2, Zenon DEF PlayerConnects, EntersOrLeaves, PlayerCmd_SetPerk,
            PlayerCmd_UnsetPerk, gsc_player_setspeed, gsc_player_setping
  <1>3. ASSUME NEW id \in ClientNum, NEW perk, PlayerCmd_HasPerk(id, perk)
        PROVE  shown'.kind = "perk"
    BY <1>3 DEF PlayerCmd_HasPerk, Shows
  <1>4. ASSUME NEW id \in ClientNum, NEW watches \in BOOLEAN, custom_ClientEndFrame(id, watches)
        PROVE  shown'.kind = "speed" /\ SpeedAsAsked(shown')
    BY <1>4, SpeedIsAsAsked
  <1>5. ASSUME NEW order \in SetToSeqs(Connected), custom_DeathmatchScoreboardMessage(order)
        PROVE  shown'.kind = "board" /\ BoardAsAsked(shown')
    BY <1>5, BoardIsAsAsked
  <1>6. ASSUME NEW order \in SetToSeqs(Connected), SVC_StatusAnswer(order)
        PROVE  shown'.kind = "status" /\ StatusAsAsked(shown')
    BY <1>6, StatusIsAsAsked
  <1>7. ASSUME SVC_InfoAnswer PROVE shown'.kind = "info"
    BY <1>7 DEF SVC_InfoAnswer, Shows
  <1>8. \/ shown'.kind \in {"nothing", "perk", "info"}
        \/ shown'.kind = "board" /\ BoardAsAsked(shown')
        \/ shown'.kind = "status" /\ StatusAsAsked(shown')
        \/ shown'.kind = "speed" /\ SpeedAsAsked(shown')
    <2>1. CASE \E id \in ClientNum :
                  \/ PlayerConnects(id) \/ EntersOrLeaves(id)
                  \/ \E perk \in Perk \cup {"unknown"} :
                        PlayerCmd_SetPerk(id, perk) \/ PlayerCmd_UnsetPerk(id, perk)
                  \/ \E speed \in Speeds : gsc_player_setspeed(id, speed)
                  \/ \E args \in PingCalls : gsc_player_setping(id, args)
      BY <1>2, <2>1, Zenon
    <2>2. CASE \E id \in ClientNum : \E perk \in Perk \cup {"unknown"} :
                    PlayerCmd_HasPerk(id, perk)
      BY <1>3, <2>2, Zenon
    <2>3. CASE \E id \in ClientNum : \E watches \in BOOLEAN : custom_ClientEndFrame(id, watches)
      BY <1>4, <2>3, Zenon
    <2>4. CASE \E order \in SetToSeqs(Connected) :
                    custom_DeathmatchScoreboardMessage(order) \/ SVC_StatusAnswer(order)
      BY <1>5, <1>6, <2>4, Zenon
    <2>5. CASE SVC_InfoAnswer
      BY <1>7, <2>5, Zenon
    <2> QED
      BY <2>1, <2>2, <2>3, <2>4, <2>5, Zenon DEF SettingsNext
  <1> HIDE DEF BoardAsAsked, StatusAsAsked, SpeedAsAsked
  <1> QED
    BY <1>8

\* The settings of the slots are what was asked for them last, however slots change
\* hands (PlayerSettings.tla: SettingsTypeOK).
THEOREM SettingsAreKept == SettingsSpec => []SettingsTypeOK
  BY SettingsInitOK, SettingsNextOK, PTL DEF SettingsSpec

\* What the scoreboard, an answer to getstatus and the movement of a player show is
\* what scripts asked for the player who is named, for any number of slots, any
\* pings and any lengths of the messages (librarymodule.c:133, sv_main.c:319).
THEOREM BoardsShowPlayers == SettingsSpec => BoardShowsPlayers
  <1>1. SettingsTypeOK /\ [SettingsNext]_setvars
            => [/\ shown'.kind = "board" => BoardAsAsked(shown')
                /\ shown'.kind = "status" => StatusAsAsked(shown')
                /\ shown'.kind = "speed" => SpeedAsAsked(shown')]_setvars
    BY StepShows
  <1> QED
    BY SettingsAreKept, <1>1, PTL DEF SettingsSpec, BoardShowsPlayers

------------------------------------------------------------------------------
(* The helpers for text and tables.  What is written fits what was set aside *)
(* for it, whatever the texts.                                               *)

\* What is behind a place of a text.
LEMMA BehindPlace ==
    ASSUME NEW S, NEW s \in Seq(S), NEW p \in 1..(Len(s) + 1)
    PROVE  From(s, p) \in Seq(S) /\ Len(From(s, p)) = Len(s) - p + 1
  <1>1. Len(s) \in Nat /\ Len(s) \in (p - 1)..Len(s) /\ p \in 1..(Len(s) + 1)
    OBVIOUS
  <1>2. /\ SubSeq(s, p, Len(s)) \in Seq(S)
        /\ Len(SubSeq(s, p, Len(s))) = IF p <= Len(s) THEN Len(s) - p + 1 ELSE 0
    BY <1>1, SubSeqProperties
  <1>3. Len(s) - p + 1 = IF p <= Len(s) THEN Len(s) - p + 1 ELSE 0
    BY <1>1
  <1> QED
    BY <1>2, <1>3, Zenon DEF From

\* An occurrence lies within the text.
LEMMA OccurrenceWithin ==
    ASSUME NEW S, NEW s \in Seq(S), NEW t \in Seq(S)
    PROVE  strstr(s, t) = 0 \/ strstr(s, t) \in 1..(Len(s) - Len(t) + 1)
  <1> DEFINE at == {i \in 1..(Len(s) - Len(t) + 1) : SubSeq(s, i, i + Len(t) - 1) = t}
  <1>1. strstr(s, t) = IF at = {} THEN 0 ELSE Min(at)
    BY Zenon DEF strstr
  <1>2. at \in SUBSET Nat /\ at \subseteq 1..(Len(s) - Len(t) + 1)
    OBVIOUS
  <1> HIDE DEF at
  <1>3. CASE at = {}
    BY <1>1, <1>3
  <1>4. CASE at # {}
    <2>1. \E i \in at : \A j \in at : i <= j
      BY <1>2, <1>4, LeastOf
    <2>2. Min(at) \in at
      BY <2>1, Zenon DEF Min
    <2> QED
      BY <1>1, <1>2, <1>4, <2>2
  <1> QED
    BY <1>3, <1>4

\* Where to go on from each place: further on, or nowhere.
GoesOn(next, final) ==
    next \in [1..final -> 0..final] /\ \A p \in 1..final : next[p] = 0 \/ next[p] > p

\* How often one can go on along next.
CountsOn(f, next, final) ==
    f = [p \in 1..final |-> IF next[p] = 0 THEN 0 ELSE 1 + f[next[p]]]

\* Going on comes to an end.
LEMMA CountExists ==
    ASSUME NEW final \in Nat, NEW next, GoesOn(next, final)
    PROVE  \E f \in [1..final -> Nat] : CountsOn(f, next, final)
  <1> USE DEF GoesOn
  <1> DEFINE Step(f, p) == f[p] = IF next[p] = 0 THEN 0 ELSE 1 + f[next[p]]
             Done == {m \in Nat : \E f \in [1..final -> Nat] :
                            \A p \in 1..final : p > final - m => Step(f, p)}
  <1>1. 0 \in Done
    <2>1. [p \in 1..final |-> 0] \in [1..final -> Nat]
      OBVIOUS
    <2>2. \A p \in 1..final : ~(p > final - 0)
      OBVIOUS
    <2> QED
      BY <2>1, <2>2
  <1>2. ASSUME NEW m \in Done PROVE m + 1 \in Done
    <2>1. PICK f \in [1..final -> Nat] : \A p \in 1..final : p > final - m => Step(f, p)
      OBVIOUS
    <2> DEFINE q == final - m
               g == [f EXCEPT ![q] = IF next[q] = 0 THEN 0 ELSE 1 + f[next[q]]]
    <2>2. m \in Nat /\ q \in Int
      OBVIOUS
    <2>3. g \in [1..final -> Nat]
      <3>1. CASE q \in 1..final
        <4>1. next[q] # 0 => next[q] \in 1..final
          BY <3>1
        <4>2. (IF next[q] = 0 THEN 0 ELSE 1 + f[next[q]]) \in Nat
          BY <4>1
        <4> HIDE DEF q
        <4> QED
          BY <4>2
      <3>2. CASE q \notin 1..final
        <4>1. g = f
          BY <3>2
        <4> QED
          BY <4>1
      <3> QED
        BY <3>1, <3>2
    <2>4. ASSUME NEW p \in 1..final, p > final - (m + 1) PROVE Step(g, p)
      <3>1. p = q \/ p > q
        BY <2>2, <2>4
      <3>2. next[p] = 0 \/ (next[p] \in 1..final /\ next[p] > p)
        OBVIOUS
      <3>3. next[p] # 0 => next[p] # q /\ g[next[p]] = f[next[p]]
        <4>1. next[p] # 0 => next[p] # q
          BY <2>2, <3>1, <3>2
        <4> HIDE DEF q
        <4> QED
          BY <3>2, <4>1
      <3>4. CASE p = q
        <4>1. g[p] = IF next[p] = 0 THEN 0 ELSE 1 + f[next[p]]
          BY <3>4
        <4> HIDE DEF g
        <4> QED
          BY <3>3, <4>1
      <3>5. CASE p > q
        <4>1. Step(f, p)
          BY <2>1, <3>5
        <4>2. p # q
          BY <2>2, <3>5
        <4>3. g[p] = f[p]
          BY <4>2
        <4> HIDE DEF g
        <4> QED
          BY <3>3, <4>1, <4>3
      <3> QED
        BY <3>1, <3>4, <3>5
    <2> HIDE DEF g, Step
    <2>5. m + 1 \in Nat
      BY <2>2
    <2> QED
      BY <2>3, <2>4, <2>5
  <1>3. final \in Done
    <2>1. Done \in SUBSET Nat
      OBVIOUS
    <2> HIDE DEF Done
    <2>2. Done = Nat
      BY <1>1, <1>2, <2>1, AllNumbers
    <2> QED
      BY <2>2
  <1>4. PICK f \in [1..final -> Nat] : \A p \in 1..final : p > final - final => Step(f, p)
    BY <1>3
  <1>5. \A p \in 1..final : p > final - final
    OBVIOUS
  <1>6. \A p \in 1..final : f[p] = IF next[p] = 0 THEN 0 ELSE 1 + f[next[p]]
    BY <1>4, <1>5
  <1>7. f = [p \in 1..final |-> IF next[p] = 0 THEN 0 ELSE 1 + f[next[p]]]
    BY <1>6
  <1> QED
    BY <1>7, Zenon DEF CountsOn

\* Whatever counts on gives numbers.
LEMMA CountIsNumber ==
    ASSUME NEW final \in Nat, NEW next, GoesOn(next, final),
           NEW f, CountsOn(f, next, final)
    PROVE  f \in [1..final -> Nat]
  <1> USE DEF GoesOn
  <1>1. f = [p \in 1..final |-> IF next[p] = 0 THEN 0 ELSE 1 + f[next[p]]]
    BY Zenon DEF CountsOn
  <1> DEFINE Done == {m \in Nat : \A p \in 1..final : p > final - m => f[p] \in Nat}
  <1>2. 0 \in Done
    OBVIOUS
  <1>3. ASSUME NEW m \in Done PROVE m + 1 \in Done
    <2>1. ASSUME NEW p \in 1..final, p > final - (m + 1) PROVE f[p] \in Nat
      <3>1. next[p] = 0 \/ (next[p] \in 1..final /\ next[p] > final - m)
        BY <2>1
      <3>2. next[p] # 0 => f[next[p]] \in Nat
        BY <3>1
      <3>3. f[p] = IF next[p] = 0 THEN 0 ELSE 1 + f[next[p]]
        BY <1>1
      <3> QED
        BY <3>2, <3>3
    <2> QED
      BY <2>1
  <1>4. final \in Done
    <2>1. Done \in SUBSET Nat
      OBVIOUS
    <2> HIDE DEF Done
    <2>2. Done = Nat
      BY <1>2, <1>3, <2>1, AllNumbers
    <2> QED
      BY <2>2
  <1>5. \A p \in 1..final : f[p] \in Nat
    BY <1>4
  <1> QED
    BY <1>1, <1>5

\* What is put together of count pieces and a rest, from each place on.
PutsTogether(f, pieces, rests, next, final, count) ==
    f = [n \in 0..count |-> [p \in 1..final |->
            IF n = 0 \/ next[p] = 0 THEN rests[p] ELSE pieces[p] \o f[n - 1][next[p]]]]

\* That can be done.
LEMMA TogetherExists ==
    ASSUME NEW final \in Nat, NEW next, NEW pieces, NEW rests, NEW count \in Nat
    PROVE  \E f : PutsTogether(f, pieces, rests, next, final, count)
  <1> DEFINE row(before) == [p \in 1..final |->
                    IF next[p] = 0 THEN rests[p] ELSE pieces[p] \o before[next[p]]]
             first == [p \in 1..final |-> rests[p]]
             RightSize(f, m) == f = [n \in 0..m |-> IF n = 0 THEN first ELSE row(f[n - 1])]
             Done == {m \in Nat : \E f : RightSize(f, m)}
  <1>1. 0 \in Done
    <2> DEFINE f == [n \in 0..0 |-> first]
    <2>1. \A n \in 0..0 : n = 0
      OBVIOUS
    <2> HIDE DEF first, row
    <2>2. f = [n \in 0..0 |-> IF n = 0 THEN first ELSE row(f[n - 1])]
      BY <2>1
    <2>3. RightSize(f, 0)
      BY <2>2, Zenon
    <2> QED
      BY <2>3
  <1>2. ASSUME NEW m \in Done PROVE m + 1 \in Done
    <2>1. PICK f : RightSize(f, m)
      OBVIOUS
    <2>2. f = [n \in 0..m |-> IF n = 0 THEN first ELSE row(f[n - 1])]
      BY <2>1
    <2> HIDE DEF first, row
    <2>3. m \in Nat
      OBVIOUS
    <2> DEFINE g == [n \in 0..(m + 1) |-> IF n <= m THEN f[n] ELSE row(f[m])]
    <2>4. \A n \in 0..m : g[n] = f[n]
      BY <2>3
    <2>5. ASSUME NEW n \in 0..(m + 1)
          PROVE  g[n] = IF n = 0 THEN first ELSE row(g[n - 1])
      <3>1. CASE n = 0
        <4>1. 0 \in 0..m
          BY <2>3
        <4>2. f[0] = first
          BY <2>2, <4>1
        <4> QED
          BY <2>4, <3>1, <4>1, <4>2
      <3>2. CASE n # 0 /\ n <= m
        <4>1. n \in 0..m /\ n - 1 \in 0..m
          BY <2>3, <3>2
        <4>2. f[n] = row(f[n - 1])
          BY <2>2, <3>2, <4>1
        <4>3. g[n] = f[n] /\ g[n - 1] = f[n - 1]
          BY <2>4, <4>1
        <4> HIDE DEF g
        <4> QED
          BY <3>2, <4>2, <4>3, Zenon
      <3>3. CASE n = m + 1
        <4>1. n - 1 = m /\ m \in 0..m /\ n # 0 /\ ~(n <= m)
          BY <2>3, <3>3
        <4>2. g[n] = row(f[m])
          BY <4>1
        <4>3. g[n - 1] = f[m]
          BY <2>4, <4>1
        <4> HIDE DEF g
        <4> QED
          BY <4>1, <4>2, <4>3, Zenon
      <3> QED
        BY <2>3, <3>1, <3>2, <3>3
    <2>6. g = [n \in 0..(m + 1) |-> g[n]]
      OBVIOUS
    <2> HIDE DEF g
    <2>7. g = [n \in 0..(m + 1) |-> IF n = 0 THEN first ELSE row(g[n - 1])]
      BY <2>5, <2>6
    <2>8. RightSize(g, m + 1) /\ m + 1 \in Nat
      BY <2>3, <2>7
    <2> QED
      BY <2>8
  <1>3. Done = Nat
    <2>1. Done \in SUBSET Nat
      OBVIOUS
    <2> HIDE DEF Done
    <2> QED
      BY <1>1, <1>2, <2>1, AllNumbers
  <1>4. PICK f : RightSize(f, count)
    BY <1>3
  <1>5. f = [n \in 0..count |-> IF n = 0 THEN first ELSE row(f[n - 1])]
    BY <1>4
  <1>6. ASSUME NEW n \in 0..count
        PROVE  (IF n = 0 THEN first ELSE row(f[n - 1])) = [p \in 1..final |->
                IF n = 0 \/ next[p] = 0 THEN rests[p] ELSE pieces[p] \o f[n - 1][next[p]]]
    <2>1. CASE n = 0
      BY <2>1, Zenon
    <2>2. CASE n # 0
      BY <2>2, Zenon
    <2> QED
      BY <2>1, <2>2
  <1> HIDE DEF first, row
  <1>7. f = [n \in 0..count |-> [p \in 1..final |->
                IF n = 0 \/ next[p] = 0 THEN rests[p] ELSE pieces[p] \o f[n - 1][next[p]]]]
    BY <1>5, <1>6, Zenon
  <1> QED
    BY <1>7, Zenon DEF PutsTogether

\* A product with one more.
LEMMA OneTimesMore == \A n \in Nat, d \in Int : (n + 1) * d = n * d + d /\ n * d \in Int
  OBVIOUS

\* What is left from each place on, and pieces that each bring d more than they skip.
PiecesFit(S, pieces, rests, next, final, d) ==
    \A p \in 1..final :
        /\ rests[p] \in Seq(S) /\ Len(rests[p]) = final - p
        /\ next[p] # 0 => pieces[p] \in Seq(S) /\ Len(pieces[p]) = next[p] - p + d

\* As long as there are pieces, what is put together of them has d more for each.
LengthsAreRight(S, f, h, final, count, d) ==
    \A n \in 0..count, p \in 1..final :
        /\ f[n][p] \in Seq(S)
        /\ n <= h[p] => Len(f[n][p]) = final - p + n * d

\* So many pieces are as long as their rest and what each piece brings.
LEMMA TogetherLength ==
    ASSUME NEW S, NEW final \in Nat, NEW next, GoesOn(next, final),
           NEW pieces, NEW rests, NEW count \in Nat, NEW f, NEW h, NEW d \in Int,
           PutsTogether(f, pieces, rests, next, final, count), CountsOn(h, next, final),
           PiecesFit(S, pieces, rests, next, final, d)
    PROVE  LengthsAreRight(S, f, h, final, count, d)
  <1>0. \A p \in 1..final :
            /\ rests[p] \in Seq(S) /\ Len(rests[p]) = final - p
            /\ next[p] # 0 => pieces[p] \in Seq(S) /\ Len(pieces[p]) = next[p] - p + d
    BY Zenon DEF PiecesFit
  <1>1. h \in [1..final -> Nat]
    BY CountIsNumber
  <1> USE DEF GoesOn
  <1>2. \A p \in 1..final : h[p] = IF next[p] = 0 THEN 0 ELSE 1 + h[next[p]]
    <2>1. h = [p \in 1..final |-> IF next[p] = 0 THEN 0 ELSE 1 + h[next[p]]]
      BY Zenon DEF CountsOn
    <2> QED
      BY <2>1
  <1>3. f = [n \in 0..count |-> [p \in 1..final |->
            IF n = 0 \/ next[p] = 0 THEN rests[p] ELSE pieces[p] \o f[n - 1][next[p]]]]
    BY Zenon DEF PutsTogether
  <1>4. \A n \in 0..count, p \in 1..final :
            f[n][p] = IF n = 0 \/ next[p] = 0 THEN rests[p] ELSE pieces[p] \o f[n - 1][next[p]]
    <2> TAKE n \in 0..count
    <2> DEFINE row == [p \in 1..final |->
            IF n = 0 \/ next[p] = 0 THEN rests[p] ELSE pieces[p] \o f[n - 1][next[p]]]
    <2>1. f[n] = row
      BY <1>3
    <2>2. \A p \in 1..final : row[p] =
            IF n = 0 \/ next[p] = 0 THEN rests[p] ELSE pieces[p] \o f[n - 1][next[p]]
      OBVIOUS
    <2> HIDE DEF row
    <2> QED
      BY <2>1, <2>2
  <1> DEFINE IsRight(n) == \A p \in 1..final :
                /\ f[n][p] \in Seq(S)
                /\ n <= h[p] => Len(f[n][p]) = final - p + n * d
             Done == {n \in Nat : n <= count => IsRight(n)}
  <1>5. 0 \in Done
    <2>1. 0 \in 0..count
      OBVIOUS
    <2>2. \A p \in 1..final : f[0][p] = rests[p]
      BY <1>4, <2>1
    <2>3. 0 * d = 0
      OBVIOUS
    <2>4. \A p \in 1..final : final - p + 0 * d = final - p
      BY <2>3
    <2>5. \A p \in 1..final : f[0][p] \in Seq(S) /\ Len(f[0][p]) = final - p + 0 * d
      BY <1>0, <2>2, <2>4, Zenon
    <2> QED
      BY <2>5, Zenon
  <1>6. ASSUME NEW n \in Done PROVE n + 1 \in Done
    <2> SUFFICES ASSUME n + 1 <= count, NEW p \in 1..final
                 PROVE  /\ f[n + 1][p] \in Seq(S)
                        /\ n + 1 <= h[p] => Len(f[n + 1][p]) = final - p + (n + 1) * d
      OBVIOUS
    <2>1. /\ n \in Nat /\ n + 1 \in 0..count /\ (n + 1) - 1 = n /\ n + 1 # 0 /\ n <= count
          /\ p \in Nat
      OBVIOUS
    <2>2. IsRight(n)
      BY <2>1
    <2>3. CASE next[p] = 0
      <3>1. f[n + 1][p] = rests[p] /\ h[p] = 0
        BY <1>2, <1>4, <2>1, <2>3
      <3>2. ~(n + 1 <= h[p])
        BY <2>1, <3>1
      <3> QED
        BY <1>0, <3>1, <3>2
    <2>4. CASE next[p] # 0
      <3> DEFINE q == next[p]
                 piece == pieces[p]
                 more == f[n][q]
      <3>1. q \in 1..final /\ q \in Nat
        BY <2>4
      <3>2. f[n + 1][p] = piece \o more /\ h[p] = 1 + h[q]
        BY <1>2, <1>4, <2>1, <2>4
      <3>3. /\ piece \in Seq(S) /\ Len(piece) = q - p + d
            /\ more \in Seq(S)
            /\ n <= h[q] => Len(more) = final - q + n * d
        BY <1>0, <2>2, <2>4, <3>1
      <3>4. h[q] \in Nat
        BY <1>1, <3>1
      <3> HIDE DEF q, piece, more
      <3>5. piece \o more \in Seq(S) /\ Len(piece \o more) = Len(piece) + Len(more)
        BY <3>3, ConcatProperties
      <3>6. (n + 1) * d = n * d + d /\ n * d \in Int
        BY <2>1, OneTimesMore
      <3>7. ASSUME n + 1 <= h[p] PROVE Len(piece \o more) = final - p + (n + 1) * d
        <4>1. n <= h[q]
          BY <2>1, <3>2, <3>4, <3>7
        <4> DEFINE x == n * d
                   y == (n + 1) * d
                   i == Len(piece \o more)
        <4>2. i = (q - p + d) + (final - q + x) /\ y = x + d /\ x \in Int
          BY <3>3, <3>5, <3>6, <4>1
        <4> HIDE DEF x, y, i
        <4>3. i = final - p + y
          BY <2>1, <3>1, <4>2
        <4> QED
          BY <4>3 DEF i, y
      <3> QED
        BY <3>2, <3>5, <3>7
    <2> QED
      BY <2>3, <2>4
  <1>7. Done = Nat
    <2>1. Done \in SUBSET Nat
      OBVIOUS
    <2> HIDE DEF Done
    <2> QED
      BY <1>5, <1>6, <2>1, AllNumbers
  <1>8. ASSUME NEW n \in 0..count PROVE IsRight(n)
    <2>1. n \in Nat /\ n <= count
      OBVIOUS
    <2>2. n \in Done
      BY <1>7, <2>1, Zenon
    <2> QED
      BY <2>1, <2>2
  <1> QED
    BY <1>8, Zenon DEF LengthsAreRight

\* The place behind the next occurrence of t from each place of s on, or 0.
NextPlace(s, t) ==
    [p \in 1..(Len(s) + 1) |->
        IF strstr(From(s, p), t) = 0 THEN 0 ELSE p + strstr(From(s, p), t) - 1 + Len(t)]

\* It is further on, and at the end of the text at most.
LEMMA NextIsBehind ==
    ASSUME NEW S, NEW s \in Seq(S), NEW t \in Seq(S), t # <<>>, NEW p \in 1..(Len(s) + 1)
    PROVE  /\ NextPlace(s, t)[p] \in 0..(Len(s) + 1)
           /\ NextPlace(s, t)[p] = 0 \/ NextPlace(s, t)[p] > p
           /\ NextPlace(s, t)[p] # 0 =>
                /\ strstr(From(s, p), t) \in Nat /\ strstr(From(s, p), t) >= 1
                /\ NextPlace(s, t)[p] = p + strstr(From(s, p), t) - 1 + Len(t)
  <1> DEFINE at == strstr(From(s, p), t)
             k == Len(s)
             j == Len(t)
             l == Len(From(s, p))
  <1>1. NextPlace(s, t)[p] = IF at = 0 THEN 0 ELSE p + at - 1 + j
    BY Zenon DEF NextPlace
  <1>2. From(s, p) \in Seq(S) /\ l = k - p + 1
    BY BehindPlace
  <1>3. at = 0 \/ at \in 1..(l - j + 1)
    BY <1>2, OccurrenceWithin
  <1>4. k \in Nat /\ j \in Nat /\ j >= 1 /\ p \in Nat /\ p >= 1 /\ p <= k + 1 /\ l \in Int
    <2>1. Len(t) # 0
      BY EmptySeq
    <2> QED
      BY <1>2, <2>1
  <1> HIDE DEF at, k, j, l
  <1>5. CASE at = 0
    BY <1>1, <1>4, <1>5 DEF k, at
  <1>6. CASE at # 0
    <2>1. at \in Nat /\ at >= 1 /\ at <= l - j + 1
      BY <1>3, <1>4, <1>6
    <2>2. NextPlace(s, t)[p] = p + at - 1 + j
      BY <1>1, <1>6
    <2>3. p + at - 1 + j \in 0..(k + 1) /\ p + at - 1 + j > p
      BY <1>2, <1>4, <2>1
    <2> QED
      BY <2>1, <2>2, <2>3 DEF k, j, at
  <1> QED
    BY <1>5, <1>6

\* What is counted is how often one can go on.
LEMMA CountGoesOn ==
    ASSUME NEW S, NEW s \in Seq(S), NEW t \in Seq(S), t # <<>>
    PROVE  \E f \in [1..(Len(s) + 1) -> Nat] :
                CountsOn(f, NextPlace(s, t), Len(s) + 1) /\ Count(s, t) = f[1]
  <1> DEFINE next == NextPlace(s, t)
             final == Len(s) + 1
             Counted(f) == f = [p \in 1..final |->
                LET at == strstr(From(s, p), t) IN IF at = 0 THEN 0 ELSE 1 + f[p + at - 1 + Len(t)]]
  <1>1. final \in Nat
    OBVIOUS
  <1>2. \A p \in 1..final : next[p] \in 0..final /\ (next[p] = 0 \/ next[p] > p)
    BY NextIsBehind, Zenon
  <1>3. next \in [1..final -> 0..final]
    <2>1. next = [p \in 1..final |-> next[p]]
      BY DEF NextPlace
    <2> HIDE DEF next, final
    <2> QED
      BY <1>2, <2>1
  <1>4. ASSUME NEW f, NEW p \in 1..final
        PROVE  (LET at == strstr(From(s, p), t) IN
                    IF at = 0 THEN 0 ELSE 1 + f[p + at - 1 + Len(t)])
               = (IF next[p] = 0 THEN 0 ELSE 1 + f[next[p]])
    <2> DEFINE at == strstr(From(s, p), t)
               there == p + at - 1 + Len(t)
    <2>1. next[p] = IF at = 0 THEN 0 ELSE there
      BY Zenon DEF NextPlace
    <2>2. at # 0 => next[p] # 0
      <3>1. at # 0 => at \in 1..(Len(From(s, p)) - Len(t) + 1)
        BY BehindPlace, OccurrenceWithin
      <3>2. at # 0 => at \in Nat /\ at >= 1
        BY <3>1
      <3>3. p \in Nat /\ p >= 1 /\ Len(t) \in Nat
        OBVIOUS
      <3> HIDE DEF at
      <3> QED
        BY <2>1, <3>2, <3>3
    <2> HIDE DEF next, there
    <2>3. CASE at = 0
      <3>1. next[p] = 0
        BY <2>1, <2>3
      <3> QED
        BY <2>3, <3>1, Zenon DEF there
    <2>4. CASE at # 0
      <3>1. next[p] = there /\ next[p] # 0
        BY <2>1, <2>2, <2>4
      <3> QED
        BY <2>4, <3>1, Zenon DEF there
    <2> QED
      BY <2>3, <2>4
  <1> HIDE DEF next, final
  <1>5. \A f : Counted(f) <=> CountsOn(f, next, final)
    BY <1>4, Zenon DEF CountsOn
  <1>6. \E f : CountsOn(f, next, final)
    BY <1>1, <1>2, <1>3, CountExists DEF GoesOn
  <1> DEFINE from == CHOOSE f : Counted(f)
  <1>7. Count(s, t) = from[1]
    BY Zenon DEF Count, final
  <1> HIDE DEF Counted
  <1>8. CountsOn(from, next, final)
    BY <1>5, <1>6, Zenon
  <1> HIDE DEF from
  <1>9. from \in [1..final -> Nat]
    BY <1>1, <1>2, <1>3, <1>8, CountIsNumber DEF GoesOn
  <1> QED
    BY <1>7, <1>8, <1>9, Zenon DEF next, final

\* The memory str_replace asks for is what the new text needs with its closing zero,
\* neither more nor less, for any texts: counting and copying find the same
\* occurrences, however they overlap or touch (util.c:44-62).
THEOREM ReplaceFits ==
    ASSUME NEW S, NEW orig \in Seq(S), NEW rep \in Seq(S), NEW with \in Seq(S),
           rep # <<>>, strstr(orig, rep) # 0
    PROVE  LET result == str_replace(orig, rep, with)
           IN  result.text \in Seq(S) /\ result.size = Len(result.text) + 1
  <1> DEFINE next == NextPlace(orig, rep)
             final == Len(orig) + 1
             count == Count(orig, rep)
             d == Len(with) - Len(rep)
             pieces == [p \in 1..final |->
                    SubSeq(orig, p, p + strstr(From(orig, p), rep) - 2) \o with]
             rests == [p \in 1..final |-> From(orig, p)]
             Made(f) == f = [n \in 0..count |-> [p \in 1..final |->
                    LET at == strstr(From(orig, p), rep)
                    IN  IF n = 0 \/ at = 0 THEN From(orig, p)
                        ELSE (SubSeq(orig, p, p + at - 2) \o with)
                                \o f[n - 1][p + at - 1 + Len(rep)]]]
             from == CHOOSE f : Made(f)
  <1>1. /\ final \in Nat /\ d \in Int /\ 1 \in 1..final /\ Len(orig) = final - 1
        /\ Len(with) \in Nat /\ Len(rep) \in Nat /\ Len(orig) \in Nat
    OBVIOUS
  <1>2. PICK h \in [1..final -> Nat] : CountsOn(h, next, final) /\ count = h[1]
    BY CountGoesOn
  <1>3. count \in Nat
    BY <1>1, <1>2
  <1>4. \A p \in 1..final :
            /\ next[p] \in 0..final
            /\ next[p] = 0 \/ next[p] > p
            /\ next[p] # 0 =>
                /\ strstr(From(orig, p), rep) \in Nat /\ strstr(From(orig, p), rep) >= 1
                /\ next[p] = p + strstr(From(orig, p), rep) - 1 + Len(rep)
    BY NextIsBehind, Zenon
  <1>5. next \in [1..final -> 0..final]
    <2>1. next = [p \in 1..final |-> next[p]]
      BY DEF NextPlace
    <2> HIDE DEF next, final
    <2> QED
      BY <1>4, <2>1
  <1>6. \A p \in 1..final : rests[p] \in Seq(S) /\ Len(rests[p]) = final - p
    <2> TAKE p \in 1..final
    <2>1. From(orig, p) \in Seq(S) /\ Len(From(orig, p)) = Len(orig) - p + 1
      BY BehindPlace
    <2>2. rests[p] = From(orig, p) /\ p \in Nat
      OBVIOUS
    <2> HIDE DEF rests, final
    <2> QED
      BY <1>1, <2>1, <2>2
  <1>7. \A p \in 1..final : next[p] # 0 =>
            pieces[p] \in Seq(S) /\ Len(pieces[p]) = next[p] - p + d
    <2> SUFFICES ASSUME NEW p \in 1..final, next[p] # 0
                 PROVE  pieces[p] \in Seq(S) /\ Len(pieces[p]) = next[p] - p + d
      OBVIOUS
    <2> DEFINE at == strstr(From(orig, p), rep)
               front == SubSeq(orig, p, p + at - 2)
    <2>1. pieces[p] = front \o with /\ p \in Nat /\ p >= 1
      <3>1. pieces[p] = front \o with
        BY Zenon
      <3>2. p \in Nat /\ p >= 1
        OBVIOUS
      <3> QED
        BY <3>1, <3>2, Zenon
    <2>2. at \in Nat /\ at >= 1 /\ next[p] = p + at - 1 + Len(rep) /\ next[p] <= final
      BY <1>4
    <2>3. p \in 1..(Len(orig) + 1) /\ p + at - 2 \in (p - 1)..Len(orig)
      <3> HIDE DEF next, at, pieces
      <3>1. Len(rep) >= 1
        <4>1. Len(rep) # 0
          BY EmptySeq
        <4> QED
          BY <1>1, <4>1
      <3> HIDE DEF final
      <3> QED
        BY <1>1, <2>1, <2>2, <3>1
    <2>4. /\ front \in Seq(S)
          /\ Len(front) = IF p <= p + at - 2 THEN (p + at - 2) - p + 1 ELSE 0
      BY <2>3, SubSeqProperties
    <2> HIDE DEF at, front, next, pieces, final
    <2>5. Len(front) = at - 1
      BY <2>1, <2>2, <2>4
    <2>6. front \o with \in Seq(S) /\ Len(front \o with) = Len(front) + Len(with)
      BY <2>4, ConcatProperties
    <2> QED
      BY <1>1, <2>1, <2>2, <2>5, <2>6
  <1>8. \A f : Made(f) <=> PutsTogether(f, pieces, rests, next, final, count)
    <2>1. ASSUME NEW f, NEW n \in 0..count, NEW p \in 1..final
          PROVE  (LET at == strstr(From(orig, p), rep)
                  IN  IF n = 0 \/ at = 0 THEN From(orig, p)
                      ELSE (SubSeq(orig, p, p + at - 2) \o with)
                                \o f[n - 1][p + at - 1 + Len(rep)])
                 = (IF n = 0 \/ next[p] = 0 THEN rests[p]
                    ELSE pieces[p] \o f[n - 1][next[p]])
      <3> DEFINE at == strstr(From(orig, p), rep)
                 there == p + at - 1 + Len(rep)
      <3>1. next[p] = IF at = 0 THEN 0 ELSE there
        BY Zenon DEF NextPlace
      <3>2. rests[p] = From(orig, p) /\ pieces[p] = SubSeq(orig, p, p + at - 2) \o with
        BY Zenon
      <3>3. at = 0 => next[p] = 0
        BY <3>1
      <3>4. at # 0 => next[p] # 0 /\ next[p] = there
        <4>1. at # 0 => at \in 1..(Len(From(orig, p)) - Len(rep) + 1)
          BY BehindPlace, OccurrenceWithin
        <4>2. at # 0 => at \in Nat /\ at >= 1
          BY <4>1
        <4>3. p \in Nat /\ p >= 1
          OBVIOUS
        <4> HIDE DEF at, next
        <4> QED
          BY <1>1, <3>1, <4>2, <4>3
      <3> HIDE DEF next, rests, pieces
      <3>5. CASE n = 0 \/ at = 0
        <4>1. n = 0 \/ next[p] = 0
          BY <3>3, <3>5
        <4> QED
          BY <3>2, <3>5, <4>1, Zenon
      <3>6. CASE ~(n = 0 \/ at = 0)
        <4>1. ~(n = 0 \/ next[p] = 0) /\ next[p] = there
          BY <3>4, <3>6
        <4> QED
          BY <3>2, <3>6, <4>1, Zenon DEF there
      <3> QED
        BY <3>5, <3>6
    <2> HIDE DEF next, rests, pieces, final, count
    <2> TAKE f
    <2> DEFINE a(n, p) == LET at == strstr(From(orig, p), rep)
                          IN  IF n = 0 \/ at = 0 THEN From(orig, p)
                              ELSE (SubSeq(orig, p, p + at - 2) \o with)
                                        \o f[n - 1][p + at - 1 + Len(rep)]
               b(n, p) == IF n = 0 \/ next[p] = 0 THEN rests[p]
                          ELSE pieces[p] \o f[n - 1][next[p]]
    <2>2. \A n \in 0..count, p \in 1..final : a(n, p) = b(n, p)
      BY <2>1, Zenon
    <2>3. Made(f) <=> f = [n \in 0..count |-> [p \in 1..final |-> a(n, p)]]
      BY Zenon
    <2>4. PutsTogether(f, pieces, rests, next, final, count)
            <=> f = [n \in 0..count |-> [p \in 1..final |-> b(n, p)]]
      BY Zenon DEF PutsTogether
    <2> HIDE DEF a, b, Made
    <2>5. [n \in 0..count |-> [p \in 1..final |-> a(n, p)]]
            = [n \in 0..count |-> [p \in 1..final |-> b(n, p)]]
      <3>1. \A n \in 0..count : [p \in 1..final |-> a(n, p)] = [p \in 1..final |-> b(n, p)]
        BY <2>2
      <3> QED
        BY <3>1
    <2> QED
      BY <2>3, <2>4, <2>5
  <1>9. Replaced(orig, rep, with, count) = from[count][1]
    BY Zenon DEF Replaced
  <1>10. \E f : PutsTogether(f, pieces, rests, next, final, count)
    <2> HIDE DEF next, rests, pieces, final, count
    <2> QED
      BY <1>1, <1>3, TogetherExists
  <1>11. PutsTogether(from, pieces, rests, next, final, count)
    <2> HIDE DEF next, rests, pieces, final, count, Made
    <2> QED
      BY <1>8, <1>10, Zenon
  <1>12. str_replace(orig, rep, with) =
            [text |-> from[count][1], size |-> Len(orig) + d * count + 1]
    BY <1>9, Zenon DEF str_replace
  <1> HIDE DEF next, rests, pieces, final, count, from, d
  <1>13. /\ from[count][1] \in Seq(S)
         /\ count <= h[1] => Len(from[count][1]) = final - 1 + count * d
    <2>1. count \in 0..count
      BY <1>3
    <2>2. GoesOn(next, final)
      BY <1>4, <1>5 DEF GoesOn
    <2>3. PiecesFit(S, pieces, rests, next, final, d)
      BY <1>6, <1>7, Zenon DEF PiecesFit
    <2>4. LengthsAreRight(S, from, h, final, count, d)
      BY <1>1, <1>2, <1>3, <1>11, <2>2, <2>3, TogetherLength
    <2> QED
      BY <1>1, <2>1, <2>4, Zenon DEF LengthsAreRight
  <1>14. Len(from[count][1]) = Len(orig) + d * count
    <2>1. count <= h[1] /\ d * count = count * d /\ count * d \in Int
      BY <1>1, <1>2, <1>3
    <2> DEFINE x == count * d
    <2>2. Len(from[count][1]) = final - 1 + x /\ d * count = x /\ x \in Int
      BY <1>13, <2>1
    <2> HIDE DEF x
    <2> QED
      BY <1>1, <2>2
  <1> DEFINE text == from[count][1]
             size == Len(orig) + d * count + 1
  <1>15. text \in Seq(S) /\ size = Len(text) + 1
    BY <1>13, <1>14
  <1> HIDE DEF text, size
  <1>16. str_replace(orig, rep, with) = [text |-> text, size |-> size]
    BY <1>12, Zenon DEF text, size
  <1> QED
    BY <1>15, <1>16

\* Q_strncpyz takes what fits, with its closing zero.
LEMMA CopyFits ==
    ASSUME NEW S, NEW src \in Seq(S), NEW n \in Nat, n >= 1
    PROVE  /\ Q_strncpyz(src, n) \in Seq(S)
           /\ Len(Q_strncpyz(src, n)) < n /\ Len(Q_strncpyz(src, n)) <= Len(src)
           /\ \A i \in 1..Len(Q_strncpyz(src, n)) : Q_strncpyz(src, n)[i] = src[i]
           /\ Len(src) < n => Q_strncpyz(src, n) = src
  <1> DEFINE l == Len(src)
             k == IF l <= n - 1 THEN l ELSE n - 1
             copy == SubSeq(src, 1, k)
  <1>1. l \in Nat /\ n - 1 \in Nat
    OBVIOUS
  <1>2. Min({l, n - 1}) = k
    <2> DEFINE both == {l, n - 1}
    <2> HIDE DEF l
    <2>1. k \in both /\ \A y \in both : k <= y
      BY <1>1
    <2>2. ASSUME NEW x \in both, \A y \in both : x <= y PROVE x = k
      <3>1. x <= k /\ k <= x /\ x \in Int /\ k \in Int
        BY <1>1, <2>1, <2>2
      <3> QED
        BY <3>1
    <2> HIDE DEF k, both
    <2>3. Min(both) = k
      BY <2>1, <2>2, Zenon DEF Min
    <2> QED
      BY <2>3, Zenon DEF both
  <1>3. Q_strncpyz(src, n) = copy
    BY <1>2, Zenon DEF Q_strncpyz
  <1>4. k \in Nat /\ k <= n - 1 /\ k <= l /\ k \in 0..l /\ (l < n => k = l)
    <2> HIDE DEF l
    <2> QED
      BY <1>1
  <1>5. copy \in Seq(S) /\ Len(copy) = k /\ \A i \in 1..k : copy[i] = src[i]
    <2> HIDE DEF k
    <2>1. 1 \in 1..(Len(src) + 1) /\ k \in (1 - 1)..Len(src)
      BY <1>1, <1>4
    <2>2. /\ copy \in Seq(S)
          /\ Len(copy) = IF 1 <= k THEN k - 1 + 1 ELSE 0
          /\ \A i \in 1..(k - 1 + 1) : copy[i] = src[1 + i - 1]
      BY <2>1, SubSeqProperties
    <2>3. /\ k = IF 1 <= k THEN k - 1 + 1 ELSE 0
          /\ k - 1 + 1 = k /\ \A i \in 1..k : 1 + i - 1 = i
      BY <1>4
    <2> QED
      BY <2>2, <2>3, Zenon
  <1>6. l < n => copy = src
    <2> SUFFICES ASSUME l < n PROVE copy = src
      OBVIOUS
    <2>1. k = Len(src)
      BY <1>4
    <2> HIDE DEF copy, k, l
    <2> QED
      BY <1>5, <2>1, SeqEqual
  <1> HIDE DEF copy, k
  <1> QED
    BY <1>1, <1>3, <1>4, <1>5, <1>6

\* What is added to a text never fills its buffer beyond the closing zero, starts with
\* the text and goes on with what is added, and is cut only if it must be, for
\* texts and buffers of any size (shared.c:610-618).
THEOREM AppendsFit ==
    ASSUME NEW S, NEW dest \in Seq(S), NEW src \in Seq(S), NEW size \in Nat, Len(dest) < size
    PROVE  LET result == Q_strcat(dest, size, src)
           IN  /\ result \in Seq(S)
               /\ Len(result) < size
               /\ \A i \in 1..Len(dest) : result[i] = dest[i]
               /\ \A i \in 1..Len(result) : result[i] = (dest \o src)[i]
               /\ Len(dest) + Len(src) < size => result = dest \o src
  <1> DEFINE result == Q_strcat(dest, size, src)
             k == Len(dest)
             copy == Q_strncpyz(src, size - k)
             l == Len(copy)
  <1>1. result = dest \o copy
    <2>1. ~(Len(dest) >= size)
      OBVIOUS
    <2> QED
      BY <2>1, Zenon DEF Q_strcat
  <1>2. k \in Nat /\ size - k \in Nat /\ size - k >= 1 /\ Len(src) \in Nat
    OBVIOUS
  <1>3. /\ copy \in Seq(S) /\ l < size - k /\ l <= Len(src) /\ l \in Nat
        /\ \A i \in 1..l : copy[i] = src[i]
        /\ Len(src) < size - k => copy = src
    <2> HIDE DEF k
    <2>1. /\ copy \in Seq(S) /\ l < size - k /\ l <= Len(src)
          /\ \A i \in 1..l : copy[i] = src[i]
          /\ Len(src) < size - k => copy = src
      BY <1>2, CopyFits, Zenon
    <2>2. l \in Nat
      BY <2>1
    <2> QED
      BY <2>1, <2>2
  <1> HIDE DEF copy, result
  <1>4. /\ dest \o copy \in Seq(S) /\ Len(dest \o copy) = k + l
        /\ \A i \in 1..(k + l) : (dest \o copy)[i] = IF i <= k THEN dest[i] ELSE copy[i - k]
    BY <1>3, ConcatProperties
  <1>5. \A i \in 1..(k + Len(src)) :
            (dest \o src)[i] = IF i <= k THEN dest[i] ELSE src[i - k]
    BY ConcatProperties
  <1> HIDE DEF k, l
  <1>6. Len(result) < size
    BY <1>1, <1>2, <1>3, <1>4
  <1>7. \A i \in 1..k : result[i] = dest[i]
    BY <1>1, <1>2, <1>3, <1>4
  <1>8. ASSUME NEW i \in 1..(k + l) PROVE result[i] = (dest \o src)[i]
    <2>1. i \in 1..(k + Len(src)) /\ (i <= k \/ i - k \in 1..l)
      BY <1>2, <1>3
    <2>2. CASE i <= k
      BY <1>1, <1>4, <1>5, <2>1, <2>2
    <2>3. CASE ~(i <= k)
      <3>1. copy[i - k] = src[i - k]
        BY <1>3, <2>1, <2>3
      <3> QED
        BY <1>1, <1>4, <1>5, <2>1, <2>3, <3>1
    <2> QED
      BY <2>2, <2>3
  <1>9. k + Len(src) < size => result = dest \o src
    <2>1. k + Len(src) < size => Len(src) < size - k
      BY <1>2
    <2> QED
      BY <1>1, <1>3, <2>1
  <1>10. Len(result) = k + l /\ result \in Seq(S)
    BY <1>1, <1>4
  <1>11. \A i \in 1..Len(result) : result[i] = (dest \o src)[i]
    BY <1>8, <1>10
  <1> QED
    BY <1>6, <1>7, <1>9, <1>10, <1>11 DEF k, result

\* The word and the bit COM_BitSet, COM_BitCheck and COM_BitClear find by taking 32
\* away as often as they can are the quotient and the rest, for every number
\* (shared.c:93-141).
THEOREM BitIsFound ==
    ASSUME NEW bitNum \in Nat
    PROVE  BitPlace(bitNum) = [word |-> bitNum \div 32, bit |-> bitNum % 32]
  <1> DEFINE right(b) == [word |-> b \div 32, bit |-> b % 32]
             PlaceOf(f) == f = [b \in 0..bitNum |->
                IF b > 31 THEN [f[b - 32] EXCEPT !.word = @ + 1] ELSE [word |-> 0, bit |-> b]]
             place == CHOOSE f : PlaceOf(f)
             straight == [b \in 0..bitNum |-> right(b)]
  <1>1. BitPlace(bitNum) = place[bitNum]
    BY Zenon DEF BitPlace
  <1>2. \A b \in Nat : /\ b > 31 => /\ b - 32 \in Nat
                                    /\ (b - 32) \div 32 + 1 = b \div 32
                                    /\ (b - 32) % 32 = b % 32
                       /\ ~(b > 31) => b \div 32 = 0 /\ b % 32 = b
    OBVIOUS
  <1>3. ASSUME NEW b \in 0..bitNum, NEW f, b > 31 => f[b - 32] = right(b - 32)
        PROVE  (IF b > 31 THEN [f[b - 32] EXCEPT !.word = @ + 1] ELSE [word |-> 0, bit |-> b])
               = right(b)
    <2>1. b \in Nat
      OBVIOUS
    <2>2. CASE b > 31
      <3>1. /\ (b - 32) \div 32 + 1 = b \div 32 /\ (b - 32) % 32 = b % 32
        BY <1>2, <2>1, <2>2
      <3>2. f[b - 32] = [word |-> (b - 32) \div 32, bit |-> (b - 32) % 32]
        BY <1>3, <2>2
      <3> DEFINE x == (b - 32) \div 32
                 y == (b - 32) % 32
      <3>3. [[word |-> x, bit |-> y] EXCEPT !.word = @ + 1] = [word |-> x + 1, bit |-> y]
        <4> HIDE DEF x, y
        <4> QED
          OBVIOUS
      <3> QED
        BY <2>2, <3>1, <3>2, <3>3
    <2>3. CASE ~(b > 31)
      BY <1>2, <2>1, <2>3
    <2> QED
      BY <2>2, <2>3
  <1>4. PlaceOf(straight)
    <2>1. ASSUME NEW b \in 0..bitNum
          PROVE  right(b) = IF b > 31 THEN [straight[b - 32] EXCEPT !.word = @ + 1]
                            ELSE [word |-> 0, bit |-> b]
      <3>1. b > 31 => b - 32 \in 0..bitNum
        OBVIOUS
      <3> HIDE DEF right
      <3>2. b > 31 => straight[b - 32] = right(b - 32)
        BY <3>1
      <3> HIDE DEF straight
      <3> QED
        BY <1>3, <3>2, Zenon
    <2> HIDE DEF right
    <2>2. straight = [b \in 0..bitNum |-> right(b)]
      BY Zenon
    <2> HIDE DEF straight
    <2> QED
      BY <2>1, <2>2, Zenon
  <1>5. PlaceOf(place)
    <2> HIDE DEF PlaceOf, straight
    <2> QED
      BY <1>4, Zenon
  <1> HIDE DEF place
  <1>6. \A b \in 0..bitNum : place[b] = IF b > 31 THEN [place[b - 32] EXCEPT !.word = @ + 1]
                                        ELSE [word |-> 0, bit |-> b]
    BY <1>5
  <1> DEFINE Done == {m \in Nat : \A b \in 0..bitNum : b <= m => place[b] = right(b)}
  <1>7. ASSUME NEW b \in 0..bitNum, b > 31 => place[b - 32] = right(b - 32)
        PROVE  place[b] = right(b)
    <2> HIDE DEF right
    <2> QED
      BY <1>3, <1>6, <1>7, Zenon
  <1> HIDE DEF right
  <1>8. 0 \in Done
    <2>1. ASSUME NEW b \in 0..bitNum, b <= 0 PROVE place[b] = right(b)
      <3>1. ~(b > 31)
        BY <2>1
      <3> QED
        BY <1>7, <3>1
    <2> QED
      BY <2>1
  <1>9. ASSUME NEW m \in Done PROVE m + 1 \in Done
    <2>1. m \in Nat /\ m + 1 \in Nat /\ \A b \in 0..bitNum : b <= m => place[b] = right(b)
      OBVIOUS
    <2>2. ASSUME NEW b \in 0..bitNum, b <= m + 1 PROVE place[b] = right(b)
      <3>1. b > 31 => b - 32 \in 0..bitNum /\ b - 32 <= m
        BY <2>1, <2>2
      <3>2. b > 31 => place[b - 32] = right(b - 32)
        BY <2>1, <3>1
      <3> QED
        BY <1>7, <3>2
    <2> QED
      BY <2>1, <2>2
  <1>10. bitNum \in Done
    <2>1. Done \in SUBSET Nat
      OBVIOUS
    <2> HIDE DEF Done
    <2>2. Done = Nat
      BY <1>8, <1>9, <2>1, AllNumbers
    <2> QED
      BY <2>2
  <1>11. bitNum \in 0..bitNum /\ bitNum <= bitNum
    OBVIOUS
  <1>12. place[bitNum] = right(bitNum)
    BY <1>10, <1>11
  <1> QED
    BY <1>1, <1>12, Zenon DEF right

\* A bit is no other bit: what is set or cleared of an array, any number of words
\* long, is found again at its number and at no other (shared.c:93-141).
THEOREM BitsAreTheirOwn ==
    ASSUME NEW n \in Nat, NEW k \in Nat, NEW array \in [0..k -> SUBSET (0..31)],
           NEW m \in Nat, n \div 32 <= k, m \div 32 <= k
    PROVE  /\ COM_BitCheck(COM_BitSet(array, n), m) <=> m = n \/ COM_BitCheck(array, m)
           /\ COM_BitCheck(COM_BitClear(array, n), m) <=> m # n /\ COM_BitCheck(array, m)
  <1> DEFINE w(b) == b \div 32
             c(b) == b % 32
  <1>1. /\ w(n) \in 0..k /\ w(m) \in 0..k /\ c(n) \in 0..31 /\ c(m) \in 0..31
        /\ n = 32 * w(n) + c(n) /\ m = 32 * w(m) + c(m)
    OBVIOUS
  <1>2. /\ BitPlace(n).word = w(n) /\ BitPlace(n).bit = c(n)
        /\ BitPlace(m).word = w(m) /\ BitPlace(m).bit = c(m)
    <2>1. /\ BitPlace(n) = [word |-> n \div 32, bit |-> n % 32]
          /\ BitPlace(m) = [word |-> m \div 32, bit |-> m % 32]
      BY BitIsFound, Zenon
    <2> QED
      BY <2>1
  <1>3. /\ COM_BitCheck(array, m) <=> c(m) \in array[w(m)]
        /\ COM_BitSet(array, n) = [array EXCEPT ![w(n)] = @ \cup {c(n)}]
        /\ COM_BitClear(array, n) = [array EXCEPT ![w(n)] = @ \ {c(n)}]
        /\ COM_BitCheck(COM_BitSet(array, n), m) <=> c(m) \in COM_BitSet(array, n)[w(m)]
        /\ COM_BitCheck(COM_BitClear(array, n), m) <=> c(m) \in COM_BitClear(array, n)[w(m)]
    BY <1>2, Zenon DEF COM_BitCheck, COM_BitSet, COM_BitClear
  <1>4. m = n <=> w(m) = w(n) /\ c(m) = c(n)
    <2> HIDE DEF w, c
    <2> QED
      BY <1>1
  <1> HIDE DEF w, c
  <1>5. CASE w(m) = w(n)
    BY <1>1, <1>3, <1>4, <1>5
  <1>6. CASE w(m) # w(n)
    BY <1>1, <1>3, <1>4, <1>6
  <1> QED
    BY <1>5, <1>6

\* A third behind two.
LEMMA OneMore ==
    ASSUME NEW d, NEW e, NEW f
    PROVE  Append(<<d, e>>, f) = <<d, e, f>>
  <1> DEFINE S == {d, e, f}
  <1>1. <<d, e>> \in Seq(S) /\ f \in S /\ Len(<<d, e>>) = 2 /\ <<d, e, f>> \in Seq(S)
    OBVIOUS
  <1>2. /\ Append(<<d, e>>, f) \in Seq(S) /\ Len(Append(<<d, e>>, f)) = 3
        /\ Append(<<d, e>>, f)[1] = d /\ Append(<<d, e>>, f)[2] = e /\ Append(<<d, e>>, f)[3] = f
    BY <1>1, AppendProperties
  <1>3. /\ Len(<<d, e, f>>) = 3 /\ <<d, e, f>>[1] = d /\ <<d, e, f>>[2] = e
        /\ <<d, e, f>>[3] = f /\ <<d, e>>[1] = d /\ <<d, e>>[2] = e
    OBVIOUS
  <1>4. \A i \in 1..3 : Append(<<d, e>>, f)[i] = <<d, e, f>>[i]
    <2>1. 1..3 = {1, 2, 3}
      OBVIOUS
    <2> QED
      BY <1>2, <1>3, <2>1, Zenon
  <1> HIDE DEF S
  <1> QED
    BY <1>1, <1>2, <1>3, <1>4, SeqEqual, Zenon

\* The text of an address says which it is: two have the same text if and only if
\* the server takes them for the same, but for bots, which all have one text and
\* are never the same (net_chan.c:63-125).
THEOREM AddressesAreTheirTexts ==
    ASSUME NEW Byte,
           NEW a \in [type : {"NA_BOT", "NA_LOOPBACK", "NA_IP", "NA_IPX"},
                      ip : Seq(Byte), port : [1..2 -> Byte]],
           NEW b \in [type : {"NA_BOT", "NA_LOOPBACK", "NA_IP", "NA_IPX"},
                      ip : Seq(Byte), port : [1..2 -> Byte]]
    PROVE  NET_AdrToString(a) = NET_AdrToString(b) <=>
               NET_CompareAdr(a, b) \/ (a.type = "NA_BOT" /\ b.type = "NA_BOT")
  <1> DEFINE plain(x) == x.type \in {"NA_LOOPBACK", "NA_BOT"}
             kind(x) == IF x.type = "NA_IP" THEN "decimal" ELSE "hexadecimal"
             long(x) == <<kind(x), x.ip, BigShort(x.port)>>
  <1>1. ASSUME NEW x \in {a, b}
        PROVE  NET_AdrToString(x) = IF plain(x) THEN <<x.type>> ELSE long(x)
    <2>1. CASE plain(x)
      BY <2>1 DEF NET_AdrToString
    <2>2. CASE ~plain(x)
      <3>1. NET_AdrToString(x) = Append(<<kind(x), x.ip>>, BigShort(x.port))
        BY <2>2, Zenon DEF NET_AdrToString, NET_BaseAdrToString
      <3>2. Append(<<kind(x), x.ip>>, BigShort(x.port)) = long(x)
        BY OneMore, Zenon
      <3> QED
        BY <2>2, <3>1, <3>2, Zenon
    <2> QED
      BY <2>1, <2>2
  <1>2. BigShort(a.port) = BigShort(b.port) <=> a.port = b.port
    <2>1. /\ a.port = b.port <=> a.port[1] = b.port[1] /\ a.port[2] = b.port[2]
          /\ <<a.port[2], a.port[1]>> = <<b.port[2], b.port[1]>>
                 <=> a.port[1] = b.port[1] /\ a.port[2] = b.port[2]
      OBVIOUS
    <2> QED
      BY <2>1 DEF BigShort
  <1>3. long(a) = long(b) <=> kind(a) = kind(b) /\ a.ip = b.ip /\ a.port = b.port
    BY <1>2
  <1>4. <<a.type>> = <<b.type>> <=> a.type = b.type
    OBVIOUS
  <1>5. <<a.type>> # long(b) /\ long(a) # <<b.type>>
    <2>1. Len(<<a.type>>) = 1 /\ Len(<<b.type>>) = 1 /\ Len(long(a)) = 3 /\ Len(long(b)) = 3
      OBVIOUS
    <2> QED
      BY <2>1
  <1>6. ~plain(a) /\ ~plain(b) => (kind(a) = kind(b) <=> a.type = b.type)
    OBVIOUS
  <1>7. NET_AdrToString(a) = NET_AdrToString(b) <=>
            /\ a.type = b.type
            /\ plain(a) \/ (a.ip = b.ip /\ a.port = b.port)
    <2>1. NET_AdrToString(a) = IF plain(a) THEN <<a.type>> ELSE long(a)
      BY <1>1
    <2>2. NET_AdrToString(b) = IF plain(b) THEN <<b.type>> ELSE long(b)
      BY <1>1
    <2>3. a.type = b.type => (plain(a) <=> plain(b))
      OBVIOUS
    <2> HIDE DEF plain, kind, long
    <2> QED
      BY <1>3, <1>4, <1>5, <1>6, <2>1, <2>2, <2>3, Zenon
  <1> QED
    BY <1>7 DEF NET_CompareAdr

\* What the line is while arguments are put behind it.
IsLine(f, args, start, limit) ==
    f = [k \in 0..(Len(args) - start) |->
            LET before == f[k - 1]
                arg == args[start + k]
                blank == IF start + k < Len(args) THEN <<32>> ELSE <<>>
            IN  IF k = 0 THEN [text |-> <<>>, ended |-> FALSE]
                ELSE IF before.ended \/ Len(before.text) + Len(arg) >= limit
                THEN [text |-> before.text, ended |-> TRUE]
                ELSE [text |-> before.text \o arg \o blank, ended |-> FALSE]]

\* The line when one more has been looked at.
Longer(x, k, args, start, limit) ==
    IF x.ended \/ Len(x.text) + Len(args[start + k]) >= limit
    THEN [text |-> x.text, ended |-> TRUE]
    ELSE [text |-> x.text \o args[start + k] \o
                   (IF start + k < Len(args) THEN <<32>> ELSE <<>>), ended |-> FALSE]

\* A function that is at first x0, and step further on.
Follows(f, x0, step, count) ==
    f = [k \in 0..count |-> IF k = 0 THEN x0 ELSE step[k][f[k - 1]]]

\* There is one.
LEMMA FollowsExists ==
    ASSUME NEW X, NEW x0 \in X, NEW count \in Nat, NEW step \in [1..count -> [X -> X]]
    PROVE  \E f : Follows(f, x0, step, count)
  <1> DEFINE Upto(n) == \E f \in [0..n -> X] : /\ f[0] = x0
                                               /\ \A k \in 1..n : f[k] = step[k][f[k - 1]]
             AsFar == {n \in Nat : n <= count => Upto(n)}
  <1>1. Upto(0)
    <2> DEFINE g == [i \in 0..0 |-> x0]
    <2>1. g \in [0..0 -> X] /\ g[0] = x0 /\ 1..0 = {}
      OBVIOUS
    <2> HIDE DEF g
    <2> QED
      BY <2>1
  <1>2. ASSUME NEW n \in Nat, n + 1 <= count, Upto(n)
        PROVE  Upto(n + 1)
    <2>1. PICK f \in [0..n -> X] : /\ f[0] = x0
                                   /\ \A k \in 1..n : f[k] = step[k][f[k - 1]]
      BY <1>2
    <2> DEFINE g == [i \in 0..(n + 1) |-> IF i <= n THEN f[i] ELSE step[n + 1][f[n]]]
    <2>2. step[n + 1][f[n]] \in X
      <3>1. n + 1 \in 1..count /\ f[n] \in X
        BY <1>2
      <3>2. step[n + 1] \in [X -> X]
        BY <3>1
      <3> QED
        BY <3>1, <3>2
    <2>3. g \in [0..(n + 1) -> X]
      BY <2>2
    <2>4. g[0] = x0
      BY <2>1
    <2>5. ASSUME NEW k \in 1..(n + 1) PROVE g[k] = step[k][g[k - 1]]
      <3>1. CASE k <= n
        <4>1. g[k] = f[k] /\ g[k - 1] = f[k - 1] /\ k \in 1..n
          BY <3>1
        <4> QED
          BY <2>1, <4>1, Zenon
      <3>2. CASE ~(k <= n)
        <4>1. k = n + 1 /\ k - 1 = n /\ k \in 0..(n + 1) /\ n \in 0..(n + 1)
          BY <3>2
        <4>2. g[k] = step[n + 1][f[n]] /\ g[k - 1] = f[n]
          BY <3>2, <4>1
        <4> QED
          BY <4>1, <4>2, Zenon
      <3> QED
        BY <3>1, <3>2
    <2> HIDE DEF g
    <2> QED
      BY <2>3, <2>4, <2>5
  <1> HIDE DEF Upto
  <1>3. 0 \in AsFar /\ \A n \in AsFar : n + 1 \in AsFar
    BY <1>1, <1>2
  <1>4. AsFar = Nat
    <2> HIDE DEF AsFar
    <2>1. AsFar \subseteq Nat
      BY DEF AsFar
    <2> QED
      BY <1>3, <2>1, AllNumbers
  <1>5. Upto(count)
    BY <1>4
  <1>6. PICK f \in [0..count -> X] : /\ f[0] = x0
                                     /\ \A k \in 1..count : f[k] = step[k][f[k - 1]]
    BY <1>5 DEF Upto
  <1>7. \A k \in 0..count : f[k] = IF k = 0 THEN x0 ELSE step[k][f[k - 1]]
    BY <1>6
  <1>8. f = [k \in 0..count |-> f[k]]
    BY <1>6
  <1>9. f = [k \in 0..count |-> IF k = 0 THEN x0 ELSE step[k][f[k - 1]]]
    BY <1>7, <1>8, Zenon
  <1> QED
    BY <1>9, Zenon DEF Follows

\* Lines that fit into the buffer.
LinesOf(S, limit) == [text : {t \in Seq(S) : Len(t) <= limit}, ended : BOOLEAN]

\* One that fits does so with one more argument.
LEMMA LongerFits ==
    ASSUME NEW S, 32 \in S, NEW args \in Seq(Seq(S)), NEW start \in Nat, NEW limit \in Nat,
           NEW k \in 1..(Len(args) - start), NEW x \in LinesOf(S, limit)
    PROVE  Longer(x, k, args, start, limit) \in LinesOf(S, limit)
  <1> DEFINE arg == args[start + k]
             blank == IF start + k < Len(args) THEN <<32>> ELSE <<>>
             more == x.text \o arg \o blank
  <1>1. /\ x.text \in Seq(S) /\ Len(x.text) \in Nat /\ Len(x.text) <= limit /\ x.ended \in BOOLEAN
    BY DEF LinesOf
  <1>2. arg \in Seq(S) /\ Len(arg) \in Nat
    <2>1. start + k \in 1..Len(args)
      OBVIOUS
    <2>2. arg \in Seq(S)
      BY <2>1
    <2> HIDE DEF arg
    <2> QED
      BY <2>2
  <1>3. blank \in Seq(S) /\ Len(blank) \in Nat /\ Len(blank) <= 1
    OBVIOUS
  <1>4. x.text \o arg \in Seq(S) /\ Len(x.text \o arg) = Len(x.text) + Len(arg)
    <2> HIDE DEF arg
    <2> QED
      BY <1>1, <1>2, ConcatProperties
  <1>5. more \in Seq(S) /\ Len(more) = Len(x.text) + Len(arg) + Len(blank)
    <2> HIDE DEF arg, blank
    <2> QED
      BY <1>3, <1>4, ConcatProperties
  <1>6. Longer(x, k, args, start, limit) =
            IF x.ended \/ Len(x.text) + Len(arg) >= limit
            THEN [text |-> x.text, ended |-> TRUE] ELSE [text |-> more, ended |-> FALSE]
    BY Zenon DEF Longer
  <1> HIDE DEF arg, blank, more
  <1>7. Len(x.text) + Len(arg) < limit => Len(more) <= limit
    BY <1>1, <1>2, <1>3, <1>5
  <1>8. [text |-> x.text, ended |-> TRUE] \in LinesOf(S, limit)
    BY <1>1 DEF LinesOf
  <1>9. Len(more) <= limit => [text |-> more, ended |-> FALSE] \in LinesOf(S, limit)
    BY <1>5 DEF LinesOf
  <1>10. Len(x.text) + Len(arg) >= limit \/ Len(x.text) + Len(arg) < limit
    BY <1>1, <1>2
  <1> QED
    BY <1>6, <1>7, <1>8, <1>9, <1>10, Zenon

\* There is a line.
LEMMA LineExists ==
    ASSUME NEW S, 32 \in S, NEW args \in Seq(Seq(S)), NEW start \in 0..Len(args),
           NEW limit \in Nat
    PROVE  \E f : IsLine(f, args, start, limit)
  <1> DEFINE X == LinesOf(S, limit)
             count == Len(args) - start
             x0 == [text |-> <<>>, ended |-> FALSE]
             step == [k \in 1..count |-> [x \in X |-> Longer(x, k, args, start, limit)]]
  <1>1. count \in Nat /\ start \in Nat
    OBVIOUS
  <1>2. x0 \in X
    <2>1. <<>> \in Seq(S) /\ Len(<<>>) = 0
      OBVIOUS
    <2> QED
      BY <2>1 DEF LinesOf
  <1>3. \A k \in 1..count : \A x \in X : Longer(x, k, args, start, limit) \in X
    BY <1>1, LongerFits
  <1> HIDE DEF X, count, x0
  <1>4. step \in [1..count -> [X -> X]]
    BY <1>3
  <1> HIDE DEF step
  <1>5. PICK f : Follows(f, x0, step, count)
    BY <1>1, <1>2, <1>4, FollowsExists
  <1>6. f = [k \in 0..count |-> IF k = 0 THEN x0 ELSE step[k][f[k - 1]]]
    BY <1>5, Zenon DEF Follows
  <1> DEFINE AsFar == {n \in Nat : n <= count => f[n] \in X}
  <1>7. 0 \in AsFar
    <2>1. f[0] = x0
      BY <1>1, <1>6
    <2> QED
      BY <1>2, <2>1
  <1>8. ASSUME NEW n \in AsFar PROVE n + 1 \in AsFar
    <2>1. CASE n + 1 <= count
      <3>1. n + 1 \in 0..count /\ n + 1 # 0 /\ n + 1 - 1 = n /\ n + 1 \in 1..count /\ n <= count
        BY <1>1, <2>1
      <3>2. f[n + 1] = step[n + 1][f[n]]
        <4>1. \A k \in 0..count : k # 0 => f[k] = step[k][f[k - 1]]
          BY <1>6, Zenon
        <4> QED
          BY <3>1, <4>1
      <3>3. f[n] \in X
        BY <3>1
      <3>4. step[n + 1] \in [X -> X]
        BY <1>4, <3>1
      <3> QED
        BY <3>2, <3>3, <3>4
    <2>2. CASE ~(n + 1 <= count)
      BY <2>2
    <2> QED
      BY <2>1, <2>2
  <1>9. AsFar = Nat
    <2>1. AsFar \subseteq Nat
      OBVIOUS
    <2> HIDE DEF AsFar
    <2> QED
      BY <1>7, <1>8, <2>1, AllNumbers
  <1>10. ASSUME NEW k \in 0..count
         PROVE  f[k] = IF k = 0 THEN x0 ELSE Longer(f[k - 1], k, args, start, limit)
    <2>1. f[k] = IF k = 0 THEN x0 ELSE step[k][f[k - 1]]
      BY <1>6, Zenon
    <2>2. ASSUME k # 0 PROVE step[k][f[k - 1]] = Longer(f[k - 1], k, args, start, limit)
      <3>1. k \in 1..count /\ k - 1 \in AsFar
        BY <1>1, <1>9, <2>2
      <3>2. f[k - 1] \in X
        BY <1>1, <3>1
      <3> QED
        BY <3>1, <3>2, Zenon DEF step
    <2> QED
      BY <2>1, <2>2, Zenon
  <1>11. f = [k \in 0..count |-> IF k = 0 THEN x0 ELSE Longer(f[k - 1], k, args, start, limit)]
    <2>1. f = [k \in 0..count |-> f[k]]
      BY <1>6
    <2> QED
      BY <1>10, <2>1, Zenon
  <1> QED
    BY <1>11, Zenon DEF IsLine, Longer, count, x0

\* The line put together of the arguments of a command is never longer than was
\* asked for, however many they are and however long, and whichever the first
\* (sv_client.c:147-173): the blank behind the final that fits is within it.
THEOREM ArgumentsFit ==
    ASSUME NEW S, 32 \in S, NEW args \in Seq(Seq(S)), NEW idx \in Nat, NEW limit \in Nat
    PROVE  /\ GScr_ConcatArgs(args, idx, limit) \in Seq(S)
           /\ Len(GScr_ConcatArgs(args, idx, limit)) <= limit
  <1> DEFINE count == Len(args) - idx
             line == CHOOSE f : IsLine(f, args, idx, limit)
  <1>1. CASE idx > Len(args)
    <2>1. GScr_ConcatArgs(args, idx, limit) = <<>>
      BY <1>1, Zenon DEF GScr_ConcatArgs
    <2>2. <<>> \in Seq(S) /\ Len(<<>>) = 0
      OBVIOUS
    <2> QED
      BY <2>1, <2>2
  <1>2. CASE ~(idx > Len(args))
    <2>1. idx \in 0..Len(args) /\ count \in Nat
      BY <1>2
    <2>2. GScr_ConcatArgs(args, idx, limit) = line[count].text
      BY <1>2, Zenon DEF GScr_ConcatArgs, ConcatArgs, IsLine
    <2>3. IsLine(line, args, idx, limit)
      BY <2>1, LineExists, Zenon
    <2> HIDE DEF line
    <2>4. line = [k \in 0..count |-> IF k = 0 THEN [text |-> <<>>, ended |-> FALSE]
                                     ELSE Longer(line[k - 1], k, args, idx, limit)]
      BY <2>3, Zenon DEF IsLine, Longer
    <2> DEFINE AsFar == {n \in Nat : n <= count => line[n] \in LinesOf(S, limit)}
    <2>5. 0 \in AsFar
      <3>1. line[0] = [text |-> <<>>, ended |-> FALSE]
        <4> HIDE DEF count
        <4> QED
          BY <2>1, <2>4
      <3>2. <<>> \in Seq(S) /\ Len(<<>>) = 0
        OBVIOUS
      <3>3. [text |-> <<>>, ended |-> FALSE] \in LinesOf(S, limit)
        BY <3>2 DEF LinesOf
      <3>4. line[0] \in LinesOf(S, limit)
        BY <3>1, <3>3, Zenon
      <3> QED
        BY <3>4
    <2>6. ASSUME NEW n \in AsFar PROVE n + 1 \in AsFar
      <3>1. CASE n + 1 <= count
        <4>1. /\ n + 1 \in 0..count /\ n + 1 # 0 /\ n + 1 - 1 = n /\ n <= count
              /\ n + 1 \in 1..(Len(args) - idx)
          BY <2>1, <3>1
        <4>2. line[n + 1] = Longer(line[n + 1 - 1], n + 1, args, idx, limit)
          <5> HIDE DEF count
          <5>1. \A k \in 0..count : k # 0 => line[k] = Longer(line[k - 1], k, args, idx, limit)
            BY <2>4, Zenon
          <5> QED
            BY <4>1, <5>1
        <4>3. line[n] \in LinesOf(S, limit)
          BY <4>1
        <4>4. Longer(line[n], n + 1, args, idx, limit) \in LinesOf(S, limit)
          BY <4>1, <4>3, LongerFits
        <4>5. line[n + 1] \in LinesOf(S, limit)
          BY <4>1, <4>2, <4>4, Zenon
        <4> QED
          BY <4>5
      <3>2. CASE ~(n + 1 <= count)
        BY <3>2
      <3> QED
        BY <3>1, <3>2
    <2>7. AsFar = Nat
      <3>1. AsFar \subseteq Nat
        OBVIOUS
      <3> HIDE DEF AsFar
      <3> QED
        BY <2>5, <2>6, <3>1, AllNumbers
    <2>8. line[count] \in LinesOf(S, limit)
      BY <2>1, <2>7
    <2> QED
      BY <2>2, <2>8 DEF LinesOf
  <1> QED
    BY <1>1, <1>2

------------------------------------------------------------------------------
(* All the parts together.  No step of one can disturb another, so what holds *)
(* of each alone holds of all of them side by side.                           *)

\* All parts start as each of them does alone.
LEMMA PartsStart ==
    SmallInit => /\ BansInit /\ PlayersInit /\ HeartbeatInit /\ InfoInit /\ VaInit
                 /\ StringsInit /\ CallbacksInit /\ GameInit /\ BotsInit /\ SettingsInit
                 /\ PacketsInit /\ FilesInit
  BY Zenon DEF SmallInit

\* A step of all parts is a step of one of them, and all others stay.
LEMMA StepsOfParts ==
    ASSUME [SmallNext]_smallvars
    PROVE  \/ UNCHANGED <<bvars, pvars, hvars, ivars, vvars, lvars, cvars, gvars, botvars,
                          setvars, packetvars, filevars>>
           \/ Only("bans") /\ BansNext
           \/ Only("players") /\ PlayersNext
           \/ Only("heartbeat") /\ HeartbeatNext
           \/ Only("info") /\ InfoNext
           \/ Only("va") /\ VaNext
           \/ Only("strings") /\ StringsNext
           \/ Only("callbacks") /\ CallbacksNext
           \/ Only("game") /\ GameNext
           \/ Only("bots") /\ BotsNext
           \/ Only("settings") /\ SettingsNext
           \/ Only("packets") /\ PacketsNext
           \/ Only("files") /\ FilesNext
  <1>1. CASE UNCHANGED smallvars
    BY <1>1 DEF smallvars
  <1>2. CASE Only("helpers") /\ HelpersNext
    BY <1>2 DEF Only
  <1>3. CASE Ended
    BY <1>3, <1>1 DEF Ended
  <1> QED
    BY <1>1, <1>2, <1>3, Zenon DEF SmallNext

\* What one part does the others do not see.
LEMMA OnlyOne ==
    ASSUME NEW p, Only(p)
    PROVE  /\ p # "bans" => UNCHANGED bvars
           /\ p # "players" => UNCHANGED pvars
           /\ p # "heartbeat" => UNCHANGED hvars
           /\ p # "info" => UNCHANGED ivars
           /\ p # "va" => UNCHANGED vvars
           /\ p # "strings" => UNCHANGED lvars
           /\ p # "callbacks" => UNCHANGED cvars
           /\ p # "game" => UNCHANGED gvars
           /\ p # "bots" => UNCHANGED botvars
           /\ p # "settings" => UNCHANGED setvars
           /\ p # "packets" => UNCHANGED packetvars
           /\ p # "files" => UNCHANGED filevars
  BY DEF Only

\* So each part sees only steps of its own.
LEMMA PartsStepAlone ==
    [SmallNext]_smallvars =>
        /\ [BansNext]_bvars /\ [PlayersNext]_pvars /\ [HeartbeatNext]_hvars
        /\ [InfoNext]_ivars /\ [VaNext]_vvars /\ [StringsNext]_lvars
        /\ [CallbacksNext]_cvars /\ [GameNext]_gvars /\ [BotsNext]_botvars
        /\ [SettingsNext]_setvars /\ [PacketsNext]_packetvars /\ [FilesNext]_filevars
  <1> SUFFICES ASSUME [SmallNext]_smallvars
               PROVE  /\ BansNext \/ UNCHANGED bvars
                      /\ PlayersNext \/ UNCHANGED pvars
                      /\ HeartbeatNext \/ UNCHANGED hvars
                      /\ InfoNext \/ UNCHANGED ivars
                      /\ VaNext \/ UNCHANGED vvars
                      /\ StringsNext \/ UNCHANGED lvars
                      /\ CallbacksNext \/ UNCHANGED cvars
                      /\ GameNext \/ UNCHANGED gvars
                      /\ BotsNext \/ UNCHANGED botvars
                      /\ SettingsNext \/ UNCHANGED setvars
                      /\ PacketsNext \/ UNCHANGED packetvars
                      /\ FilesNext \/ UNCHANGED filevars
    OBVIOUS
  <1> QED
    BY StepsOfParts, OnlyOne

\* Whatever part is at work: everything stays within the bounds of its module, for
\* any numbers of slots, lines, names, masters, keys, cells, scripts and files.
THEOREM PartsStayTyped == SmallSpec => []SmallTypeOK
  <1>1. BansSpec /\ PlayersSpec /\ VaSpec /\ InfoSpec /\ StringsSpec /\ CallbacksSpec
        /\ GameSpec /\ BotsSpec /\ SettingsSpec /\ PacketsSpec /\ FilesSpec
        /\ HeartbeatInit /\ [][HeartbeatNext]_hvars => []SmallTypeOK
    <2>1. BeatInv => HeartbeatTypeOK
      BY DEF BeatInv
    <2> QED
      BY <2>1, BansStayTyped, MutesAreOwn, BeatInitInv, BeatNextInv, InfoStaysShort,
         VaStaysInside, StringsStayInside, ReturnsAreAnswered, HooksStayCurrent,
         BotsStayInBytes, SettingsAreKept, TheMasterIsHeard, FilesStayBounded, PTL
         DEF SmallTypeOK
  <1> QED
    BY <1>1, PartsStart, PartsStepAlone, PTL
       DEF SmallSpec, BansSpec, PlayersSpec, VaSpec, InfoSpec, StringsSpec, CallbacksSpec,
           GameSpec, BotsSpec, SettingsSpec, PacketsSpec, FilesSpec

\* And each part keeps what it promises: who is banned, muted, kicked, told and
\* called, which strings and orders stay, and what is shown of a player.
THEOREM PartsKeepPromises ==
    SmallSpec =>
        /\ [](MuteIsOwn /\ HeartbeatsGoToCurrent /\ ReturnsStopOne /\ HooksAreCurrent)
        /\ ImplementsRegister /\ KickHitsMatch /\ SetIsExact /\ PreviousIsKept
        /\ LowerHalfStays /\ CallbacksAreCurrent /\ BotDoesAsOrdered
        /\ BoardShowsPlayers
  <1>1. BansSpec /\ PlayersSpec /\ VaSpec /\ InfoSpec /\ StringsSpec /\ CallbacksSpec
        /\ GameSpec /\ BotsSpec /\ SettingsSpec
        /\ HeartbeatInit /\ [][HeartbeatNext]_hvars =>
            /\ [](MuteIsOwn /\ HeartbeatsGoToCurrent /\ ReturnsStopOne /\ HooksAreCurrent)
            /\ ImplementsRegister /\ KickHitsMatch /\ SetIsExact /\ PreviousIsKept
            /\ LowerHalfStays /\ CallbacksAreCurrent /\ BotDoesAsOrdered
            /\ BoardShowsPlayers
    <2>1. BeatInv => HeartbeatsGoToCurrent
      BY DEF BeatInv
    <2> QED
      BY <2>1, BansAreRegistered, BeatInitInv, BeatNextInv, MutesAreOwn, KicksHit,
         SetsAreExact, VaKeepsPrevious, LowerHalfIsKept, ReturnsAreAnswered,
         CallbacksStayCurrent, HooksStayCurrent, BotsObey, BoardsShowPlayers, PTL
  <1> QED
    BY <1>1, PartsStart, PartsStepAlone, PTL
       DEF SmallSpec, BansSpec, PlayersSpec, VaSpec, InfoSpec, StringsSpec, CallbacksSpec,
           GameSpec, BotsSpec, SettingsSpec
=============================================================================
