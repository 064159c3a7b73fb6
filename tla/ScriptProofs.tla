---------------------------- MODULE ScriptProofs ----------------------------
(***************************************************************************)
(* Theorems about ScriptCallbacks and GameModule: what the server keeps of *)
(* scripts and of the game library while maps and libraries come and go;   *)
(* and about BotOrders and ConfigStrings: what a bot does of what scripts  *)
(* ordered, and which index the strings of scripts get; about Packets, and *)
(* about ScriptFiles: which files are open.                                *)
(***************************************************************************)
EXTENDS ScriptCallbacks, GameModule, BotOrders, ConfigStrings, Packets, ScriptFiles,
        SequenceTheorems, FiniteSetTheorems, WellFoundedInduction, TLAPS

------------------------------------------------------------------------------
(* Callbacks *)

\* While a map runs, all handles are of its scripts or 0.  Before and after it
\* they need not be: a load that fails leaves some of an earlier map.
HandlesOK == running => \A label \in ToSet(Labels) : handles[label] \in {0, mapNumber}

CallbacksInv == CallbacksTypeOK /\ ReturnsStopOne /\ HandlesOK

\* The labels the C code names.
LEMMA NamedLabels ==
    /\ {"PlayerCommand", "RemoteCommand", "FireGrenade", "EntityDamage", "EntityDeath", "Error"}
            \subseteq ToSet(Labels)
    /\ \A n \in Required : Labels[n] \in ToSet(Labels)
  <1>1. DOMAIN Labels = 1..12
    BY DEF Labels
  <1>2. \A n \in 1..12 : Labels[n] \in ToSet(Labels)
    BY <1>1 DEF ToSet
  <1>3. /\ Labels[7] = "PlayerCommand" /\ Labels[8] = "RemoteCommand"
        /\ Labels[9] = "FireGrenade" /\ Labels[10] = "EntityDamage"
        /\ Labels[11] = "EntityDeath" /\ Labels[12] = "Error"
    BY DEF Labels
  <1> QED
    BY <1>2, <1>3 DEF Required

\* The invariant of the callbacks holds at first.
LEMMA CallbacksInitInv == CallbacksInit => CallbacksInv
  <1> SUFFICES ASSUME CallbacksInit PROVE CallbacksInv
    OBVIOUS
  <1>1. CallbacksTypeOK
    <2>1. running \in BOOLEAN /\ scr_return \in BOOLEAN /\ vulnerable \in BOOLEAN
      BY Zenon DEF CallbacksInit
    <2>2. mapNumber = 0 /\ scr_errors_index = 0 /\ executed = 0 /\ returns = 0 /\ stopped = 0
          /\ handles = [label \in ToSet(Labels) |-> 0]
      BY Zenon DEF CallbacksInit
    <2> QED
      BY <2>1, <2>2, CallbacksAssumption DEF CallbacksTypeOK
  <1>2. ReturnsStopOne
    BY DEF CallbacksInit, ReturnsStopOne
  <1>3. HandlesOK
    BY DEF CallbacksInit, HandlesOK
  <1> QED
    BY <1>1, <1>2, <1>3 DEF CallbacksInv

\* A step of a callback: what was executed is a handle of this map.
LEMMA HandleIsCurrent ==
    ASSUME CallbacksInv, running, NEW label \in ToSet(Labels)
    PROVE  handles[label] \in 0..MaxMaps /\ handles[label] \in {0, mapNumber}
  BY DEF CallbacksInv, CallbacksTypeOK, HandlesOK

\* A map is loaded: either all handles are of the new map, or it does not run.
LEMMA LoadKeeps ==
    ASSUME CallbacksInv, NEW scripts \in Scripts, GScr_LoadGametypeScript(scripts)
    PROVE  CallbacksInv' /\ executed' = 0
  <1>1. mapNumber' = mapNumber + 1 /\ mapNumber' \in 0..MaxMaps /\ running' \in BOOLEAN
    BY CallbacksAssumption DEF CallbacksInv, CallbacksTypeOK, GScr_LoadGametypeScript
  <1>2. \A label \in ToSet(Labels) :
                load_callback(label, scripts, mapNumber + 1) \in {0, mapNumber'}
    BY <1>1 DEF load_callback
  <1>3. handles' \in [ToSet(Labels) -> 0..MaxMaps]
    BY <1>1, <1>2, CallbacksAssumption DEF CallbacksInv, CallbacksTypeOK, GScr_LoadGametypeScript
  <1>4. HandlesOK'
    BY <1>1, <1>2 DEF HandlesOK, GScr_LoadGametypeScript
  <1>5. UNCHANGED <<scr_return, scr_errors_index, returns, stopped>> /\ vulnerable' = FALSE
        /\ executed' = 0
    BY DEF GScr_LoadGametypeScript
  <1>6. CallbacksTypeOK'
    <2>1. vulnerable' \in BOOLEAN
      BY <1>5, Zenon
    <2> QED
      BY <1>1, <1>3, <1>5, <2>1, CallbacksAssumption DEF CallbacksInv, CallbacksTypeOK
  <1>7. ReturnsStopOne'
    BY <1>5 DEF CallbacksInv, ReturnsStopOne
  <1> QED
    BY <1>4, <1>5, <1>6, <1>7 DEF CallbacksInv

\* The flag and its counters over a step that may call creturn and may look at
\* the flag: a call that is not yet answered for is the flag itself.
LEMMA CallbackKeeps ==
    ASSUME CallbacksInv, running,
           UNCHANGED <<mapNumber, running, handles, scr_errors_index>>,
           vulnerable' \in BOOLEAN, scr_return' \in BOOLEAN,
           executed' \in 0..MaxMaps, executed' \in {0, mapNumber},
           returns' \in 0..MaxReturns, stopped' \in Nat,
           stopped' + (IF scr_return' THEN 1 ELSE 0) <= returns'
    PROVE  CallbacksInv' /\ executed' \in {0, mapNumber'}
  BY DEF CallbacksInv, CallbacksTypeOK, ReturnsStopOne, HandlesOK

\* A callback that does not look at the flag.
LEMMA ExecKeeps ==
    ASSUME CallbacksInv, running, NEW label \in ToSet(Labels), NEW calls \in BOOLEAN,
           Exec(label, calls),
           UNCHANGED <<mapNumber, running, handles, scr_errors_index, vulnerable, stopped>>
    PROVE  CallbacksInv' /\ executed' \in {0, mapNumber'}
  <1>1. executed' \in 0..MaxMaps /\ executed' \in {0, mapNumber}
    BY HandleIsCurrent DEF Exec
  <1>2. /\ scr_return' \in BOOLEAN /\ returns' \in 0..MaxReturns
        /\ stopped + (IF scr_return' THEN 1 ELSE 0) <= returns'
    <2>1. CASE calls
      BY <2>1, CallbacksAssumption
         DEF Exec, GScr_return, CallbacksInv, CallbacksTypeOK, ReturnsStopOne
    <2>2. CASE ~calls
      BY <2>2 DEF Exec, CallbacksInv, CallbacksTypeOK, ReturnsStopOne
    <2> QED
      BY <2>1, <2>2
  <1>3. vulnerable' \in BOOLEAN /\ stopped' \in Nat /\ stopped' = stopped
    BY DEF CallbacksInv, CallbacksTypeOK
  <1> QED
    BY <1>1, <1>2, <1>3, CallbackKeeps

\* A callback whose flag is looked at: say, and a remote command.
LEMMA AskedKeeps ==
    ASSUME CallbacksInv, running, NEW label \in ToSet(Labels), NEW calls \in BOOLEAN,
           calls => returns < MaxReturns,
           executed' = handles[label],
           returns' = IF calls THEN returns + 1 ELSE returns,
           \/ Default(calls \/ scr_return)
           \/ ~calls /\ UNCHANGED <<scr_return, stopped>>,
           UNCHANGED <<mapNumber, running, handles, scr_errors_index, vulnerable>>
    PROVE  CallbacksInv' /\ executed' \in {0, mapNumber'}
  <1>1. executed' \in 0..MaxMaps /\ executed' \in {0, mapNumber}
    BY HandleIsCurrent
  <1>2. /\ scr_return' \in BOOLEAN /\ returns' \in 0..MaxReturns /\ stopped' \in Nat
        /\ stopped' + (IF scr_return' THEN 1 ELSE 0) <= returns'
    <2>1. CASE Default(calls \/ scr_return)
      <3>1. /\ ~scr_return' /\ scr_return' \in BOOLEAN
            /\ stopped' = IF calls \/ scr_return THEN stopped + 1 ELSE stopped
        BY <2>1, Zenon DEF Default, Scr_Continue
      <3>2. /\ returns \in 0..MaxReturns /\ stopped \in Nat
            /\ stopped + (IF scr_return THEN 1 ELSE 0) <= returns
        BY DEF CallbacksInv, CallbacksTypeOK, ReturnsStopOne
      <3>3. returns' \in 0..MaxReturns
        BY <3>2, CallbacksAssumption
      <3>4. CASE calls
        BY <3>1, <3>2, <3>3, <3>4
      <3>5. CASE ~calls
        BY <3>1, <3>2, <3>3, <3>5
      <3> QED
        BY <3>4, <3>5
    <2>2. CASE ~calls /\ UNCHANGED <<scr_return, stopped>>
      BY <2>2 DEF CallbacksInv, CallbacksTypeOK, ReturnsStopOne
    <2> QED
      BY <2>1, <2>2
  <1>3. vulnerable' \in BOOLEAN
    BY DEF CallbacksInv, CallbacksTypeOK
  <1> QED
    BY <1>1, <1>2, <1>3, CallbackKeeps

\* Every step keeps it and runs functions of the current map only.
LEMMA CallbacksNextInv ==
    ASSUME CallbacksInv, CallbacksNext
    PROVE  CallbacksInv' /\ executed' \in {0, mapNumber'}
  <1>1. CASE \E scripts \in Scripts : GScr_LoadGametypeScript(scripts)
    BY <1>1, LoadKeeps
  <1>2. CASE SV_ShutdownMap
    <2>1. running' \in BOOLEAN /\ ~running'
      BY <1>2, Zenon DEF SV_ShutdownMap
    <2> QED
      BY <1>2, <2>1, CallbacksAssumption
         DEF SV_ShutdownMap, CallbacksInv, CallbacksTypeOK, ReturnsStopOne, HandlesOK
  <1>3. CASE ThreadReturns
    BY <1>3, CallbacksAssumption
       DEF ThreadReturns, GScr_return, CallbacksInv, CallbacksTypeOK, ReturnsStopOne, HandlesOK
  <1>4. ASSUME NEW calls \in BOOLEAN, NEW n \in Required, Scr_Callback(Labels[n], calls)
        PROVE  CallbacksInv' /\ executed' \in {0, mapNumber'}
    BY <1>4, NamedLabels, ExecKeeps DEF Scr_Callback
  <1>5. ASSUME NEW calls \in BOOLEAN, hG_Say(calls)
        PROVE  CallbacksInv' /\ executed' \in {0, mapNumber'}
    BY <1>5, NamedLabels, AskedKeeps DEF hG_Say
  <1>6. ASSUME NEW calls \in BOOLEAN, SVC_RemoteCommand(calls)
        PROVE  CallbacksInv' /\ executed' \in {0, mapNumber'}
    BY <1>6, NamedLabels, AskedKeeps DEF SVC_RemoteCommand
  <1>7. ASSUME NEW calls \in BOOLEAN, fire_grenade(calls)
        PROVE  CallbacksInv' /\ executed' \in {0, mapNumber'}
    BY <1>7, NamedLabels, ExecKeeps DEF fire_grenade
  <1>8. ASSUME NEW calls \in BOOLEAN, NEW label \in {"EntityDamage", "EntityDeath"},
               Damage(label, calls)
        PROVE  CallbacksInv' /\ executed' \in {0, mapNumber'}
    BY <1>8, NamedLabels, ExecKeeps DEF Damage
  <1>9. ASSUME NEW flag \in BOOLEAN, ScriptEnt_SetTakeDamage(flag)
        PROVE  CallbacksInv' /\ executed' \in {0, mapNumber'}
    BY <1>9, CallbacksAssumption
       DEF ScriptEnt_SetTakeDamage, CallbacksInv, CallbacksTypeOK, ReturnsStopOne, HandlesOK
  <1>10. ASSUME NEW since \in 1..MaxMaps, Cmd_MenuResponse_f(since)
         PROVE  CallbacksInv' /\ executed' \in {0, mapNumber'}
    BY <1>10 DEF Cmd_MenuResponse_f, CallbacksInv, CallbacksTypeOK, ReturnsStopOne, HandlesOK
  <1>11. CASE stackError
    BY <1>11, CallbacksAssumption
       DEF stackError, Fits, CallbacksInv, CallbacksTypeOK, ReturnsStopOne, HandlesOK
  <1> QED
    BY <1>1, <1>2, <1>3, <1>4, <1>5, <1>6, <1>7, <1>8, <1>9, <1>10, <1>11 DEF CallbacksNext

\* Whatever scripts define and however often maps are loaded, fail or end: the
\* queue of errors stays within its buffer, and a call of creturn
\* (script.c:739) stops one command at most.
THEOREM ReturnsAreAnswered == CallbacksSpec => [](CallbacksTypeOK /\ ReturnsStopOne)
  <1>1. CallbacksInv /\ [CallbacksNext]_cvars => CallbacksInv'
    <2>1. CallbacksInv /\ UNCHANGED cvars => CallbacksInv'
      BY DEF CallbacksInv, CallbacksTypeOK, ReturnsStopOne, HandlesOK, cvars
    <2> QED
      BY <2>1, CallbacksNextInv
  <1>2. CallbacksInv => CallbacksTypeOK /\ ReturnsStopOne
    BY DEF CallbacksInv
  <1> QED
    BY <1>1, <1>2, CallbacksInitInv, PTL DEF CallbacksSpec

\* No function of an earlier map's scripts is called, also when a load has
\* failed half way and left its handles (script.c:914).
THEOREM CallbacksStayCurrent == CallbacksSpec => CallbacksAreCurrent
  <1>1. CallbacksInv /\ [CallbacksNext]_cvars
            => CallbacksInv' /\ [executed' \in {0, mapNumber'}]_cvars
    <2>1. CallbacksInv /\ UNCHANGED cvars => CallbacksInv'
      BY DEF CallbacksInv, CallbacksTypeOK, ReturnsStopOne, HandlesOK, cvars
    <2> QED
      BY <2>1, CallbacksNextInv
  <1> QED
    BY <1>1, CallbacksInitInv, PTL DEF CallbacksSpec, CallbacksAreCurrent

------------------------------------------------------------------------------
(* The game library *)

\* The invariant of HooksAreCurrent is itself: the pointers and the saved bytes
\* are written in the step that maps the library, or the process ends there.
LEMMA GameNextInv ==
    ASSUME GameTypeOK, HooksAreCurrent, [GameNext]_gvars
    PROVE  GameTypeOK' /\ HooksAreCurrent'
  <1>1. CASE CoDExtended
    BY <1>1 DEF CoDExtended, GameTypeOK, HooksAreCurrent
  <1>2. CASE COD_Destructor
    BY <1>2 DEF COD_Destructor, uCoDExtended, GameTypeOK, HooksAreCurrent
  <1>3. ASSUME NEW file \in Library, NEW named \in Library, Sys_LoadDll(file, named)
        PROVE  GameTypeOK' /\ HooksAreCurrent'
    <2>1. /\ gamelib' \in 0..MaxLoads /\ gamelib' = gamelib + 1 /\ mapped' = file
          /\ UNCHANGED <<engineHooks, freed, cleanups>>
      BY <1>3, GameAssumption DEF Sys_LoadDll, GameTypeOK
    <2>2. CASE file = named
      <3>1. /\ pointers' = [g \in Groups |-> gamelib'] /\ rct_bytes' = file /\ rctCode' = "jmp"
            /\ process' = "runs"
        BY <1>3, <2>1, <2>2 DEF Sys_LoadDll, SaveBytes
      <3> QED
        BY <2>1, <3>1 DEF GameTypeOK, HooksAreCurrent
    <2>3. CASE file # named
      <3>1. process' = "crashes" /\ rctCode' = file /\ pointers' = pointers
        BY <1>3, <2>3 DEF Sys_LoadDll
      <3> QED
        BY <2>1, <3>1 DEF GameTypeOK, HooksAreCurrent
    <2> QED
      BY <2>2, <2>3
  <1>4. CASE Sys_LoadDllFails
    BY <1>4 DEF Sys_LoadDllFails, GameTypeOK, HooksAreCurrent
  <1>5. CASE Sys_UnloadDll
    BY <1>5 DEF Sys_UnloadDll, GameTypeOK, HooksAreCurrent
  <1>6. ASSUME NEW error \in BOOLEAN, RunCurrentThreads(error)
        PROVE  GameTypeOK' /\ HooksAreCurrent'
    <2>1. /\ rctCode' \in {rctCode, rct_bytes, "jmp"}
          /\ process = "runs" /\ mapped # NoFile
          /\ UNCHANGED <<engineHooks, gamelib, mapped, pointers, rct_bytes, process, freed,
                         cleanups>>
      BY <1>6 DEF RunCurrentThreads
    <2> QED
      BY <2>1 DEF GameTypeOK, HooksAreCurrent
  <1>7. CASE UNCHANGED gvars
    BY <1>7 DEF gvars, GameTypeOK, HooksAreCurrent
  <1> QED
    BY <1>1, <1>2, <1>3, <1>4, <1>5, <1>6, <1>7 DEF GameNext

\* For any libraries and any history of loads, failed loads, unloads and errors
\* in the midst of a script: what the server calls is in the library that is
\* mapped, and what stands in for Scr_RunCurrentThreads are its own bytes
\* (script.c:1862).
THEOREM HooksStayCurrent == GameSpec => [](GameTypeOK /\ HooksAreCurrent)
  <1>1. GameInit => GameTypeOK /\ HooksAreCurrent
    BY GameAssumption DEF GameInit, GameTypeOK, HooksAreCurrent
  <1> QED
    BY <1>1, GameNextInv, PTL DEF GameSpec

------------------------------------------------------------------------------
(* Bots.  The bits and bytes a slot keeps say what has been ordered of its   *)
(* bot, order for order, so that the command built of them is the ordered    *)
(* one.                                                                      *)

\* What is kept of a bot, and what may be ordered of one.
BotState == [botButtons : SUBSET Masks, botWButtons : SUBSET Masks, botWeapon : Int,
             botForwardMove : Int, botRightMove : Int, botUpMove : Int]

Orders == [keys : SUBSET {"fire", "ads", "melee", "reload"},
           stance : SUBSET {"crouch", "prone", "jump"}, lean : SUBSET {"left", "right"},
           weapon : Int, forward : Int, right : Int]

\* The bits and bytes kept of a slot say what has been ordered, and no more.
Agree(p, o) ==
    /\ KEY_MASK_FIRE \in p.botButtons <=> "fire" \in o.keys
    /\ KEY_MASK_ADS_MODE \in p.botButtons <=> "ads" \in o.keys
    /\ KEY_MASK_MELEE \in p.botButtons <=> "melee" \in o.keys
    /\ KEY_MASK_RELOAD \in p.botWButtons <=> "reload" \in o.keys
    /\ KEY_MASK_LEANLEFT \in p.botWButtons <=> "left" \in o.lean
    /\ KEY_MASK_LEANRIGHT \in p.botWButtons <=> "right" \in o.lean
    /\ KEY_MASK_PRONE \in p.botWButtons <=> "prone" \in o.stance
    /\ KEY_MASK_CROUCH \in p.botWButtons <=> "crouch" \in o.stance
    /\ p.botUpMove = IF "jump" \in o.stance THEN 127 ELSE 0
    /\ p.botForwardMove = ToChar(o.forward)
    /\ p.botRightMove = ToChar(o.right)
    /\ p.botWeapon = o.weapon

BotsInv ==
    /\ customPlayerState \in [ClientNum -> BotState]
    /\ ordered \in [ClientNum -> Orders]
    /\ \A id \in ClientNum : Agree(customPlayerState[id], ordered[id])

\* The lowest byte of a number is a signed char, and of a signed char itself.
LEMMA CharOf == \A n \in Int : /\ ToChar(n) \in -128..127
                               /\ n \in -128..127 => ToChar(n) = n
  <1> SUFFICES ASSUME NEW n \in Int
               PROVE  ToChar(n) \in -128..127 /\ (n \in -128..127 => ToChar(n) = n)
    OBVIOUS
  <1>1. n % 256 \in 0..255
    BY Z3
  <1>2. /\ n \in 0..127 => n % 256 = n
        /\ n \in -128..-1 => n % 256 = n + 256
    BY Z3
  <1> QED
    BY <1>1, <1>2 DEF ToChar

\* An order keeps the slots of all others.
LEMMA KeepsOrders ==
    ASSUME BotsInv, NEW id \in ClientNum, NEW p \in BotState, NEW o \in Orders,
           Agree(p, o), Keep(id, p, o)
    PROVE  BotsInv' /\ moved'.bot = -1
  <1>1. /\ customPlayerState' = [customPlayerState EXCEPT ![id] = p]
        /\ ordered' = [ordered EXCEPT ![id] = o]
        /\ moved' = NotMoved
    BY DEF Keep
  <1>2. /\ customPlayerState' \in [ClientNum -> BotState]
        /\ ordered' \in [ClientNum -> Orders]
    BY <1>1 DEF BotsInv
  <1>3. ASSUME NEW e \in ClientNum
        PROVE  Agree(customPlayerState'[e], ordered'[e])
    <2>1. CASE e = id
      <3>1. customPlayerState'[e] = p /\ ordered'[e] = o
        BY <1>1, <2>1 DEF BotsInv
      <3> QED
        BY <3>1
    <2>2. CASE e # id
      <3>1. customPlayerState'[e] = customPlayerState[e] /\ ordered'[e] = ordered[e]
        BY <1>1, <2>2 DEF BotsInv
      <3> QED
        BY <3>1 DEF BotsInv
    <2> QED
      BY <2>1, <2>2
  <1> QED
    BY <1>1, <1>2, <1>3 DEF BotsInv, NotMoved

\* What the state and the orders of a slot are made of.
LEMMA SlotAgrees ==
    ASSUME BotsInv, NEW id \in ClientNum
    PROVE  /\ customPlayerState[id] \in BotState /\ ordered[id] \in Orders
           /\ Agree(customPlayerState[id], ordered[id])
  BY DEF BotsInv

\* A stance takes the bits of the other stances back.
LEMMA StanceKeeps ==
    ASSUME BotsInv, NEW id \in ClientNum, NEW stance \in {"stand", "crouch", "prone", "jump"},
           gsc_bots_setbotstance(id, stance)
    PROVE  BotsInv' /\ moved'.bot = -1
  <1> DEFINE p == customPlayerState[id]
             o == ordered[id]
             up == [p EXCEPT !.botUpMove = 0,
                             !.botWButtons = @ \ {KEY_MASK_CROUCH, KEY_MASK_PRONE}]
             lies == [p EXCEPT !.botWButtons = @ \cup {KEY_MASK_PRONE}]
             sits == [p EXCEPT !.botWButtons = @ \cup {KEY_MASK_CROUCH}]
             jumps == [p EXCEPT !.botUpMove = 127]
             added == [o EXCEPT !.stance = @ \cup {stance}]
             none == [o EXCEPT !.stance = {}]
  <1>1. p \in BotState /\ o \in Orders /\ Agree(p, o)
    BY SlotAgrees
  <1>2. \/ stance = "stand" /\ Keep(id, up, none)
        \/ stance = "crouch" /\ Keep(id, sits, added)
        \/ stance = "prone" /\ Keep(id, lies, added)
        \/ stance = "jump" /\ Keep(id, jumps, added)
    BY Zenon DEF gsc_bots_setbotstance
  <1> HIDE DEF p, o
  <1>3. CASE stance = "stand" /\ Keep(id, up, none)
    <2>1. /\ up \in BotState /\ up.botUpMove = 0
          /\ up.botWButtons = p.botWButtons \ {KEY_MASK_CROUCH, KEY_MASK_PRONE}
          /\ up.botButtons = p.botButtons /\ up.botWeapon = p.botWeapon
          /\ up.botForwardMove = p.botForwardMove /\ up.botRightMove = p.botRightMove
      <3> DEFINE words == p.botWButtons \ {KEY_MASK_CROUCH, KEY_MASK_PRONE}
      <3>1. words \in SUBSET Masks
        BY <1>1 DEF BotState
      <3> DEFINE q == [p EXCEPT !.botUpMove = 0]
      <3>2. up = [q EXCEPT !.botWButtons = words]
        <4>1. q.botWButtons = p.botWButtons
          BY <1>1 DEF BotState
        <4> QED
          BY <1>1, <4>1 DEF BotState
      <3>4. /\ q \in BotState /\ q.botUpMove = 0
            /\ q.botButtons = p.botButtons /\ q.botWeapon = p.botWeapon
            /\ q.botForwardMove = p.botForwardMove /\ q.botRightMove = p.botRightMove
        BY <1>1 DEF BotState
      <3> HIDE DEF words, up, q
      <3>3. /\ up \in BotState /\ up.botUpMove = 0 /\ up.botWButtons = words
            /\ up.botButtons = p.botButtons /\ up.botWeapon = p.botWeapon
            /\ up.botForwardMove = p.botForwardMove /\ up.botRightMove = p.botRightMove
        BY <3>1, <3>2, <3>4 DEF BotState
      <3> QED
        BY <3>3 DEF words
    <2>2. /\ none \in Orders /\ none.stance = {} /\ none.keys = o.keys
          /\ none.lean = o.lean /\ none.weapon = o.weapon
          /\ none.forward = o.forward /\ none.right = o.right
      BY <1>1 DEF Orders
    <2> HIDE DEF up, none
    <2>3. Agree(up, none)
      BY <1>1, <2>1, <2>2 DEF Agree, KEY_MASK_FIRE, KEY_MASK_ADS_MODE,
         KEY_MASK_MELEE, KEY_MASK_RELOAD, KEY_MASK_LEANLEFT, KEY_MASK_LEANRIGHT,
         KEY_MASK_PRONE, KEY_MASK_CROUCH
    <2> QED
      BY <1>3, <2>1, <2>2, <2>3, KeepsOrders
  <1>4. CASE stance = "crouch" /\ Keep(id, sits, added)
    <2>1. sits \in BotState /\ added \in Orders /\ Agree(sits, added)
      BY <1>1, <1>4 DEF Agree, BotState, Orders, Masks, KEY_MASK_FIRE, KEY_MASK_ADS_MODE,
         KEY_MASK_MELEE, KEY_MASK_RELOAD, KEY_MASK_LEANLEFT, KEY_MASK_LEANRIGHT,
         KEY_MASK_PRONE, KEY_MASK_CROUCH
    <2> QED
      BY <1>4, <2>1, KeepsOrders
  <1>5. CASE stance = "prone" /\ Keep(id, lies, added)
    <2>1. lies \in BotState /\ added \in Orders /\ Agree(lies, added)
      BY <1>1, <1>5 DEF Agree, BotState, Orders, Masks, KEY_MASK_FIRE, KEY_MASK_ADS_MODE,
         KEY_MASK_MELEE, KEY_MASK_RELOAD, KEY_MASK_LEANLEFT, KEY_MASK_LEANRIGHT,
         KEY_MASK_PRONE, KEY_MASK_CROUCH
    <2> QED
      BY <1>5, <2>1, KeepsOrders
  <1>6. CASE stance = "jump" /\ Keep(id, jumps, added)
    <2>1. jumps \in BotState /\ added \in Orders /\ Agree(jumps, added)
      BY <1>1, <1>6 DEF Agree, BotState, Orders
    <2> QED
      BY <1>6, <2>1, KeepsOrders
  <1> QED
    BY <1>2, <1>3, <1>4, <1>5, <1>6

\* Setting and clearing one bit does no other bit a thing.
LEMMA PutKeeps ==
    ASSUME NEW S, NEW word \in SUBSET S, NEW mask \in S, NEW on \in BOOLEAN
    PROVE  /\ Put(word, mask, on) \in SUBSET S
           /\ mask \in Put(word, mask, on) <=> on
           /\ \A m : m # mask => (m \in Put(word, mask, on) <=> m \in word)
  BY DEF Put

\* A key sets or takes back its own bit.
LEMMA KeysKeep ==
    ASSUME BotsInv, NEW id \in ClientNum, NEW on \in BOOLEAN,
           \/ gsc_bots_meleeweapon(id, on) \/ gsc_bots_setaim(id, on)
           \/ gsc_bots_fireweapon(id, on) \/ gsc_bots_reloadweapon(id, on)
    PROVE  BotsInv' /\ moved'.bot = -1
  <1> DEFINE p == customPlayerState[id]
             o == ordered[id]
             With(mask) == [p EXCEPT !.botButtons = Put(@, mask, on)]
             WWith(mask) == [p EXCEPT !.botWButtons = Put(@, mask, on)]
             Asked(key) == [o EXCEPT !.keys = Put(@, key, on)]
             Key == {"fire", "ads", "melee", "reload"}
  <1>1. p \in BotState /\ o \in Orders /\ Agree(p, o)
    BY SlotAgrees
  <1>2. \/ Keep(id, With(KEY_MASK_MELEE), Asked("melee"))
        \/ Keep(id, With(KEY_MASK_ADS_MODE), Asked("ads"))
        \/ Keep(id, With(KEY_MASK_FIRE), Asked("fire"))
        \/ Keep(id, WWith(KEY_MASK_RELOAD), Asked("reload"))
    BY Zenon DEF gsc_bots_meleeweapon, gsc_bots_setaim, gsc_bots_fireweapon,
                 gsc_bots_reloadweapon, Button
  <1> HIDE DEF p, o
  <1>3. ASSUME NEW mask \in Masks, NEW key \in Key
        PROVE  /\ With(mask) \in BotState /\ WWith(mask) \in BotState
               /\ Asked(key) \in Orders
               /\ \A f \in {"botWButtons", "botWeapon", "botForwardMove", "botRightMove",
                            "botUpMove"} : With(mask)[f] = p[f]
               /\ \A f \in {"botButtons", "botWeapon", "botForwardMove", "botRightMove",
                            "botUpMove"} : WWith(mask)[f] = p[f]
               /\ \A f \in {"stance", "lean", "weapon", "forward", "right"} :
                        Asked(key)[f] = o[f]
               /\ mask \in With(mask).botButtons <=> on
               /\ mask \in WWith(mask).botWButtons <=> on
               /\ key \in Asked(key).keys <=> on
               /\ \A m : m # mask => (m \in With(mask).botButtons <=> m \in p.botButtons)
               /\ \A m : m # mask => (m \in WWith(mask).botWButtons <=> m \in p.botWButtons)
               /\ \A m : m # key => (m \in Asked(key).keys <=> m \in o.keys)
    <2> DEFINE buttons == Put(p.botButtons, mask, on)
               wbuttons == Put(p.botWButtons, mask, on)
               keys == Put(o.keys, key, on)
    <2>1. /\ p.botButtons \in SUBSET Masks /\ p.botWButtons \in SUBSET Masks
          /\ o.keys \in SUBSET Key
      BY <1>1 DEF BotState, Orders
    <2>2. /\ buttons \in SUBSET Masks /\ wbuttons \in SUBSET Masks /\ keys \in SUBSET Key
          /\ mask \in buttons <=> on
          /\ mask \in wbuttons <=> on
          /\ key \in keys <=> on
          /\ \A m : m # mask => (m \in buttons <=> m \in p.botButtons)
          /\ \A m : m # mask => (m \in wbuttons <=> m \in p.botWButtons)
          /\ \A m : m # key => (m \in keys <=> m \in o.keys)
      <3>1. /\ buttons \in SUBSET Masks
            /\ mask \in buttons <=> on
            /\ \A m : m # mask => (m \in buttons <=> m \in p.botButtons)
        BY <2>1 DEF Put
      <3>2. /\ wbuttons \in SUBSET Masks
            /\ mask \in wbuttons <=> on
            /\ \A m : m # mask => (m \in wbuttons <=> m \in p.botWButtons)
        BY <2>1 DEF Put
      <3>3. /\ keys \in SUBSET Key
            /\ key \in keys <=> on
            /\ \A m : m # key => (m \in keys <=> m \in o.keys)
        BY <2>1 DEF Put
      <3> QED
        BY <3>1, <3>2, <3>3
    <2> HIDE DEF buttons, wbuttons, keys
    <2>3. /\ With(mask) = [p EXCEPT !.botButtons = buttons]
          /\ WWith(mask) = [p EXCEPT !.botWButtons = wbuttons]
          /\ Asked(key) = [o EXCEPT !.keys = keys]
      BY Zenon DEF buttons, wbuttons, keys
    <2> HIDE DEF With, WWith, Asked
    <2> QED
      BY <1>1, <2>2, <2>3 DEF BotState, Orders
  <1> HIDE DEF With, WWith, Asked
  <1> USE DEF KEY_MASK_FIRE, KEY_MASK_ADS_MODE, KEY_MASK_MELEE, KEY_MASK_RELOAD,
              KEY_MASK_LEANLEFT, KEY_MASK_LEANRIGHT, KEY_MASK_PRONE, KEY_MASK_CROUCH
  <1>4. CASE Keep(id, With(KEY_MASK_MELEE), Asked("melee"))
    <2>1. KEY_MASK_MELEE \in Masks
      BY DEF Masks
    <2>2. Agree(With(KEY_MASK_MELEE), Asked("melee"))
      BY <1>1, <1>3, <2>1 DEF Agree
    <2> QED
      BY <1>3, <1>4, <2>1, <2>2, KeepsOrders
  <1>5. CASE Keep(id, With(KEY_MASK_ADS_MODE), Asked("ads"))
    <2>1. KEY_MASK_ADS_MODE \in Masks
      BY DEF Masks
    <2>2. Agree(With(KEY_MASK_ADS_MODE), Asked("ads"))
      BY <1>1, <1>3, <2>1 DEF Agree
    <2> QED
      BY <1>3, <1>5, <2>1, <2>2, KeepsOrders
  <1>6. CASE Keep(id, With(KEY_MASK_FIRE), Asked("fire"))
    <2>1. KEY_MASK_FIRE \in Masks
      BY DEF Masks
    <2>2. Agree(With(KEY_MASK_FIRE), Asked("fire"))
      BY <1>1, <1>3, <2>1 DEF Agree
    <2> QED
      BY <1>3, <1>6, <2>1, <2>2, KeepsOrders
  <1>7. CASE Keep(id, WWith(KEY_MASK_RELOAD), Asked("reload"))
    <2>1. KEY_MASK_RELOAD \in Masks
      BY DEF Masks
    <2>2. Agree(WWith(KEY_MASK_RELOAD), Asked("reload"))
      BY <1>1, <1>3, <2>1 DEF Agree
    <2> QED
      BY <1>3, <1>7, <2>1, <2>2, KeepsOrders
  <1> QED
    BY <1>2, <1>4, <1>5, <1>6, <1>7

\* Leaning to one side ends leaning to the other.
LEMMA LeanKeeps ==
    ASSUME BotsInv, NEW id \in ClientNum, NEW lean \in {"none", "left", "right"},
           gsc_bots_setlean(id, lean)
    PROVE  BotsInv' /\ moved'.bot = -1
  <1> DEFINE p == customPlayerState[id]
             o == ordered[id]
             upright == [p EXCEPT !.botWButtons = @ \ {KEY_MASK_LEANLEFT, KEY_MASK_LEANRIGHT}]
             left == [p EXCEPT !.botWButtons = @ \cup {KEY_MASK_LEANLEFT}]
             right == [p EXCEPT !.botWButtons = @ \cup {KEY_MASK_LEANRIGHT}]
             added == [o EXCEPT !.lean = @ \cup {lean}]
             none == [o EXCEPT !.lean = {}]
  <1>1. p \in BotState /\ o \in Orders /\ Agree(p, o)
    BY SlotAgrees
  <1>2. \/ lean = "none" /\ Keep(id, upright, none)
        \/ lean = "left" /\ Keep(id, left, added)
        \/ lean = "right" /\ Keep(id, right, added)
    BY Zenon DEF gsc_bots_setlean
  <1> HIDE DEF p, o
  <1> USE DEF KEY_MASK_FIRE, KEY_MASK_ADS_MODE, KEY_MASK_MELEE, KEY_MASK_RELOAD,
              KEY_MASK_LEANLEFT, KEY_MASK_LEANRIGHT, KEY_MASK_PRONE, KEY_MASK_CROUCH
  <1>3. CASE lean = "none" /\ Keep(id, upright, none)
    <2>1. upright \in BotState /\ none \in Orders /\ Agree(upright, none)
      BY <1>1 DEF Agree, BotState, Orders, Masks
    <2> QED
      BY <1>3, <2>1, KeepsOrders
  <1>4. CASE lean = "left" /\ Keep(id, left, added)
    <2>1. left \in BotState /\ added \in Orders /\ Agree(left, added)
      BY <1>1, <1>4 DEF Agree, BotState, Orders, Masks
    <2> QED
      BY <1>4, <2>1, KeepsOrders
  <1>5. CASE lean = "right" /\ Keep(id, right, added)
    <2>1. right \in BotState /\ added \in Orders /\ Agree(right, added)
      BY <1>1, <1>5 DEF Agree, BotState, Orders, Masks
    <2> QED
      BY <1>5, <2>1, KeepsOrders
  <1> QED
    BY <1>2, <1>3, <1>4, <1>5

\* A change of the weapon.
LEMMA WeaponKeeps ==
    ASSUME BotsInv, NEW id \in ClientNum, NEW weaponid \in Weapons,
           gsc_bots_switchtoweaponid(id, weaponid)
    PROVE  BotsInv' /\ moved'.bot = -1
  <1> DEFINE p == customPlayerState[id]
             o == ordered[id]
             armed == [p EXCEPT !.botWeapon = weaponid]
             order == [o EXCEPT !.weapon = weaponid]
  <1>1. p \in BotState /\ o \in Orders /\ Agree(p, o)
    BY SlotAgrees
  <1>2. Keep(id, armed, order)
    BY Zenon DEF gsc_bots_switchtoweaponid
  <1>3. weaponid \in Int
    BY BotsAssumption
  <1> HIDE DEF p, o
  <1>4. armed \in BotState /\ order \in Orders /\ Agree(armed, order)
    BY <1>1, <1>3 DEF Agree, BotState, Orders
  <1> QED
    BY <1>2, <1>4, KeepsOrders

\* Orders to move, by words or by numbers.
LEMMA MovesKeep ==
    ASSUME BotsInv, NEW id \in ClientNum, NEW fw \in Int, NEW rg \in Int,
           Forward(id, fw) \/ Right(id, rg) \/ Both(id, fw, rg)
    PROVE  BotsInv' /\ moved'.bot = -1
  <1> DEFINE p == customPlayerState[id]
             o == ordered[id]
             f == ToChar(fw)
             r == ToChar(rg)
             pf == [p EXCEPT !.botForwardMove = f]
             of == [o EXCEPT !.forward = fw]
             pr == [p EXCEPT !.botRightMove = r]
             or == [o EXCEPT !.right = rg]
             pb == [p EXCEPT !.botForwardMove = f, !.botRightMove = r]
             ob == [o EXCEPT !.forward = fw, !.right = rg]
  <1>1. p \in BotState /\ o \in Orders /\ Agree(p, o)
    BY SlotAgrees
  <1>2. Keep(id, pf, of) \/ Keep(id, pr, or) \/ Keep(id, pb, ob)
    BY Zenon DEF Forward, Right, Both
  <1>3. f \in Int /\ r \in Int /\ f = ToChar(fw) /\ r = ToChar(rg)
    BY CharOf
  <1> HIDE DEF p, o, f, r
  <1>4. /\ pf \in BotState /\ of \in Orders /\ Agree(pf, of)
        /\ pr \in BotState /\ or \in Orders /\ Agree(pr, or)
        /\ pb \in BotState /\ ob \in Orders /\ Agree(pb, ob)
    BY <1>1, <1>3 DEF Agree, BotState, Orders
  <1> HIDE DEF pf, of, pr, or, pb, ob
  <1> QED
    BY <1>2, <1>4, KeepsOrders, Zenon

\* A direction, or two numbers, of which the bytes are kept.
LEMMA WalksKeep ==
    ASSUME BotsInv, NEW id \in ClientNum,
           \/ \E dir \in {"none", "forward", "back", "right", "left"} : gsc_bots_setwalkdir(id, dir)
           \/ \E fw, rg \in WalkValues : gsc_bots_setwalkvalues(id, fw, rg)
    PROVE  BotsInv' /\ moved'.bot = -1
  <1>1. \E fw, rg \in Int : Forward(id, fw) \/ Right(id, rg) \/ Both(id, fw, rg)
    <2>1. 0 \in Int /\ 127 \in Int /\ -127 \in Int /\ WalkValues \subseteq Int
      BY BotsAssumption
    <2> QED
      BY <2>1, Zenon
         DEF gsc_bots_setwalkdir, gsc_bots_setwalkvalues, KEY_MASK_FORWARD, KEY_MASK_BACK
  <1> QED
    BY <1>1, MovesKeep

\* Every order keeps the invariant, and no bot moves in it.
LEMMA OrdersKeep ==
    ASSUME BotsInv, BotsNext,
           \A id \in ClientNum, archived \in BOOLEAN, weapon \in Weapons :
                ~custom_SV_BotUserMove(id, archived, weapon)
    PROVE  BotsInv' /\ moved'.bot = -1
  <1>1. ASSUME NEW id \in ClientNum, NewOwner(id)
        PROVE  BotsInv' /\ moved'.bot = -1
    BY <1>1 DEF NewOwner, BotsInv, NotMoved
  <1> QED
    BY <1>1, StanceKeeps, KeysKeep, LeanKeeps, WeaponKeeps, WalksKeep DEF BotsNext

\* A command made of what a slot's words hold does what was ordered.
LEMMA CommandIsOrdered ==
    ASSUME NEW p \in BotState, NEW o \in Orders, Agree(p, o), NEW cmd,
           cmd.buttons = p.botButtons, cmd.wbuttons = p.botWButtons,
           cmd.forwardmove = p.botForwardMove, cmd.rightmove = p.botRightMove,
           cmd.upmove = p.botUpMove
    PROVE  /\ ReadAsOrdered(cmd, o)
           /\ KEY_MASK_FIRE \in cmd.buttons <=> "fire" \in o.keys
           /\ KEY_MASK_MELEE \in cmd.buttons <=> "melee" \in o.keys
           /\ KEY_MASK_CROUCH \in cmd.wbuttons <=> "crouch" \in o.stance
           /\ KEY_MASK_PRONE \in cmd.wbuttons <=> "prone" \in o.stance
           /\ o.forward \in -128..127 => cmd.forwardmove = o.forward
           /\ o.right \in -128..127 => cmd.rightmove = o.right
  <1>1. o.forward \in Int /\ o.right \in Int
    BY DEF Orders
  <1>2. /\ o.forward \in -128..127 => cmd.forwardmove = o.forward
        /\ o.right \in -128..127 => cmd.rightmove = o.right
    BY <1>1, CharOf DEF Agree
  <1>3. /\ Ahead(127) /\ ~Backward(127)
        /\ ~Ahead(0) /\ ~Backward(0)
        /\ ~Ahead(-127) /\ Backward(-127)
    <2>1. \A n \in Int :
            /\ n = 127 => n % 128 = 127
            /\ n = 0 => n % 128 = 0
            /\ n = -127 => n % 128 = 1 /\ n % 2 = 1
      BY Z3
    <2>2. \A n \in Int :
            /\ n = 127 => Ahead(n) /\ ~Backward(n)
            /\ n = 0 => ~Ahead(n) /\ ~Backward(n)
            /\ n = -127 => ~Ahead(n) /\ Backward(n)
      BY <2>1 DEF Ahead, Backward
    <2>3. 127 \in Int /\ 0 \in Int /\ -127 \in Int
      OBVIOUS
    <2> QED
      BY <2>2, <2>3, Zenon
  <1>4. /\ o.forward \in {0, 127, -127} => cmd.forwardmove = o.forward
        /\ o.right \in {0, 127, -127} => cmd.rightmove = o.right
    BY <1>1, <1>2
  <1>5. /\ o.forward \in {0, 127, -127} =>
            /\ PlayerCmd_forwardButtonPressed(cmd) <=> o.forward > 0
            /\ PlayerCmd_backButtonPressed(cmd) <=> o.forward < 0
        /\ o.right \in {0, 127, -127} =>
            /\ PlayerCmd_rightButtonPressed(cmd) <=> o.right > 0
            /\ PlayerCmd_leftButtonPressed(cmd) <=> o.right < 0
    <2>1. ASSUME NEW n \in {0, 127, -127}
          PROVE  /\ Ahead(n) <=> n > 0
                 /\ Backward(n) <=> n < 0
      <3>1. 127 > 0 /\ ~(127 < 0) /\ ~(0 > 0) /\ ~(0 < 0) /\ -127 < 0 /\ ~(-127 > 0)
        OBVIOUS
      <3> QED
        <4>1. CASE n = 0
          BY <1>3, <3>1, <4>1, Zenon
        <4>2. CASE n = 127
          BY <1>3, <3>1, <4>2, Zenon
        <4>3. CASE n = -127
          BY <1>3, <3>1, <4>3, Zenon
        <4> QED
          BY <4>1, <4>2, <4>3
    <2> QED
      BY <1>4, <2>1, Zenon
         DEF PlayerCmd_forwardButtonPressed, PlayerCmd_backButtonPressed,
             PlayerCmd_rightButtonPressed, PlayerCmd_leftButtonPressed
  <1>6. /\ PlayerCmd_moveupButtonPressed(cmd) <=> "jump" \in o.stance
        /\ ~PlayerCmd_movedownButtonPressed(cmd)
    <2>1. CASE "jump" \in o.stance
      <3>1. cmd.upmove = 127
        BY <2>1 DEF Agree
      <3> QED
        BY <1>3, <2>1, <3>1, Zenon
           DEF PlayerCmd_moveupButtonPressed, PlayerCmd_movedownButtonPressed
    <2>2. CASE "jump" \notin o.stance
      <3>1. cmd.upmove = 0
        BY <2>2 DEF Agree
      <3> QED
        BY <1>3, <2>2, <3>1, Zenon
           DEF PlayerCmd_moveupButtonPressed, PlayerCmd_movedownButtonPressed
    <2> QED
      BY <2>1, <2>2
  <1>7. /\ PlayerCmd_leanLeftButtonPressed(cmd) <=> "left" \in o.lean
        /\ PlayerCmd_leanRightButtonPressed(cmd) <=> "right" \in o.lean
        /\ PlayerCmd_aimButtonPressed(cmd) <=> "ads" \in o.keys
        /\ PlayerCmd_reloadButtonPressed(cmd) <=> "reload" \in o.keys
    BY DEF Agree, PlayerCmd_leanLeftButtonPressed, PlayerCmd_leanRightButtonPressed,
           PlayerCmd_aimButtonPressed, PlayerCmd_reloadButtonPressed, KEY_MASK_ADS_MODE,
           KEY_MASK_RELOAD, KEY_MASK_LEANLEFT, KEY_MASK_LEANRIGHT
  <1>8. ReadAsOrdered(cmd, o)
    BY <1>5, <1>6, <1>7, Zenon DEF ReadAsOrdered
  <1> QED
    BY <1>2, <1>8 DEF Agree

\* In every frame a bot does what has been ordered for its slot, and nothing else.
THEOREM BotsObey == BotsSpec => BotDoesAsOrdered
  <1> DEFINE Obeys == LET cmd == moved' IN cmd.bot \in ClientNum =>
                LET order == ordered[cmd.bot] IN
                /\ order.weapon \in 1..255 => cmd.weapon = order.weapon
                /\ ~cmd.archived =>
                    /\ ReadAsOrdered(cmd, order)
                    /\ KEY_MASK_FIRE \in cmd.buttons <=> "fire" \in order.keys
                    /\ KEY_MASK_MELEE \in cmd.buttons <=> "melee" \in order.keys
                    /\ KEY_MASK_CROUCH \in cmd.wbuttons <=> "crouch" \in order.stance
                    /\ KEY_MASK_PRONE \in cmd.wbuttons <=> "prone" \in order.stance
                    /\ order.forward \in -128..127 => cmd.forwardmove = order.forward
                    /\ order.right \in -128..127 => cmd.rightmove = order.right
  <1>1. BotsInit => BotsInv
    <2> SUFFICES ASSUME BotsInit PROVE BotsInv
      OBVIOUS
    <2>1. NoOrders \in BotState /\ Unordered \in Orders
      BY DEF NoOrders, Unordered, BotState, Orders
    <2>2. ToChar(0) = 0
      BY CharOf
    <2>3. Agree(NoOrders, Unordered)
      BY <2>2 DEF Agree, NoOrders, Unordered
    <2> QED
      BY <2>1, <2>3 DEF BotsInit, BotsInv
  <1>2. ASSUME BotsInv, NEW id \in ClientNum, NEW archived \in BOOLEAN, NEW weapon \in Weapons,
               custom_SV_BotUserMove(id, archived, weapon)
        PROVE  BotsInv' /\ Obeys
    <2> DEFINE p == customPlayerState[id]
               o == ordered[id]
               cmd == moved'
    <2>1. p \in BotState /\ o \in Orders /\ Agree(p, o)
      BY <1>2, SlotAgrees
    <2>2. BotsInv'
      BY <1>2 DEF custom_SV_BotUserMove, BotsInv
    <2>3. /\ cmd.bot = id
          /\ cmd.archived = archived
          /\ cmd.weapon = (IF p.botWeapon # 0 THEN p.botWeapon ELSE weapon) % 256
          /\ ~archived =>
                /\ cmd.buttons = p.botButtons /\ cmd.wbuttons = p.botWButtons
                /\ cmd.forwardmove = p.botForwardMove /\ cmd.rightmove = p.botRightMove
                /\ cmd.upmove = p.botUpMove
      BY <1>2 DEF custom_SV_BotUserMove
    <2>4. o.weapon \in 1..255 => cmd.weapon = o.weapon
      <3>1. \A n \in 1..255 : n % 256 = n
        BY Z3
      <3> QED
        BY <2>1, <2>3, <3>1 DEF Agree
    <2> HIDE DEF p, o, cmd
    <2>5. ~cmd.archived =>
            /\ ReadAsOrdered(cmd, o)
            /\ KEY_MASK_FIRE \in cmd.buttons <=> "fire" \in o.keys
            /\ KEY_MASK_MELEE \in cmd.buttons <=> "melee" \in o.keys
            /\ KEY_MASK_CROUCH \in cmd.wbuttons <=> "crouch" \in o.stance
            /\ KEY_MASK_PRONE \in cmd.wbuttons <=> "prone" \in o.stance
            /\ o.forward \in -128..127 => cmd.forwardmove = o.forward
            /\ o.right \in -128..127 => cmd.rightmove = o.right
      BY <2>1, <2>3, CommandIsOrdered
    <2>6. Obeys
      BY <2>3, <2>4, <2>5, Zenon DEF o, cmd
    <2> QED
      BY <2>2, <2>6
  <1>3. -1 \notin ClientNum
    BY ClientNumbersAssumption DEF ClientNum
  <1>4. BotsInv /\ [BotsNext]_botvars => BotsInv' /\ [Obeys]_botvars
    <2> SUFFICES ASSUME BotsInv, [BotsNext]_botvars PROVE BotsInv' /\ [Obeys]_botvars
      OBVIOUS
    <2>1. CASE UNCHANGED botvars
      BY <2>1 DEF botvars, BotsInv
    <2>2. CASE \E id \in ClientNum, archived \in BOOLEAN, weapon \in Weapons :
                    custom_SV_BotUserMove(id, archived, weapon)
      BY <1>2, <2>2, Zenon
    <2>3. CASE BotsNext /\ \A id \in ClientNum, archived \in BOOLEAN, weapon \in Weapons :
                    ~custom_SV_BotUserMove(id, archived, weapon)
      <3>1. BotsInv' /\ moved'.bot = -1
        BY <2>3, OrdersKeep
      <3> QED
        BY <1>3, <3>1, Zenon
    <2> QED
      BY <2>1, <2>2, <2>3
  <1> QED
    BY <1>1, <1>4, PTL DEF BotsSpec, BotDoesAsOrdered

------------------------------------------------------------------------------
(* Config strings *)

\* The ring stays out of the lower half until a script sets it to 0.
RingInv ==
    /\ StringsTypeOK
    /\ ~reset => x_localized_string_index >= FirstTemporary

------------------------------------------------------------------------------
(* What the search and the ring return *)

\* The search ends at the first of its stops.
LEMMA FirstStopIsFirst ==
    ASSUME NEW str, Stops(str) # {}
    PROVE  /\ FirstStop(str) \in Stops(str)
           /\ \A j \in Stops(str) : FirstStop(str) <= j
  <1>1. Stops(str) \in SUBSET Nat
    BY ConfigStringsAssumption DEF Stops, Index
  <1>2. \E i \in Stops(str) : \A j \in Stops(str) : <<j, i>> \notin OpToRel(<, Nat)
    BY <1>1, WFMin, NatLessThanWellFounded, Zenon
  <1>3. PICK i \in Stops(str) : \A j \in Stops(str) : ~(j < i)
    BY <1>1, <1>2, Zenon DEF OpToRel
  <1>4. \A j \in Stops(str) : i <= j
    BY <1>1, <1>3
  <1> QED
    BY <1>4, Zenon DEF FirstStop

\* The ring lies within the upper half, unless it has been set to 0.
LEMMA RingInRange ==
    ASSUME RingInv
    PROVE  /\ Ring(x_localized_string_index) \in Index
           /\ ~reset => Ring(x_localized_string_index) >= FirstTemporary
  BY ConfigStringsAssumption DEF RingInv, StringsTypeOK, Ring, Index

\* A new string goes into the ring if all places are taken, and otherwise to the
\* first free one; it is not in a place before that.
LEMMA WhereNewGoes ==
    ASSUME RingInv, NEW str, ~IsThere(str)
    PROVE  /\ NewIndex(str) \in Index
           /\ Stops(str) = {} => NewIndex(str) = Ring(x_localized_string_index)
           /\ Stops(str) # {} =>
                /\ NewIndex(str) # 0
                /\ configstrings[NewIndex(str)] = NoString
                /\ \A j \in Index \ {0} : j < NewIndex(str) =>
                        configstrings[j] # str /\ configstrings[j] # NoString
  <1>1. CASE Stops(str) = {}
    BY <1>1, RingInRange DEF NewIndex
  <1>2. CASE Stops(str) # {}
    <2>1. /\ FirstStop(str) \in Stops(str)
          /\ \A j \in Stops(str) : FirstStop(str) <= j
      BY <1>2, FirstStopIsFirst
    <2>2. NewIndex(str) = FirstStop(str)
      BY <1>2 DEF NewIndex
    <2>3. configstrings[FirstStop(str)] # str
      BY <1>2 DEF IsThere
    <2>4. FirstStop(str) \in Index \ {0} /\ configstrings[FirstStop(str)] = NoString
      BY <2>1, <2>3 DEF Stops
    <2>5. ASSUME NEW j \in Index \ {0}, j < FirstStop(str)
          PROVE  configstrings[j] # str /\ configstrings[j] # NoString
      <3>1. j \notin Stops(str)
        BY <2>1, <2>4, <2>5, ConfigStringsAssumption DEF Index
      <3> QED
        BY <3>1 DEF Stops
    <2> QED
      BY <1>2, <2>2, <2>4, <2>5
  <1> QED
    BY <1>1, <1>2

------------------------------------------------------------------------------
(* The ring *)

\* The ring begins in the upper half.
LEMMA StringsInitInv == StringsInit => RingInv
  <1> SUFFICES ASSUME StringsInit PROVE RingInv
    OBVIOUS
  <1>1. configstrings \in [Index -> Localized \cup {NoString}]
    BY DEF StringsInit
  <1>2. /\ x_localized_string_index \in 0..MAX_LOCALIZED
        /\ x_localized_string_index >= FirstTemporary
    BY ConfigStringsAssumption DEF StringsInit
  <1>3. reset \in BOOLEAN /\ direct \in BOOLEAN
    BY DEF StringsInit
  <1> QED
    BY <1>1, <1>2, <1>3 DEF RingInv, StringsTypeOK

\* It stays there.
LEMMA StringsNextInv == RingInv /\ [StringsNext]_lvars => RingInv'
  <1> SUFFICES ASSUME RingInv, [StringsNext]_lvars PROVE RingInv'
    OBVIOUS
  <1>1. ASSUME NEW str \in Localized \cup {NoString}, X_LocalizedStringIndex(str)
        PROVE  RingInv'
    <2>1. CASE str = NoString \/ IsThere(str)
      BY <1>1, <2>1, RingInRange, ConfigStringsAssumption
         DEF X_LocalizedStringIndex, RingInv, StringsTypeOK, Index
    <2>2. CASE ~(str = NoString \/ IsThere(str))
      <3>1. /\ configstrings' = [configstrings EXCEPT ![NewIndex(str)] = str]
            /\ x_localized_string_index' = Ring(x_localized_string_index) + 1
            /\ UNCHANGED <<reset, direct>>
        BY <1>1, <2>2 DEF X_LocalizedStringIndex
      <3>2. configstrings' \in [Index -> Localized \cup {NoString}]
        BY <3>1 DEF RingInv, StringsTypeOK
      <3>3. /\ x_localized_string_index' \in 0..MAX_LOCALIZED
            /\ ~reset => x_localized_string_index' >= FirstTemporary
        BY <3>1, RingInRange, ConfigStringsAssumption DEF Index
      <3> QED
        BY <3>1, <3>2, <3>3 DEF RingInv, StringsTypeOK
    <2> QED
      BY <2>1, <2>2
  <1>2. ASSUME NEW str \in Localized \cup {NoString}, NEW at \in Index, PutString(at, str)
        PROVE  RingInv'
    BY <1>2 DEF PutString, RingInv, StringsTypeOK
  <1>3. ASSUME NEW str \in Localized \cup {NoString}, PutInRing(str)
        PROVE  RingInv'
    <2>1. /\ str \in Localized \cup {NoString}
          /\ configstrings \in [Index -> Localized \cup {NoString}]
          /\ x_localized_string_index \in 0..MAX_LOCALIZED
      BY DEF RingInv, StringsTypeOK
    <2>2. CASE x_localized_string_index >= MAX_LOCALIZED
      BY <1>3, <2>1, <2>2, ConfigStringsAssumption DEF PutInRing, RingInv, StringsTypeOK
    <2>3. CASE ~(x_localized_string_index >= MAX_LOCALIZED)
      BY <1>3, <2>1, <2>3, ConfigStringsAssumption DEF PutInRing, RingInv, StringsTypeOK
    <2> QED
      BY <2>2, <2>3
  <1>4. CASE NextMap
    BY <1>4 DEF NextMap, RingInv, StringsTypeOK
  <1>5. CASE UNCHANGED lvars
    BY <1>5 DEF lvars, RingInv, StringsTypeOK
  <1> QED
    BY <1>1, <1>2, <1>3, <1>4, <1>5 DEF StringsNext

\* A string with an index in the lower half keeps it, however many others come,
\* as long as no script has set the ring to 0: a new string goes to a free place
\* or into the ring, and the ring is in the upper half.
THEOREM LowerHalfIsKept == StringsSpec => LowerHalfStays
  <1> DEFINE Kept == \A i \in 1..(FirstTemporary - 1) :
            ~reset /\ configstrings[i] # NoString /\ configstrings'[i] # configstrings[i] =>
                ~ \E str \in Localized : X_LocalizedStringIndex(str) \/ PutInRing(str)
  <1>1. RingInv => Kept
    <2> SUFFICES ASSUME RingInv, NEW i \in 1..(FirstTemporary - 1), ~reset,
                        configstrings[i] # NoString,
                        configstrings'[i] # configstrings[i],
                        NEW str \in Localized,
                        X_LocalizedStringIndex(str) \/ PutInRing(str)
                 PROVE  FALSE
      OBVIOUS
    <2>1. /\ i \in Index
          /\ i < FirstTemporary
          /\ i # 0
      BY ConfigStringsAssumption DEF Index
    <2>2. x_localized_string_index >= FirstTemporary
      BY DEF RingInv
    <2>3. CASE X_LocalizedStringIndex(str)
      <3>1. /\ ~IsThere(str)
            /\ configstrings' = [configstrings EXCEPT ![NewIndex(str)] = str]
        BY <2>3 DEF X_LocalizedStringIndex
      <3>2. NewIndex(str) # i
        BY <3>1, <2>1, WhereNewGoes, RingInRange, ConfigStringsAssumption DEF Index
      <3> QED
        BY <3>1, <3>2, <2>1 DEF RingInv, StringsTypeOK
    <2>4. CASE PutInRing(str)
      BY <2>4, <2>1, <2>2, ConfigStringsAssumption
         DEF PutInRing, RingInv, StringsTypeOK, Index
    <2> QED
      BY <2>3, <2>4
  <1> QED
    BY StringsInitInv, StringsNextInv, <1>1, PTL DEF StringsSpec, LowerHalfStays

------------------------------------------------------------------------------
(* One index for each string *)

\* A string that is there is not put anywhere again.
LEMMA StringsOnceStep ==
    RingInv /\ StringsOnce /\ [StringsNext]_lvars => StringsOnce'
  <1> SUFFICES ASSUME RingInv, StringsOnce, [StringsNext]_lvars, ~direct'
               PROVE  StringsOnce'
    BY DEF StringsOnce
  <1>1. ASSUME NEW str \in Localized \cup {NoString}, X_LocalizedStringIndex(str)
        PROVE  StringsOnce'
    <2>1. CASE str = NoString \/ IsThere(str)
      BY <1>1, <2>1 DEF X_LocalizedStringIndex, StringsOnce
    <2>2. CASE ~(str = NoString \/ IsThere(str))
      <3> DEFINE k == NewIndex(str)
      <3>1. /\ configstrings' = [configstrings EXCEPT ![k] = str]
            /\ direct' = direct
            /\ str # NoString
            /\ configstrings \in [Index -> Localized \cup {NoString}]
        BY <1>1, <2>2 DEF X_LocalizedStringIndex, RingInv, StringsTypeOK
      <3>2. /\ k \in Index
            /\ Stops(str) # {} =>
                /\ k # 0
                /\ configstrings[k] = NoString
                /\ \A j \in Index \ {0} : j < k =>
                        configstrings[j] # str /\ configstrings[j] # NoString
        BY <2>2, WhereNewGoes
      <3>3. /\ \A i, j \in Index \ {0} :
                  configstrings[i] = configstrings[j] /\ configstrings[i] # NoString => i = j
            /\ \A i, j \in Index \ {0} :
                  i < j /\ configstrings[i] = NoString => configstrings[j] = NoString
        BY <3>1 DEF StringsOnce
      <3> HIDE DEF k
      <3>4. \A j \in Index \ {0} : configstrings[j] # str
        <4>1. CASE Stops(str) = {}
          BY <4>1 DEF Stops
        <4>2. CASE Stops(str) # {}
          BY <4>2, <3>1, <3>2, <3>3, ConfigStringsAssumption DEF Index
        <4> QED
          BY <4>1, <4>2
      <3>5. ASSUME NEW i \in Index \ {0}, NEW j \in Index \ {0}, i < j,
                   configstrings'[i] = NoString
            PROVE  configstrings'[j] = NoString
        <4>1. i # k /\ configstrings[i] = NoString
          BY <3>1, <3>2, <3>5
        <4>2. i \in Stops(str)
          BY <4>1 DEF Stops
        <4>3. ~(i < k)
          BY <3>2, <4>1, <4>2
        <4>4. j # k
          BY <4>3, <3>5, <3>2, ConfigStringsAssumption DEF Index
        <4> QED
          BY <4>1, <4>4, <3>1, <3>3, <3>5
      <3>6. ASSUME NEW i \in Index \ {0}, NEW j \in Index \ {0},
                   configstrings'[i] = configstrings'[j], configstrings'[i] # NoString
            PROVE  i = j
        BY <3>1, <3>2, <3>3, <3>4, <3>6
      <3> QED
        BY <3>5, <3>6 DEF StringsOnce
    <2> QED
      BY <2>1, <2>2
  <1>2. ASSUME NEW str \in Localized \cup {NoString}, NEW at \in Index, PutString(at, str)
        PROVE  StringsOnce'
    BY <1>2 DEF PutString
  <1>3. ASSUME NEW str \in Localized \cup {NoString}, PutInRing(str)
        PROVE  StringsOnce'
    BY <1>3 DEF PutInRing
  <1>4. CASE NextMap
    BY <1>4 DEF NextMap, StringsOnce
  <1>5. CASE UNCHANGED lvars
    BY <1>5 DEF lvars, StringsOnce
  <1> QED
    BY <1>1, <1>2, <1>3, <1>4, <1>5 DEF StringsNext

\* No string gets a second index while scripts leave the placing to the search,
\* because no free place ever lies before one in use.
THEOREM StringsAreOnce == StringsSpec => []StringsOnce
  <1>1. StringsInit => StringsOnce
    BY DEF StringsInit, StringsOnce
  <1> QED
    BY StringsInitInv, StringsNextInv, StringsOnceStep, <1>1, PTL DEF StringsSpec

------------------------------------------------------------------------------
(* What is kept of bots and strings.                                         *)

\* No order but that for a weapon changes the weapon that is kept.
LEMMA WeaponStays ==
    ASSUME NEW p \in BotState
    PROVE  /\ \A x : [p EXCEPT !.botUpMove = x].botWeapon = p.botWeapon
           /\ \A x : [p EXCEPT !.botButtons = x].botWeapon = p.botWeapon
           /\ \A x : [p EXCEPT !.botWButtons = x].botWeapon = p.botWeapon
           /\ \A x : [p EXCEPT !.botForwardMove = x].botWeapon = p.botWeapon
           /\ \A x : [p EXCEPT !.botRightMove = x].botWeapon = p.botWeapon
           /\ \A x, y : [p EXCEPT !.botUpMove = x, !.botWButtons = y].botWeapon = p.botWeapon
           /\ \A x, y : [p EXCEPT !.botForwardMove = x, !.botRightMove = y].botWeapon = p.botWeapon
           /\ \A x : [p EXCEPT !.botWeapon = x].botWeapon = x
  BY DEF BotState

\* What an order leaves of a slot: its weapon or another that scripts may give.
Armed(id) == \E state, order : /\ Keep(id, state, order)
                               /\ \/ state.botWeapon = customPlayerState[id].botWeapon
                                  \/ state.botWeapon \in Weapons

\* An order that leaves the weapon, or sets one there is.
LEMMA KeepArms ==
    ASSUME NEW id, NEW state, NEW order, Keep(id, state, order),
           state.botWeapon = customPlayerState[id].botWeapon \/ state.botWeapon \in Weapons
    PROVE  Armed(id)
  BY Zenon DEF Armed

\* Every order arms the bot with what there is, and every other step leaves it.
LEMMA OrdersArm ==
    ASSUME BotsInv, BotsNext
    PROVE  \/ \E id \in ClientNum : Armed(id)
           \/ customPlayerState' = customPlayerState /\ given' = given
              /\ (isBot' = isBot \/ \E id \in ClientNum : isBot' = [isBot EXCEPT ![id] = ~@])
  <1>1. PICK id \in ClientNum :
            \/ \E stance \in {"stand", "crouch", "prone", "jump"} :
                    gsc_bots_setbotstance(id, stance)
            \/ \E on \in BOOLEAN :
                \/ gsc_bots_meleeweapon(id, on)
                \/ gsc_bots_setaim(id, on)
                \/ gsc_bots_fireweapon(id, on)
                \/ gsc_bots_reloadweapon(id, on)
            \/ \E lean \in {"none", "left", "right"} : gsc_bots_setlean(id, lean)
            \/ \E weaponid \in Weapons : gsc_bots_switchtoweaponid(id, weaponid)
            \/ \E dir \in {"none", "forward", "back", "right", "left"} :
                    gsc_bots_setwalkdir(id, dir)
            \/ \E fwcount, rgcount \in WalkValues : gsc_bots_setwalkvalues(id, fwcount, rgcount)
            \/ NewOwner(id)
            \/ \E archived \in BOOLEAN, weapon \in Weapons :
                    custom_SV_BotUserMove(id, archived, weapon)
    BY Zenon DEF BotsNext
  <1> DEFINE p == customPlayerState[id]
  <1>2. p \in BotState
    BY SlotAgrees
  <1> DEFINE o == ordered[id]
             up == [p EXCEPT !.botUpMove = 0,
                             !.botWButtons = @ \ {KEY_MASK_CROUCH, KEY_MASK_PRONE}]
             jumps == [p EXCEPT !.botUpMove = 127]
             buttons(w) == [p EXCEPT !.botButtons = w]
             wbuttons(w) == [p EXCEPT !.botWButtons = w]
             armed(w) == [p EXCEPT !.botWeapon = w]
             fore(n) == [p EXCEPT !.botForwardMove = n]
             side(n) == [p EXCEPT !.botRightMove = n]
             both(n, k) == [p EXCEPT !.botForwardMove = n, !.botRightMove = k]
  <1>3. /\ up.botWeapon = p.botWeapon /\ jumps.botWeapon = p.botWeapon
        /\ \A w : buttons(w).botWeapon = p.botWeapon /\ wbuttons(w).botWeapon = p.botWeapon
        /\ \A w : armed(w).botWeapon = w
        /\ \A n : fore(n).botWeapon = p.botWeapon /\ side(n).botWeapon = p.botWeapon
        /\ \A n, k : both(n, k).botWeapon = p.botWeapon
    BY <1>2, WeaponStays
  <1>4. ASSUME NEW state, NEW order, Keep(id, state, order), state.botWeapon = p.botWeapon
        PROVE  Armed(id)
    BY <1>4, KeepArms
  <1>5. ASSUME NEW stance, gsc_bots_setbotstance(id, stance) PROVE Armed(id)
    <2>1. \/ \E order : Keep(id, up, order)
          \/ \E order : Keep(id, jumps, order)
          \/ \E w, order : Keep(id, wbuttons(w), order)
      BY <1>5, Zenon DEF gsc_bots_setbotstance
    <2> HIDE DEF Armed, up, jumps, wbuttons, p
    <2> QED
      BY <1>3, <1>4, <2>1, Zenon
  <1>6. ASSUME NEW key, NEW mask, NEW on, Button(id, key, mask, on) PROVE Armed(id)
    <2>1. \E w, order : Keep(id, buttons(w), order)
      BY <1>6, Zenon DEF Button
    <2> HIDE DEF Armed, buttons, p
    <2> QED
      BY <1>3, <1>4, <2>1, Zenon
  <1>7. ASSUME NEW on, gsc_bots_reloadweapon(id, on) PROVE Armed(id)
    <2>1. \E w, order : Keep(id, wbuttons(w), order)
      BY <1>7, Zenon DEF gsc_bots_reloadweapon
    <2> HIDE DEF Armed, wbuttons, p
    <2> QED
      BY <1>3, <1>4, <2>1, Zenon
  <1>8. ASSUME NEW lean, gsc_bots_setlean(id, lean) PROVE Armed(id)
    <2>1. \E w, order : Keep(id, wbuttons(w), order)
      BY <1>8, Zenon DEF gsc_bots_setlean
    <2> HIDE DEF Armed, wbuttons, p
    <2> QED
      BY <1>3, <1>4, <2>1, Zenon
  <1>9. ASSUME NEW weaponid \in Weapons, gsc_bots_switchtoweaponid(id, weaponid) PROVE Armed(id)
    <2>1. \E order : Keep(id, armed(weaponid), order)
      BY <1>9, Zenon DEF gsc_bots_switchtoweaponid
    <2> HIDE DEF Armed, armed, p
    <2>2. armed(weaponid).botWeapon \in Weapons
      BY <1>3, Zenon
    <2> QED
      BY <2>1, <2>2, KeepArms, Zenon
  <1>10. ASSUME NEW fw, NEW rg, Forward(id, fw) \/ Right(id, rg) \/ Both(id, fw, rg)
         PROVE  Armed(id)
    <2>1. \/ \E n, order : Keep(id, fore(n), order)
          \/ \E n, order : Keep(id, side(n), order)
          \/ \E n, k, order : Keep(id, both(n, k), order)
      BY <1>10, Zenon DEF Forward, Right, Both
    <2> HIDE DEF Armed, fore, side, both, p
    <2> QED
      BY <1>3, <1>4, <2>1, Zenon
  <1>11. ASSUME NewOwner(id)
         PROVE  customPlayerState' = customPlayerState /\ given' = given
               /\ \E e \in ClientNum : isBot' = [isBot EXCEPT ![e] = ~@]
    BY <1>11, Zenon DEF NewOwner
  <1>12. ASSUME NEW archived, NEW weapon, custom_SV_BotUserMove(id, archived, weapon)
         PROVE  customPlayerState' = customPlayerState /\ given' = given /\ isBot' = isBot
    BY <1>12, Zenon DEF custom_SV_BotUserMove
  <1> HIDE DEF Armed
  <1> QED
    BY <1>1, <1>5, <1>6, <1>7, <1>8, <1>9, <1>10, <1>11, <1>12, Zenon
       DEF gsc_bots_meleeweapon, gsc_bots_setaim, gsc_bots_fireweapon, gsc_bots_setwalkdir,
           gsc_bots_setwalkvalues

\* The bots, the orders so far, and weapons scripts may give.
ArmsInv ==
    /\ isBot \in [ClientNum -> BOOLEAN]
    /\ given \in 0..MaxOrders
    /\ \A id \in ClientNum : customPlayerState[id].botWeapon \in Weapons \cup {0}

\* A step keeps them.
LEMMA ArmsNextInv ==
    ASSUME BotsInv, ArmsInv, [BotsNext]_botvars
    PROVE  ArmsInv'
  <1>1. ASSUME customPlayerState' = customPlayerState, given' = given,
               isBot' = isBot \/ \E id \in ClientNum : isBot' = [isBot EXCEPT ![id] = ~@]
        PROVE  ArmsInv'
    BY <1>1 DEF ArmsInv
  <1>2. ASSUME NEW id \in ClientNum, Armed(id) PROVE ArmsInv'
    <2>1. PICK state, order : /\ Keep(id, state, order)
                              /\ \/ state.botWeapon = customPlayerState[id].botWeapon
                                 \/ state.botWeapon \in Weapons
      BY <1>2, Zenon DEF Armed
    <2>2. /\ given < MaxOrders /\ given' = given + 1 /\ isBot' = isBot
          /\ customPlayerState' = [customPlayerState EXCEPT ![id] = state]
      BY <2>1, Zenon DEF Keep
    <2>3. given' \in 0..MaxOrders
      BY <2>2, BotsAssumption DEF ArmsInv
    <2>4. \A e \in ClientNum : customPlayerState'[e].botWeapon \in Weapons \cup {0}
      <3> TAKE e \in ClientNum
      <3>1. CASE e = id
        <4>1. customPlayerState'[e] = state
          BY <2>2, <3>1 DEF BotsInv
        <4> QED
          BY <2>1, <3>1, <4>1 DEF ArmsInv
      <3>2. CASE e # id
        <4>1. customPlayerState'[e] = customPlayerState[e]
          BY <2>2, <3>2 DEF BotsInv
        <4> QED
          BY <4>1 DEF ArmsInv
      <3> QED
        BY <3>1, <3>2
    <2> QED
      BY <2>2, <2>3, <2>4 DEF ArmsInv
  <1>3. CASE UNCHANGED botvars
    BY <1>1, <1>3 DEF botvars
  <1>4. CASE BotsNext
    BY <1>1, <1>2, <1>4, OrdersArm, Zenon
  <1> QED
    BY <1>3, <1>4

\* What is kept of a bot fits into its words and signed bytes.
LEMMA ArmsFit == BotsInv /\ ArmsInv => BotsTypeOK
  <1> SUFFICES ASSUME BotsInv, ArmsInv PROVE BotsTypeOK
    OBVIOUS
  <1>1. ASSUME NEW id \in ClientNum
        PROVE  LET p == customPlayerState[id] IN
               /\ p.botButtons \cup p.botWButtons \subseteq Masks
               /\ {p.botForwardMove, p.botRightMove, p.botUpMove} \subseteq -128..127
               /\ p.botWeapon \in Weapons \cup {0}
    <2> DEFINE p == customPlayerState[id]
               o == ordered[id]
    <2>1. p \in BotState /\ o \in Orders /\ Agree(p, o) /\ p.botWeapon \in Weapons \cup {0}
      BY SlotAgrees DEF ArmsInv
    <2> HIDE DEF p, o
    <2>2. p.botButtons \in SUBSET Masks /\ p.botWButtons \in SUBSET Masks
      BY <2>1 DEF BotState
    <2>3. p.botForwardMove = ToChar(o.forward) /\ p.botRightMove = ToChar(o.right)
          /\ p.botUpMove \in {0, 127}
      BY <2>1 DEF Agree
    <2>4. o.forward \in Int /\ o.right \in Int
      BY <2>1 DEF Orders
    <2>5. p.botForwardMove \in -128..127 /\ p.botRightMove \in -128..127
      <3>1. \A n \in Int : ToChar(n) \in -128..127
        BY CharOf
      <3> QED
        BY <2>3, <2>4, <3>1, Zenon
    <2>6. p.botUpMove \in -128..127
      BY <2>3
    <2>7. {p.botForwardMove, p.botRightMove, p.botUpMove} \subseteq -128..127
      BY <2>5, <2>6, Zenon
    <2>8. p.botButtons \cup p.botWButtons \subseteq Masks
      BY <2>2, Zenon
    <2> QED
      BY <2>1, <2>7, <2>8 DEF p
  <1> QED
    BY <1>1, Zenon DEF ArmsInv, BotsTypeOK

\* The same for the steps in between.
LEMMA BotsStayInv == BotsInv /\ [BotsNext]_botvars => BotsInv'
  <1> SUFFICES ASSUME BotsInv, [BotsNext]_botvars PROVE BotsInv'
    OBVIOUS
  <1>1. CASE UNCHANGED botvars
    BY <1>1 DEF botvars, BotsInv
  <1>2. ASSUME NEW id \in ClientNum, NEW archived \in BOOLEAN, NEW weapon \in Weapons,
               custom_SV_BotUserMove(id, archived, weapon)
        PROVE  BotsInv'
    BY <1>2 DEF custom_SV_BotUserMove, BotsInv
  <1> QED
    BY <1>1, <1>2, OrdersKeep, Zenon

\* The start.
LEMMA BotsInitInv == BotsInit => BotsInv /\ ArmsInv
  <1> SUFFICES ASSUME BotsInit PROVE BotsInv /\ ArmsInv
    OBVIOUS
  <1>1. NoOrders \in BotState /\ Unordered \in Orders
    BY DEF NoOrders, Unordered, BotState, Orders
  <1>2. Agree(NoOrders, Unordered)
    BY CharOf DEF Agree, NoOrders, Unordered
  <1>3. customPlayerState = [id \in ClientNum |-> NoOrders]
        /\ ordered = [id \in ClientNum |-> Unordered]
    BY Zenon DEF BotsInit
  <1>4. BotsInv
    BY <1>1, <1>2, <1>3 DEF BotsInv
  <1>5. isBot \in [ClientNum -> BOOLEAN] /\ given \in 0..MaxOrders
    <2>1. isBot = [id \in ClientNum |-> TRUE] /\ given = 0
      BY Zenon DEF BotsInit
    <2> QED
      BY <2>1, BotsAssumption
  <1>6. \A id \in ClientNum : customPlayerState[id].botWeapon \in Weapons \cup {0}
    BY <1>3 DEF NoOrders
  <1> QED
    BY <1>4, <1>5, <1>6 DEF ArmsInv

\* Whatever numbers scripts order bots to walk by, what is kept of it is in a
\* signed byte, and no order sets a bit that is no key (shared.h:1039).
THEOREM BotsStayInBytes == BotsSpec => []BotsTypeOK
  <1>1. BotsInv /\ ArmsInv /\ [BotsNext]_botvars => (BotsInv /\ ArmsInv)'
    BY BotsStayInv, ArmsNextInv
  <1> QED
    BY <1>1, BotsInitInv, ArmsFit, PTL DEF BotsSpec

\* No string is ever put outside of the config strings, and the ring never goes
\* further than one behind the last of them (script.c:983).
THEOREM StringsStayInside == StringsSpec => []StringsTypeOK
  <1>1. RingInv => StringsTypeOK
    BY DEF RingInv
  <1> QED
    BY <1>1, StringsInitInv, StringsNextInv, PTL DEF StringsSpec

------------------------------------------------------------------------------
(* Packets.  What the engine holds is remembered if the master has said it,   *)
(* so that the version and the text can only be the master's.                *)

PacketsInv ==
    /\ PacketsTypeOK
    /\ sockets \in [{1, 2} -> Seq(Packet)]
    /\ received = NoPacket \/ received \in Packet
    /\ received \in Packet /\ received.from = "master" /\ Tells(received)
        => received \in masterSaid
    /\ x_master # "master" => clientversion = 0
    /\ x_master = "unset" => received = NoPacket

\* A version or a text that was said stays said.
LEMMA SaidStaysSaid ==
    ASSUME NEW S, NEW T, S \subseteq T
    PROVE  /\ {p.version : p \in S} \subseteq {p.version : p \in T}
           /\ {p.text : p \in {q \in S : q.kind = "chandelier"}}
                \subseteq {p.text : p \in {q \in T : q.kind = "chandelier"}}
  BY Zenon

\* At the start nobody has said anything.
LEMMA PacketsInitInv == PacketsInit => PacketsInv
  <1> SUFFICES ASSUME PacketsInit PROVE PacketsInv
    OBVIOUS
  <1>1. sockets = [k \in {1, 2} |-> <<>>] /\ <<>> \in Seq(Packet)
    <2>1. sockets = [k \in {1, 2} |-> <<>>]
      BY Zenon DEF PacketsInit
    <2> QED
      BY <2>1
  <1>2. /\ sockets \in [{1, 2} -> Seq(Packet)]
        /\ \A k \in {1, 2} : sockets[k] = <<>>
    BY <1>1
  <1>3. \A k \in {1, 2} : sockets[k] \in Seq(Packet) /\ Len(sockets[k]) <= MaxQueued
    <2>1. Len(<<>>) <= MaxQueued
      BY PacketsAssumption
    <2> QED
      BY <1>1, <1>2, <2>1, Zenon
  <1>4. /\ x_master = "unset" /\ received = NoPacket /\ polling = TRUE /\ clientversion = 0
        /\ x_print_connect_message = ""
    BY DEF PacketsInit
  <1>5. NoPacket \in Packet => ~Tells(NoPacket)
    BY DEF Tells, NoPacket
  <1> QED
    BY <1>2, <1>3, <1>4, <1>5 DEF PacketsInv, PacketsTypeOK, PlayerCmd_IsUsingClient

\* A packet is not the lack of one.
LEMMA PacketIsOne ==
    /\ \A p \in Packet : p.kind \in Kinds /\ p.kind # "nothing" /\ p # NoPacket
                         /\ p.from \in {"master", "other"}
    /\ NoPacket.kind = "nothing"
  BY PacketsAssumption DEF Kinds, NoPacket

\* A socket with a packet less, and with one more.
LEMMA SocketOf ==
    ASSUME NEW s \in Seq(Packet)
    PROVE  /\ s # <<>> => /\ Head(s) \in Packet /\ Tail(s) \in Seq(Packet)
                          /\ Len(s) \in Nat /\ Len(Tail(s)) = Len(s) - 1
                          /\ \A n \in Nat : Len(s) <= n => Len(Tail(s)) <= n
           /\ \A p \in Packet : Append(s, p) \in Seq(Packet) /\ Len(Append(s, p)) = Len(s) + 1
           /\ Len(s) \in Nat
  OBVIOUS

\* The packet Sys_GetPacket takes from a socket.
LEMMA GetKeeps ==
    ASSUME PacketsInv, Sys_GetPacket
    PROVE  PacketsInv'
  <1> DEFINE has(k) == k \in OpenSockets /\ sockets[k] # <<>>
             first == has(1) /\ Good(Head(sockets[1]))
             second == ~first /\ has(2) /\ Good(Head(sockets[2]))
             p == IF first THEN Head(sockets[1]) ELSE Head(sockets[2])
             takes(k) == has(k) /\ (k = 1 \/ ~first)
  <1>1. /\ x_master \in {"master", "nobody"} /\ received.kind = "nothing"
        /\ sockets' = [k \in {1, 2} |-> IF takes(k) THEN Tail(sockets[k]) ELSE sockets[k]]
        /\ UNCHANGED <<x_master, x_print_connect_message>>
    BY DEF Sys_GetPacket, PacketsInv, PacketsTypeOK
  <1>2. IF first \/ second
        THEN /\ SV_NocPacket(p)
             /\ received' = p
             /\ polling' = TRUE
             /\ masterSaid' = masterSaid \cup {q \in {p} : q.from = "master" /\ Tells(q)}
        ELSE polling' = FALSE /\ UNCHANGED <<clientversion, received, masterSaid>>
    BY Zenon DEF Sys_GetPacket
  <1>3. /\ \A k \in {1, 2} : sockets[k] \in Seq(Packet) /\ Len(sockets[k]) <= MaxQueued
        /\ clientversion \in {0} \cup {q.version : q \in masterSaid}
        /\ x_print_connect_message \in
            {""} \cup {q.text : q \in {r \in masterSaid : r.kind = "chandelier"}}
        /\ x_master # "master" => clientversion = 0
    BY DEF PacketsInv, PacketsTypeOK
  <1>4. sockets' \in [{1, 2} -> Seq(Packet)]
    <2>1. \A k \in {1, 2} : (IF takes(k) THEN Tail(sockets[k]) ELSE sockets[k]) \in Seq(Packet)
      <3> TAKE k \in {1, 2}
      <3>1. takes(k) => sockets[k] # <<>>
        OBVIOUS
      <3> QED
        BY <1>3, <3>1, SocketOf, Zenon
    <2> HIDE DEF takes
    <2> QED
      BY <1>1, <2>1
  <1>5. received = NoPacket
    BY <1>1, PacketIsOne DEF PacketsInv
  <1>6. \A k \in {1, 2} : sockets'[k] \in Seq(Packet) /\ Len(sockets'[k]) <= MaxQueued
    <2> TAKE k \in {1, 2}
    <2>1. sockets'[k] = IF takes(k) THEN Tail(sockets[k]) ELSE sockets[k]
      BY <1>1
    <2>2. CASE takes(k)
      <3>1. sockets[k] # <<>>
        BY <2>2
      <3>2. sockets'[k] = Tail(sockets[k])
        BY <2>1, <2>2, Zenon
      <3>3. /\ Tail(sockets[k]) \in Seq(Packet)
            /\ \A n \in Nat : Len(sockets[k]) <= n => Len(Tail(sockets[k])) <= n
        BY <1>3, <3>1, SocketOf, Zenon
      <3>4. Len(Tail(sockets[k])) <= MaxQueued
        BY <1>3, <3>3, PacketsAssumption, Zenon
      <3> QED
        BY <3>2, <3>3, <3>4, Zenon
    <2>3. CASE ~takes(k)
      BY <1>3, <2>1, <2>3, Zenon
    <2> QED
      BY <2>2, <2>3
  <1>7. CASE first \/ second
    <2>1. p \in Packet /\ Good(p)
      <3>1. CASE first
        <4>1. p = Head(sockets[1]) /\ sockets[1] # <<>> /\ Good(Head(sockets[1]))
          BY <3>1, Zenon
        <4>2. Head(sockets[1]) \in Packet
          BY <1>3, <4>1, SocketOf
        <4> QED
          BY <4>1, <4>2, Zenon
      <3>2. CASE second
        <4>1. p = Head(sockets[2]) /\ sockets[2] # <<>> /\ Good(Head(sockets[2]))
          BY <3>2, Zenon
        <4>2. Head(sockets[2]) \in Packet
          BY <1>3, <4>1, SocketOf
        <4> QED
          BY <4>1, <4>2, Zenon
      <3> QED
        BY <1>7, <3>1, <3>2, Zenon
    <2>2. /\ SV_NocPacket(p) /\ received' = p /\ polling' = TRUE
          /\ masterSaid' = masterSaid \cup {q \in {p} : q.from = "master" /\ Tells(q)}
      BY <1>2, <1>7, Zenon
    <2> HIDE DEF first, second, p
    <2>3. masterSaid \subseteq masterSaid' /\ (p.from = "master" /\ Tells(p) => p \in masterSaid')
      BY <2>2
    <2>4. x_print_connect_message' \in
            {""} \cup {q.text : q \in {r \in masterSaid' : r.kind = "chandelier"}}
      BY <1>1, <1>3, <2>3, SaidStaysSaid, Zenon
    <2>5. clientversion \in {0} \cup {q.version : q \in masterSaid'}
      BY <1>3, <2>3, SaidStaysSaid, Zenon
    <2>6. /\ clientversion' \in {0} \cup {q.version : q \in masterSaid'}
          /\ x_master' # "master" => clientversion' = 0
      <3>1. CASE p.kind = "clientversionresponse" /\ p.from = x_master
        <4>1. clientversion' = p.version
          BY <2>2, <3>1 DEF SV_NocPacket
        <4>2. x_master = "master" /\ Tells(p)
          BY <1>1, <2>1, <3>1, PacketIsOne DEF Tells
        <4> QED
          BY <1>1, <2>3, <3>1, <4>1, <4>2
      <3>2. CASE ~(p.kind = "clientversionresponse" /\ p.from = x_master)
        <4>1. clientversion' = clientversion
          BY <2>2, <3>2 DEF SV_NocPacket
        <4> QED
          BY <1>1, <1>3, <2>5, <4>1, Zenon
      <3> QED
        BY <3>1, <3>2
    <2>7. x_master' \in {"unset", "master", "nobody"} /\ x_master' # "unset"
      BY <1>1
    <2> QED
      BY <1>6, <1>4, <2>1, <2>2, <2>3, <2>4, <2>6, <2>7 DEF PacketsInv, PacketsTypeOK,
         PlayerCmd_IsUsingClient
  <1>8. CASE ~(first \/ second)
    <2>1. polling' = FALSE /\ UNCHANGED <<clientversion, received, masterSaid>>
      BY <1>2, <1>8, Zenon
    <2> HIDE DEF first, second
    <2> QED
      BY <1>1, <1>3, <1>5, <1>6, <1>4, <2>1 DEF PacketsInv, PacketsTypeOK, PlayerCmd_IsUsingClient
  <1> QED
    BY <1>7, <1>8

\* What the engine is handed.
LEMMA HandedKeeps ==
    ASSUME PacketsInv, SV_ConnectionlessPacket
    PROVE  PacketsInv'
  <1>1. /\ received.kind # "nothing" /\ received' = NoPacket
        /\ UNCHANGED <<x_master, sockets, polling, masterSaid>>
        /\ IF received.kind = "chandelier" THEN SVC_Chandelier(received)
           ELSE UNCHANGED <<clientversion, x_print_connect_message>>
    BY DEF SV_ConnectionlessPacket
  <1>2. received \in Packet /\ x_master # "unset"
    BY <1>1, PacketIsOne DEF PacketsInv
  <1>3. CASE received.kind = "chandelier" /\ received.from = x_master
    <2>1. /\ clientversion' = received.version
          /\ x_print_connect_message' = IF received.text = "" THEN x_print_connect_message
                                        ELSE received.text
      BY <1>1, <1>3 DEF SVC_Chandelier
    <2>2. x_master = "master" /\ received \in masterSaid
      BY <1>2, <1>3, PacketIsOne DEF PacketsInv, PacketsTypeOK, Tells
    <2>3. clientversion' \in {0} \cup {p.version : p \in masterSaid}
      BY <2>1, <2>2
    <2>4. x_print_connect_message' \in
            {""} \cup {p.text : p \in {q \in masterSaid : q.kind = "chandelier"}}
      BY <1>3, <2>1, <2>2 DEF PacketsInv, PacketsTypeOK
    <2> QED
      BY <1>1, <2>2, <2>3, <2>4, PacketIsOne DEF PacketsInv, PacketsTypeOK
  <1>4. CASE ~(received.kind = "chandelier" /\ received.from = x_master)
    <2>1. UNCHANGED <<clientversion, x_print_connect_message>>
      BY <1>1, <1>4 DEF SVC_Chandelier
    <2> QED
      BY <1>1, <2>1, PacketIsOne DEF PacketsInv, PacketsTypeOK, PlayerCmd_IsUsingClient
  <1> QED
    BY <1>3, <1>4

\* Every step.
LEMMA PacketsNextInv == PacketsInv /\ [PacketsNext]_packetvars => PacketsInv'
  <1> SUFFICES ASSUME PacketsInv, [PacketsNext]_packetvars PROVE PacketsInv'
    OBVIOUS
  <1>1. ASSUME NEW resolved \in BOOLEAN, SV_Init(resolved) PROVE PacketsInv'
    BY <1>1, PacketIsOne DEF SV_Init, PacketsInv, PacketsTypeOK, PlayerCmd_IsUsingClient
  <1>2. ASSUME NEW k \in OpenSockets, NEW p \in Packet, Arrives(k, p) PROVE PacketsInv'
    <2>1. /\ sockets' = [sockets EXCEPT ![k] = Append(@, p)] /\ Len(sockets[k]) < MaxQueued
          /\ UNCHANGED <<x_master, received, polling, clientversion, x_print_connect_message,
                         masterSaid>>
      BY <1>2 DEF Arrives
    <2>2. \A j \in {1, 2} : sockets'[j] \in Seq(Packet) /\ Len(sockets'[j]) <= MaxQueued
      <3> TAKE j \in {1, 2}
      <3>1. /\ k \in {1, 2} /\ sockets \in [{1, 2} -> Seq(Packet)]
            /\ sockets[j] \in Seq(Packet) /\ Len(sockets[j]) <= MaxQueued
        BY PacketsAssumption DEF PacketsInv, PacketsTypeOK
      <3>2. CASE j = k
        <4>1. sockets'[j] = Append(sockets[j], p) /\ Len(sockets[j]) < MaxQueued
          BY <2>1, <3>1, <3>2
        <4>2. /\ Append(sockets[j], p) \in Seq(Packet) /\ Len(sockets[j]) \in Nat
              /\ Len(Append(sockets[j], p)) = Len(sockets[j]) + 1
          BY <3>1, SocketOf, Zenon
        <4>3. Len(sockets[j]) + 1 <= MaxQueued
          BY <4>1, <4>2, PacketsAssumption
        <4> QED
          BY <4>1, <4>2, <4>3, Zenon
      <3>3. CASE j # k
        BY <2>1, <3>1, <3>3
      <3> QED
        BY <3>2, <3>3
    <2>3. sockets' \in [{1, 2} -> Seq(Packet)]
      <3>1. k \in {1, 2} /\ sockets \in [{1, 2} -> Seq(Packet)]
        BY PacketsAssumption DEF PacketsInv
      <3>2. sockets' = [j \in {1, 2} |-> sockets'[j]]
        BY <2>1, <3>1
      <3> QED
        BY <2>2, <3>2
    <2> QED
      BY <2>1, <2>2, <2>3 DEF PacketsInv, PacketsTypeOK, PlayerCmd_IsUsingClient
  <1>3. CASE NextFrame
    BY <1>3 DEF NextFrame, PacketsInv, PacketsTypeOK, PlayerCmd_IsUsingClient
  <1>4. CASE UNCHANGED packetvars
    BY <1>4 DEF packetvars, PacketsInv, PacketsTypeOK, PlayerCmd_IsUsingClient
  <1> QED
    BY <1>1, <1>2, <1>3, <1>4, GetKeeps, HandedKeeps DEF PacketsNext

\* Whoever sends what, and in whatever order packets and errors come from two
\* sockets: the newest version and the text for players are the master's
\* (sv_main.c:167, :415), and nothing that is no good reaches the engine.
THEOREM TheMasterIsHeard == PacketsSpec => []PacketsTypeOK
  <1>1. PacketsInv => PacketsTypeOK
    BY DEF PacketsInv
  <1> QED
    BY <1>1, PacketsInitInv, PacketsNextInv, PTL DEF PacketsSpec

------------------------------------------------------------------------------
(* Files.  What is kept for a stream fits into the file behind the stream's   *)
(* place, and a stream is in the table exactly while its file is open.        *)

Content == Written \cup {Hole}

Stream == [file : File, mode : {"r", "w", "a"}, place : Nat, kept : Seq(Written)]

\* A stream of a file there is.
StreamOK(s, names) ==
    /\ s \in Stream
    /\ s.file \in names
    /\ s.mode = "r" => s.kept = <<>> /\ s.place = 0
    /\ s.place + Len(s.kept) <= MaxTexts

FilesInv ==
    /\ DOMAIN disk \subseteq File
    /\ disk \in [DOMAIN disk -> Seq(Content)]
    /\ streams \in [OpenStreams -> Stream]
    /\ OpenStreams \subseteq StreamNumbers
    /\ leaked \in Nat
    /\ FilesOpen <= MaxOpen
    /\ \A n \in OpenStreams : StreamOK(streams[n], DOMAIN disk)
    /\ failed \in BOOLEAN
    /\ crashed => failed

\* The greater and the smaller of two numbers.
LEMMA OfTwo ==
    ASSUME NEW a \in Int, NEW b \in Int
    PROVE  /\ Max({a, b}) \in Int /\ Max({a, b}) >= a /\ Max({a, b}) >= b
           /\ Min({a, b}) \in {a, b} /\ Min({a, b}) <= a /\ Min({a, b}) <= b
  <1>1. \E x \in {a, b} : \A y \in {a, b} : x >= y
    OBVIOUS
  <1>2. \E x \in {a, b} : \A y \in {a, b} : x =< y
    OBVIOUS
  <1>3. Max({a, b}) \in {a, b} /\ \A y \in {a, b} : Max({a, b}) >= y
    BY <1>1, Zenon DEF Max
  <1>4. Min({a, b}) \in {a, b} /\ \A y \in {a, b} : Min({a, b}) =< y
    BY <1>2, Zenon DEF Min
  <1> QED
    BY <1>3, <1>4

\* Writing what is kept leaves a file of texts, and the others as they are.
LEMMA FlushedIs ==
    ASSUME FilesInv, NEW s, StreamOK(s, DOMAIN disk)
    PROVE  /\ DOMAIN Flushed(s) = DOMAIN disk
           /\ Flushed(s) \in [DOMAIN disk -> Seq(Content)]
  <1> DEFINE old == disk[s.file]
             at == IF s.mode = "a" THEN Len(old) ELSE s.place
             behind == at + Len(s.kept)
             front == SubSeq(old, 1, Min({at, Len(old)}))
             gap == [i \in 1..(at - Len(old)) |-> Hole]
             rest == SubSeq(old, behind + 1, Len(old))
  <1>1. /\ s.file \in DOMAIN disk /\ s.place \in Nat /\ s.kept \in Seq(Written)
        /\ disk \in [DOMAIN disk -> Seq(Content)]
    BY DEF StreamOK, Stream, FilesInv
  <1>2. Flushed(s) = [disk EXCEPT ![s.file] = front \o gap \o s.kept \o rest]
    BY DEF Flushed
  <1>3. old \in Seq(Content)
    BY <1>1
  <1>4. s.kept \in Seq(Content) /\ Len(s.kept) \in Nat
    BY <1>1 DEF Content
  <1> HIDE DEF old
  <1>5. Len(old) \in Nat /\ \A i \in 1..Len(old) : old[i] \in Content
    BY <1>3
  <1>6. at \in Nat
    BY <1>1, <1>5
  <1> HIDE DEF at
  <1>7. Min({at, Len(old)}) \in Nat /\ Min({at, Len(old)}) <= Len(old)
    <2>1. at \in Int /\ Len(old) \in Int
      BY <1>5, <1>6
    <2>2. Min({at, Len(old)}) \in {at, Len(old)} /\ Min({at, Len(old)}) <= Len(old)
      BY <2>1, OfTwo, Zenon
    <2> QED
      BY <1>5, <1>6, <2>2
  <1>8. front \in Seq(Content)
    <2> DEFINE m == Min({at, Len(old)})
    <2>1. m \in Nat /\ m <= Len(old)
      BY <1>7
    <2> HIDE DEF m
    <2>2. \A i \in 1..m : old[i] \in Content
      BY <1>5, <2>1
    <2>3. SubSeq(old, 1, m) \in Seq(Content)
      BY <2>1, <2>2, SubSeqProperties
    <2> QED
      BY <2>3 DEF m
  <1>9. behind \in Nat
    BY <1>4, <1>6
  <1> HIDE DEF behind, front
  <1>10. rest \in Seq(Content)
    <2>1. \A i \in (behind + 1)..Len(old) : old[i] \in Content
      BY <1>5, <1>9
    <2>2. behind + 1 \in Int /\ Len(old) \in Int
      BY <1>5, <1>9
    <2> QED
      BY <2>1, <2>2, SubSeqProperties
  <1>11. gap \in Seq(Content)
    <2> DEFINE n == at - Len(old)
    <2>1. n \in Int
      BY <1>5, <1>6
    <2>2. Hole \in Content
      BY DEF Content
    <2> HIDE DEF n
    <2>3. [i \in 1..n |-> Hole] \in Seq(Content)
      <3>1. CASE n \in Nat
        BY <2>2, <3>1
      <3>2. CASE n \notin Nat
        <4>1. 1..n = 1..0
          BY <2>1, <3>2
        <4>2. [i \in 1..0 |-> Hole] \in Seq(Content)
          BY <2>2
        <4> QED
          BY <4>1, <4>2, Zenon
      <3> QED
        BY <3>1, <3>2
    <2> QED
      BY <2>3 DEF n
  <1> HIDE DEF gap, rest
  <1>12. front \o gap \o s.kept \o rest \in Seq(Content)
    BY <1>4, <1>8, <1>10, <1>11
  <1> QED
    BY <1>1, <1>2, <1>12

\* The files that are open.
LEMMA OpenFinite ==
    ASSUME FilesInv
    PROVE  /\ IsFiniteSet(OpenStreams) /\ Cardinality(OpenStreams) \in Nat
           /\ MaxOpen \in Nat /\ leaked \in Nat
           /\ IsFiniteSet(StreamNumbers) /\ Cardinality(StreamNumbers) = MaxOpen
  <1>1. MaxOpen \in Nat /\ leaked \in Nat /\ OpenStreams \subseteq StreamNumbers
    BY FilesAssumption DEF FilesInv
  <1>2. IsFiniteSet(1..MaxOpen) /\ Cardinality(1..MaxOpen) = MaxOpen
    BY <1>1, FS_Interval
  <1> HIDE DEF OpenStreams
  <1> QED
    BY <1>1, <1>2, FS_Subset, FS_CardinalityType DEF StreamNumbers

\* A step that changes one stream at most, and no more files are open.
LEMMA StreamKeeps ==
    ASSUME FilesInv, NEW n \in OpenStreams, NEW place \in Nat, NEW kept \in Seq(Written),
           streams' = [streams EXCEPT ![n].place = place, ![n].kept = kept],
           streams[n].mode = "r" => kept = <<>> /\ place = 0,
           place + Len(kept) <= MaxTexts,
           DOMAIN disk' = DOMAIN disk, disk' \in [DOMAIN disk -> Seq(Content)],
           UNCHANGED <<leaked, failed, crashed>>
    PROVE  FilesInv'
  <1> DEFINE s == streams[n]
             t == [s EXCEPT !.place = place, !.kept = kept]
  <1>1. StreamOK(s, DOMAIN disk) /\ streams \in [OpenStreams -> Stream]
    BY DEF FilesInv
  <1>2. streams' = [streams EXCEPT ![n] = t]
    BY <1>1
  <1>3. t \in Stream /\ t.file = s.file /\ t.mode = s.mode /\ t.place = place /\ t.kept = kept
    BY <1>1 DEF StreamOK, Stream
  <1> HIDE DEF t
  <1>4. StreamOK(t, DOMAIN disk)
    BY <1>1, <1>3 DEF StreamOK
  <1>5. OpenStreams' = OpenStreams
    BY <1>1, <1>2 DEF OpenStreams
  <1>6. streams' \in [OpenStreams -> Stream]
    BY <1>1, <1>2, <1>3
  <1>7. \A m \in OpenStreams : StreamOK(streams'[m], DOMAIN disk)
    <2> TAKE m \in OpenStreams
    <2>1. CASE m = n
      <3>1. streams'[m] = t
        BY <1>1, <1>2, <2>1
      <3> QED
        BY <1>4, <3>1
    <2>2. CASE m # n
      <3>1. streams'[m] = streams[m]
        BY <1>1, <1>2, <2>2
      <3> QED
        BY <3>1 DEF FilesInv
    <2> QED
      BY <2>1, <2>2
  <1>8. FilesOpen' = FilesOpen
    BY <1>5, Zenon DEF FilesOpen
  <1> HIDE DEF OpenStreams, FilesOpen, StreamNumbers, s
  <1> QED
    BY <1>5, <1>6, <1>7, <1>8 DEF FilesInv, StreamNumbers

\* There is a number left for a stream as long as another file may be open.
LEMMA FreeStream ==
    ASSUME FilesInv, FilesOpen < MaxOpen
    PROVE  Min(StreamNumbers \ OpenStreams) \in StreamNumbers \ OpenStreams
  <1> DEFINE free == StreamNumbers \ OpenStreams
  <1>1. free # {}
    <2> SUFFICES ASSUME free = {} PROVE FALSE
      OBVIOUS
    <2>1. OpenStreams = StreamNumbers
      BY DEF FilesInv
    <2> HIDE DEF OpenStreams, StreamNumbers
    <2> QED
      BY <2>1, OpenFinite DEF FilesOpen
  <1>2. free \in SUBSET Nat
    BY FilesAssumption DEF StreamNumbers
  <1> HIDE DEF free
  <1>3. PICK i \in free : \A j \in free : <<j, i>> \notin OpToRel(<, Nat)
    BY <1>1, <1>2, WFMin, NatLessThanWellFounded, Zenon
  <1>4. \A j \in free : ~(j < i)
    BY <1>2, <1>3, Zenon DEF OpToRel
  <1>5. \A j \in free : i =< j
    BY <1>2, <1>4
  <1> QED
    BY <1>5, Zenon DEF Min, free

\* fopen.
LEMMA OpenKeeps ==
    ASSUME FilesInv, NEW name \in File, NEW mode \in {"r", "w", "a"}, GScr_fopen(name, mode)
    PROVE  FilesInv'
  <1> DEFINE n == Min(StreamNumbers \ OpenStreams)
             s == [file |-> name, mode |-> mode, place |-> 0, kept |-> <<>>]
             opens == FilesOpen < MaxOpen /\ (mode # "r" \/ name \in DOMAIN disk)
  <1>1. CASE opens
    <2>1. /\ streams' = Stored(streams, n, s)
          /\ disk' = IF mode = "w" \/ name \notin DOMAIN disk
                     THEN Stored(disk, name, <<>>) ELSE disk
          /\ UNCHANGED <<failed, leaked, crashed>>
      BY <1>1, Zenon DEF GScr_fopen
    <2>2. n \in StreamNumbers /\ n \notin OpenStreams /\ FilesOpen < MaxOpen
      BY <1>1, FreeStream, Zenon
    <2> HIDE DEF n, opens
    <2>3. s \in Stream /\ s.file = name /\ s.kept = <<>> /\ s.place = 0
      <3>1. <<>> \in Seq(Written)
        OBVIOUS
      <3> QED
        BY <3>1 DEF Stream
    <2> HIDE DEF s
    <2>4. /\ DOMAIN streams' = {n} \cup OpenStreams /\ streams'[n] = s
          /\ \A m \in OpenStreams : m # n => streams'[m] = streams[m]
          /\ streams' = [m \in {n} \cup OpenStreams |-> streams'[m]]
      BY <2>1 DEF Stored, OpenStreams
    <2>5. /\ DOMAIN disk' = {name} \cup DOMAIN disk
          /\ disk' \in [DOMAIN disk' -> Seq(Content)]
      <3>0. name \in DOMAIN disk \/ mode # "r"
        BY <1>1 DEF opens
      <3>1. disk \in [DOMAIN disk -> Seq(Content)] /\ <<>> \in Seq(Content)
        BY DEF FilesInv
      <3>2. CASE mode = "w" \/ name \notin DOMAIN disk
        <4> DEFINE made == Stored(disk, name, <<>>)
        <4>1. /\ DOMAIN made = {name} \cup DOMAIN disk /\ made[name] = <<>>
              /\ \A x \in DOMAIN disk : x # name => made[x] = disk[x]
              /\ made = [x \in {name} \cup DOMAIN disk |-> made[x]]
          BY DEF Stored
        <4>2. disk' = made
          BY <2>1, <3>2, Zenon
        <4> HIDE DEF made
        <4>3. \A x \in {name} \cup DOMAIN disk : made[x] \in Seq(Content)
          BY <3>1, <4>1
        <4>4. made \in [{name} \cup DOMAIN disk -> Seq(Content)]
          BY <4>1, <4>3
        <4> QED
          BY <4>1, <4>2, <4>4, Zenon
      <3>3. CASE ~(mode = "w" \/ name \notin DOMAIN disk)
        <4>1. disk' = disk
          BY <2>1, <3>3, Zenon
        <4> QED
          BY <3>1, <3>3, <4>1
      <3> QED
        BY <3>2, <3>3
    <2>6. /\ Cardinality({n} \cup OpenStreams) = Cardinality(OpenStreams) + 1
          /\ Cardinality(OpenStreams) \in Nat
      <3> HIDE DEF OpenStreams
      <3>1. IsFiniteSet(OpenStreams) /\ n \notin OpenStreams
        BY <2>2, OpenFinite
      <3>2. {n} \cup OpenStreams = OpenStreams \cup {n}
        OBVIOUS
      <3> QED
        BY <3>1, <3>2, FS_AddElement, FS_CardinalityType
    <2>7. FilesOpen' <= MaxOpen
      <3>1. /\ FilesOpen' = Cardinality({n} \cup OpenStreams) + leaked
            /\ FilesOpen = Cardinality(OpenStreams) + leaked
        BY <2>1, <2>4, Zenon DEF FilesOpen, OpenStreams
      <3> QED
        BY <2>2, <2>6, <3>1, OpenFinite
    <2>8. \A m \in {n} \cup OpenStreams :
              streams'[m] \in Stream /\ StreamOK(streams'[m], DOMAIN disk')
      <3> TAKE m \in {n} \cup OpenStreams
      <3>1. CASE m = n
        <4>1. StreamOK(s, DOMAIN disk')
          BY <2>3, <2>5, FilesAssumption DEF StreamOK
        <4> QED
          BY <2>3, <2>4, <3>1, <4>1
      <3>2. CASE m # n
        <4>1. m \in OpenStreams /\ streams'[m] = streams[m]
          BY <2>4, <3>2
        <4>2. StreamOK(streams[m], DOMAIN disk) /\ DOMAIN disk \subseteq DOMAIN disk'
          BY <2>5, <4>1 DEF FilesInv
        <4> QED
          BY <4>1, <4>2 DEF StreamOK
      <3> QED
        BY <3>1, <3>2
    <2>9. OpenStreams' = {n} \cup OpenStreams
      BY <2>4 DEF OpenStreams
    <2>10. streams' \in [{n} \cup OpenStreams -> Stream]
      BY <2>4, <2>8
    <2>11. /\ {n} \cup OpenStreams \subseteq StreamNumbers /\ leaked \in Nat
           /\ DOMAIN disk \subseteq File /\ failed \in BOOLEAN /\ (crashed => failed)
      BY <2>2 DEF FilesInv
    <2>12. DOMAIN disk' \subseteq File
      BY <2>5, <2>11
    <2> HIDE DEF OpenStreams, FilesOpen, StreamNumbers
    <2> QED
      BY <2>1, <2>5, <2>7, <2>8, <2>9, <2>10, <2>11, <2>12 DEF FilesInv, StreamNumbers
  <1>2. CASE ~opens
    <2>1. failed' = TRUE /\ UNCHANGED <<streams, disk, leaked, crashed>>
      BY <1>2, Zenon DEF GScr_fopen
    <2> HIDE DEF n, s, opens
    <2> QED
      BY <2>1 DEF FilesInv, FilesOpen, OpenStreams, StreamNumbers
  <1> QED
    BY <1>1, <1>2

\* fsize, which leaves the file open.
LEMMA SizeKeeps ==
    ASSUME FilesInv, NEW name \in File, GScr_fsize(name)
    PROVE  FilesInv'
  <1>1. /\ leaked' = IF CanOpen(name) THEN leaked + 1 ELSE leaked
        /\ UNCHANGED <<disk, streams, failed, crashed>>
    BY Zenon DEF GScr_fsize
  <1>2. /\ FilesOpen' = Cardinality(OpenStreams) + leaked'
        /\ FilesOpen = Cardinality(OpenStreams) + leaked
    BY <1>1 DEF FilesOpen, OpenStreams
  <1>3. CanOpen(name) => FilesOpen < MaxOpen
    BY DEF CanOpen
  <1>4. leaked' \in Nat /\ FilesOpen' <= MaxOpen
    BY <1>1, <1>2, <1>3, OpenFinite DEF FilesInv
  <1> QED
    BY <1>1, <1>4 DEF FilesInv, OpenStreams, StreamNumbers

\* The functions with a stream.
LEMMA StreamStepsKeep ==
    ASSUME FilesInv, NEW n \in OpenStreams,
           \/ \E more \in BOOLEAN : GScr_fread(n, more)
           \/ \E text \in Written : GScr_fwrite(n, text)
           \/ Flush(n)
    PROVE  FilesInv'
  <1> DEFINE s == streams[n]
  <1>1. /\ StreamOK(s, DOMAIN disk) /\ s.kept \in Seq(Written) /\ s.place \in Nat
        /\ MaxTexts \in Nat /\ disk \in [DOMAIN disk -> Seq(Content)] /\ s.file \in DOMAIN disk
        /\ s.place + Len(s.kept) <= MaxTexts /\ (s.mode = "r" => s.kept = <<>> /\ s.place = 0)
    BY FilesAssumption DEF FilesInv, StreamOK, Stream
  <1>2. DOMAIN Flushed(s) = DOMAIN disk /\ Flushed(s) \in [DOMAIN disk -> Seq(Content)]
    BY <1>1, FlushedIs
  <1>3. <<>> \in Seq(Written) /\ Len(<<>>) = 0 /\ Len(s.kept) \in Nat
    <2>1. \A t \in Seq(Written) : Len(t) \in Nat
      OBVIOUS
    <2> QED
      BY <1>1, <2>1
  <1>4. ASSUME NEW more \in BOOLEAN, GScr_fread(n, more) PROVE FilesInv'
    <2>1. /\ disk' = Flushed(s)
          /\ streams' = [streams EXCEPT ![n].place = 0, ![n].kept = <<>>]
          /\ UNCHANGED <<leaked, failed, crashed>>
      BY <1>4, Zenon DEF GScr_fread
    <2>2. 0 \in Nat /\ 0 + Len(<<>>) <= MaxTexts
      BY <1>1
    <2> HIDE DEF s
    <2> QED
      BY <1>2, <1>3, <2>1, <2>2, StreamKeeps, Zenon
  <1>5. ASSUME Flush(n) PROVE FilesInv'
    <2>1. /\ disk' = Flushed(s)
          /\ streams' = [streams EXCEPT ![n].place = Moved(s), ![n].kept = <<>>]
          /\ UNCHANGED <<leaked, failed, crashed>>
      BY <1>5, Zenon DEF Flush
    <2> DEFINE place == Moved(s)
    <2>2. place \in Nat /\ place + Len(<<>>) <= MaxTexts /\ (s.mode = "r" => place = 0)
      BY <1>1, <1>3 DEF Moved
    <2> HIDE DEF place
    <2>3. streams' = [streams EXCEPT ![n].place = place, ![n].kept = <<>>]
      BY <2>1 DEF place
    <2> QED
      BY <1>2, <1>3, <2>1, <2>2, <2>3, StreamKeeps, Zenon
  <1>6. ASSUME NEW text \in Written, GScr_fwrite(n, text) PROVE FilesInv'
    <2>1. /\ Max({Len(disk[s.file]), s.place}) + Len(s.kept) < MaxTexts
          /\ streams' = [streams EXCEPT ![n].kept = IF s.mode = "r" THEN @ ELSE Append(@, text)]
          /\ UNCHANGED <<disk, leaked, failed, crashed>>
      BY <1>6, Zenon DEF GScr_fwrite
    <2> DEFINE kept == IF s.mode = "r" THEN s.kept ELSE Append(s.kept, text)
               place == s.place
               long == Len(disk[s.file])
    <2>2. long \in Nat
      <3>1. \A t \in Seq(Content) : Len(t) \in Nat
        OBVIOUS
      <3> QED
        BY <1>1, <3>1
    <2>3. Max({long, place}) \in Int /\ Max({long, place}) >= place
      <3>1. long \in Int /\ place \in Int
        BY <1>1, <2>2
      <3> QED
        BY <3>1, OfTwo, Zenon
    <2> HIDE DEF long
    <2>4. place + Len(s.kept) + 1 <= MaxTexts
      BY <1>1, <1>3, <2>1, <2>3 DEF long
    <2>5. /\ kept \in Seq(Written) /\ place + Len(kept) <= MaxTexts
          /\ (s.mode = "r" => kept = <<>> /\ place = 0)
      <3>1. \A t \in Seq(Written) : Append(t, text) \in Seq(Written)
                                    /\ Len(Append(t, text)) = Len(t) + 1
        OBVIOUS
      <3>2. Append(s.kept, text) \in Seq(Written) /\ Len(Append(s.kept, text)) = Len(s.kept) + 1
        BY <1>1, <3>1
      <3>3. place + (Len(s.kept) + 1) <= MaxTexts /\ place + Len(s.kept) <= MaxTexts
        BY <1>1, <1>3, <2>4
      <3> QED
        BY <1>1, <3>2, <3>3, Zenon
    <2>6. streams' = [streams EXCEPT ![n].place = place, ![n].kept = kept]
      <3>1. streams \in [OpenStreams -> Stream]
        BY DEF FilesInv
      <3>2. s \in Stream
        BY <1>1 DEF StreamOK
      <3>3. streams' = [streams EXCEPT ![n] = [s EXCEPT !.kept = kept]]
        BY <2>1, Zenon
      <3>4. [s EXCEPT !.kept = kept] = [s EXCEPT !.place = s.place, !.kept = kept]
        BY <3>2 DEF Stream
      <3> QED
        BY <3>3, <3>4, Zenon
    <2>7. DOMAIN disk' = DOMAIN disk /\ disk' \in [DOMAIN disk -> Seq(Content)]
      BY <1>1, <2>1
    <2>8. place \in Nat
      BY <1>1
    <2> HIDE DEF kept, place
    <2> QED
      BY <2>1, <2>5, <2>6, <2>7, <2>8, StreamKeeps, Zenon
  <1> QED
    BY <1>4, <1>5, <1>6

\* fclose.
LEMMA CloseKeeps ==
    ASSUME FilesInv, NEW n \in OpenStreams, GScr_fclose(n)
    PROVE  FilesInv'
  <1>1. /\ disk' = Flushed(streams[n])
        /\ streams' = [m \in OpenStreams \ {n} |-> streams[m]]
        /\ UNCHANGED <<leaked, failed, crashed>>
    BY Zenon DEF GScr_fclose
  <1>2. DOMAIN disk' = DOMAIN disk /\ disk' \in [DOMAIN disk -> Seq(Content)]
    <2>1. StreamOK(streams[n], DOMAIN disk)
      BY DEF FilesInv
    <2> QED
      BY <1>1, <2>1, FlushedIs
  <1>3. /\ OpenStreams' = OpenStreams \ {n}
        /\ streams' \in [OpenStreams \ {n} -> Stream]
        /\ \A m \in OpenStreams \ {n} : StreamOK(streams'[m], DOMAIN disk)
    BY <1>1 DEF FilesInv, OpenStreams
  <1>4. FilesOpen' <= MaxOpen
    <2>1. /\ FilesOpen' = Cardinality(OpenStreams \ {n}) + leaked
          /\ FilesOpen = Cardinality(OpenStreams) + leaked
      BY <1>1, <1>3, Zenon DEF FilesOpen
    <2>2. FilesOpen <= MaxOpen
      BY DEF FilesInv
    <2> HIDE DEF OpenStreams
    <2>3. /\ Cardinality(OpenStreams \ {n}) \in Nat
          /\ Cardinality(OpenStreams \ {n}) <= Cardinality(OpenStreams)
      <3>1. IsFiniteSet(OpenStreams) /\ Cardinality(OpenStreams) \in Nat
        BY OpenFinite
      <3>2. /\ IsFiniteSet(OpenStreams \ {n})
            /\ Cardinality(OpenStreams \ {n}) =
                  IF n \in OpenStreams THEN Cardinality(OpenStreams) - 1
                                       ELSE Cardinality(OpenStreams)
        BY <3>1, FS_RemoveElement, Zenon
      <3>3. Cardinality(OpenStreams \ {n}) \in Nat
        BY <3>2, FS_CardinalityType
      <3> QED
        BY <3>1, <3>2, <3>3
    <2> QED
      BY <2>1, <2>2, <2>3, OpenFinite
  <1>5. /\ OpenStreams \ {n} \subseteq StreamNumbers /\ leaked \in Nat
        /\ DOMAIN disk \subseteq File /\ failed \in BOOLEAN /\ (crashed => failed)
    BY DEF FilesInv
  <1> HIDE DEF OpenStreams, FilesOpen, StreamNumbers
  <1> QED
    BY <1>1, <1>2, <1>3, <1>4, <1>5 DEF FilesInv, StreamNumbers

\* Every step.
LEMMA FilesNextInv == FilesInv /\ [FilesNext]_filevars => FilesInv'
  <1> SUFFICES ASSUME FilesInv, [FilesNext]_filevars PROVE FilesInv'
    OBVIOUS
  <1>1. ASSUME UNCHANGED <<disk, streams, leaked, failed>>, crashed' => failed
        PROVE  FilesInv'
    BY <1>1 DEF FilesInv, FilesOpen, OpenStreams, StreamNumbers
  <1>2. ASSUME NEW name \in File, GScr_fexists(name) PROVE FilesInv'
    BY <1>1, <1>2 DEF GScr_fexists, FilesInv
  <1>3. CASE OnZero
    BY <1>1, <1>3 DEF OnZero, FilesInv
  <1>4. CASE OnFailed
    BY <1>1, <1>4 DEF OnFailed
  <1>5. CASE UNCHANGED filevars
    BY <1>1, <1>5 DEF filevars, FilesInv
  <1> QED
    BY <1>2, <1>3, <1>4, <1>5, OpenKeeps, SizeKeeps, StreamStepsKeep, CloseKeeps, Zenon
       DEF FilesNext

\* At the start there is no file.
LEMMA FilesInitInv == FilesInit => FilesInv
  <1> SUFFICES ASSUME FilesInit PROVE FilesInv
    OBVIOUS
  <1>1. disk = <<>> /\ streams = <<>> /\ leaked = 0 /\ failed = FALSE /\ crashed = FALSE
    BY Zenon DEF FilesInit
  <1>2. DOMAIN disk = {} /\ OpenStreams = {}
    BY <1>1 DEF OpenStreams
  <1>3. disk \in [DOMAIN disk -> Seq(Content)] /\ streams \in [OpenStreams -> Stream]
    BY <1>1, <1>2 DEF OpenStreams
  <1>4. FilesOpen <= MaxOpen
    <2>1. FilesOpen = Cardinality({}) + 0
      BY <1>1, <1>2, Zenon DEF FilesOpen
    <2> QED
      BY <2>1, FS_EmptySet, FilesAssumption
  <1> QED
    BY <1>1, <1>2, <1>3, <1>4 DEF FilesInv

\* Whatever scripts open, forget and close: no more files are open than may be,
\* those that fsize has left open among them, every stream is of a file there is,
\* and the server crashes only on a -1 it has given out itself (script.c:738-806).
THEOREM FilesStayBounded == FilesSpec => []FilesTypeOK
  <1>1. FilesInv => FilesTypeOK
    <2> SUFFICES ASSUME FilesInv PROVE FilesTypeOK
      OBVIOUS
    <2>1. ASSUME NEW n \in OpenStreams
          PROVE  LET s == streams[n] IN
                 /\ s.file \in DOMAIN disk
                 /\ s.mode = "r" => s.kept = <<>> /\ s.place = 0
                 /\ s.place \in 0..MaxTexts
      <3> DEFINE s == streams[n]
      <3>1. /\ s.file \in DOMAIN disk /\ (s.mode = "r" => s.kept = <<>> /\ s.place = 0)
            /\ s.place \in Nat /\ s.kept \in Seq(Written) /\ s.place + Len(s.kept) <= MaxTexts
        BY DEF FilesInv, StreamOK, Stream
      <3>2. \A t \in Seq(Written) : Len(t) \in Nat
        OBVIOUS
      <3>3. Len(s.kept) \in Nat
        BY <3>1, <3>2
      <3> HIDE DEF s
      <3>4. s.place \in 0..MaxTexts
        BY <3>1, <3>3, FilesAssumption
      <3> QED
        BY <3>1, <3>4 DEF s
    <2> QED
      BY <2>1, Zenon DEF FilesInv, FilesTypeOK
  <1> QED
    BY <1>1, FilesInitInv, FilesNextInv, PTL DEF FilesSpec
============================================================================
