----------------------------- MODULE BotOrders -----------------------------
(***************************************************************************)
(* What scripts order bots to do, and what the bots do: gsc_bots.c keeps   *)
(* the orders by slot as bits of two words, as movement of one byte each   *)
(* way and as a weapon; in every frame custom_SV_BotUserMove makes a user  *)
(* command of them, which the engine keeps as lastUsercmd; and the         *)
(* functions of scr_method_player.c read keys from that.                   *)
(*                                                                         *)
(* The same number is one key in one word and another key in the other.    *)
(* A call for an entity that is no bot, or with another word than those    *)
(* below, is a script error and changes nothing.                           *)
(***************************************************************************)
EXTENDS ClientNumbers

CONSTANTS
    WalkValues,     \* numbers given to setwalkvalues
    Weapons,        \* numbers of weapons
    MaxOrders       \* bound on the orders

ASSUME BotsAssumption ==
    /\ WalkValues \subseteq Int
    /\ Weapons \subseteq Int
    /\ MaxOrders \in Nat

VARIABLES
    isBot,          \* which slots have the address type NA_BOT
    customPlayerState,
    ordered,        \* history: the orders in force for each slot
    given,          \* the orders so far
    moved           \* history: the bot that has moved in this step, and how

botvars == <<isBot, customPlayerState, ordered, given, moved>>

KEY_MASK_FIRE      == 1     \* in botButtons
KEY_MASK_ADS_MODE  == 16
KEY_MASK_MELEE     == 32
KEY_MASK_RELOAD    == 8     \* in botWButtons
KEY_MASK_LEANLEFT  == 16
KEY_MASK_LEANRIGHT == 32
KEY_MASK_PRONE     == 64
KEY_MASK_CROUCH    == 128
KEY_MASK_FORWARD   == 127   \* movement
KEY_MASK_BACK      == -127

Masks == {1, 8, 16, 32, 64, 128}

\* A word is the set of its bits.
NoOrders == [botButtons |-> {}, botWButtons |-> {}, botWeapon |-> 0,
             botForwardMove |-> 0, botRightMove |-> 0, botUpMove |-> 0]

Unordered == [keys |-> {}, stance |-> {}, lean |-> {}, weapon |-> 0, forward |-> 0, right |-> 0]

NotMoved == [bot |-> -1]

\* A signed char keeps the lowest byte.
ToChar(n) == IF n % 256 > 127 THEN (n % 256) - 256 ELSE n % 256

Put(word, mask, on) == IF on THEN word \cup {mask} ELSE word \ {mask}

------------------------------------------------------------------------------
(* Orders *)

Keep(id, state, order) ==
    /\ given < MaxOrders
    /\ customPlayerState' = [customPlayerState EXCEPT ![id] = state]
    /\ ordered' = [ordered EXCEPT ![id] = order]
    /\ given' = given + 1
    /\ moved' = NotMoved
    /\ UNCHANGED isBot

\* Only "stand" takes anything back: a bot told to crouch and then to go prone
\* holds both keys.
gsc_bots_setbotstance(id, stance) ==
    /\ isBot[id]
    /\ LET p == customPlayerState[id]
           o == ordered[id]
       IN \/ /\ stance = "stand"
             /\ Keep(id, [p EXCEPT !.botUpMove = 0,
                                   !.botWButtons = @ \ {KEY_MASK_CROUCH, KEY_MASK_PRONE}],
                     [o EXCEPT !.stance = {}])
          \/ /\ stance = "crouch"
             /\ Keep(id, [p EXCEPT !.botWButtons = @ \cup {KEY_MASK_CROUCH}],
                     [o EXCEPT !.stance = @ \cup {stance}])
          \/ /\ stance = "prone"
             /\ Keep(id, [p EXCEPT !.botWButtons = @ \cup {KEY_MASK_PRONE}],
                     [o EXCEPT !.stance = @ \cup {stance}])
          \/ /\ stance = "jump"
             /\ Keep(id, [p EXCEPT !.botUpMove = 127], [o EXCEPT !.stance = @ \cup {stance}])

\* An order that sets or clears one bit of botButtons.
Button(id, key, mask, on) ==
    /\ isBot[id]
    /\ Keep(id, [customPlayerState[id] EXCEPT !.botButtons = Put(@, mask, on)],
            [ordered[id] EXCEPT !.keys = Put(@, key, on)])

\* Mutant: the bit is set in the other word, where it leans the bot to the right.
MeleeInOtherWord(id, on) ==
    /\ isBot[id]
    /\ Keep(id, [customPlayerState[id] EXCEPT !.botWButtons = Put(@, KEY_MASK_MELEE, on)],
            [ordered[id] EXCEPT !.keys = Put(@, "melee", on)])

gsc_bots_meleeweapon(id, melee) == Button(id, "melee", KEY_MASK_MELEE, melee)

gsc_bots_setaim(id, ads) == Button(id, "ads", KEY_MASK_ADS_MODE, ads)

gsc_bots_fireweapon(id, shoot) == Button(id, "fire", KEY_MASK_FIRE, shoot)

gsc_bots_reloadweapon(id, reload) ==
    /\ isBot[id]
    /\ Keep(id, [customPlayerState[id] EXCEPT !.botWButtons = Put(@, KEY_MASK_RELOAD, reload)],
            [ordered[id] EXCEPT !.keys = Put(@, "reload", reload)])

\* Only "none" takes anything back: a bot can lean both ways.
gsc_bots_setlean(id, lean) ==
    /\ isBot[id]
    /\ LET p == customPlayerState[id]
           o == ordered[id]
       IN \/ /\ lean = "none"
             /\ Keep(id, [p EXCEPT !.botWButtons = @ \ {KEY_MASK_LEANLEFT, KEY_MASK_LEANRIGHT}],
                     [o EXCEPT !.lean = {}])
          \/ /\ lean = "left"
             /\ Keep(id, [p EXCEPT !.botWButtons = @ \cup {KEY_MASK_LEANLEFT}],
                     [o EXCEPT !.lean = @ \cup {lean}])
          \/ /\ lean = "right"
             /\ Keep(id, [p EXCEPT !.botWButtons = @ \cup {KEY_MASK_LEANRIGHT}],
                     [o EXCEPT !.lean = @ \cup {lean}])

gsc_bots_switchtoweaponid(id, weaponid) ==
    /\ isBot[id]
    /\ Keep(id, [customPlayerState[id] EXCEPT !.botWeapon = weaponid],
            [ordered[id] EXCEPT !.weapon = weaponid])

Forward(id, move) ==
    Keep(id, [customPlayerState[id] EXCEPT !.botForwardMove = ToChar(move)],
         [ordered[id] EXCEPT !.forward = move])

Right(id, move) ==
    Keep(id, [customPlayerState[id] EXCEPT !.botRightMove = ToChar(move)],
         [ordered[id] EXCEPT !.right = move])

Both(id, forward, right) ==
    Keep(id, [customPlayerState[id] EXCEPT !.botForwardMove = ToChar(forward),
                                           !.botRightMove = ToChar(right)],
         [ordered[id] EXCEPT !.forward = forward, !.right = right])

gsc_bots_setwalkdir(id, dir) ==
    /\ isBot[id]
    /\ \/ dir = "none" /\ Both(id, 0, 0)
       \/ dir = "forward" /\ Forward(id, KEY_MASK_FORWARD)
       \/ dir = "back" /\ Forward(id, KEY_MASK_BACK)
       \/ dir = "right" /\ Right(id, KEY_MASK_FORWARD)
       \/ dir = "left" /\ Right(id, KEY_MASK_BACK)

\* Whoever is in the slot, and without a look at the number of the entity.
gsc_bots_setwalkvalues(id, fwcount, rgcount) == Both(id, fwcount, rgcount)

\* A slot changes hands; the orders stay.
NewOwner(id) ==
    /\ isBot' = [isBot EXCEPT ![id] = ~@]
    /\ moved' = NotMoved
    /\ UNCHANGED <<customPlayerState, ordered, given>>

------------------------------------------------------------------------------
(* The frame *)

\* While the bot watches a recording (archiveTime) it holds no key.
custom_SV_BotUserMove(id, archived, weapon) ==
    LET p == customPlayerState[id]
        held == IF archived THEN NoOrders ELSE p
    IN /\ isBot[id]
       /\ moved' = [bot |-> id, archived |-> archived,
                    buttons |-> held.botButtons, wbuttons |-> held.botWButtons,
                    forwardmove |-> held.botForwardMove, rightmove |-> held.botRightMove,
                    upmove |-> held.botUpMove,
                    weapon |-> (IF p.botWeapon # 0 THEN p.botWeapon ELSE weapon) % 256]
       /\ UNCHANGED <<isBot, customPlayerState, ordered, given>>

------------------------------------------------------------------------------
(* What scripts read from the last command *)

\* Bits 0 to 6 of the byte are set; -1 is such a byte, too.
Ahead(move) == move % 128 = 127

\* Bits 0 and 7 are set.
Backward(move) == move < 0 /\ move % 2 = 1

PlayerCmd_forwardButtonPressed(cmd) == Ahead(cmd.forwardmove)
PlayerCmd_backButtonPressed(cmd) == Backward(cmd.forwardmove)
PlayerCmd_rightButtonPressed(cmd) == Ahead(cmd.rightmove)
PlayerCmd_leftButtonPressed(cmd) == Backward(cmd.rightmove)
PlayerCmd_moveupButtonPressed(cmd) == Ahead(cmd.upmove)
PlayerCmd_movedownButtonPressed(cmd) == Backward(cmd.upmove)
PlayerCmd_leanLeftButtonPressed(cmd) == 16 \in cmd.wbuttons
PlayerCmd_leanRightButtonPressed(cmd) == 32 \in cmd.wbuttons
PlayerCmd_aimButtonPressed(cmd) == 16 \in cmd.buttons
PlayerCmd_reloadButtonPressed(cmd) == 8 \in cmd.wbuttons

------------------------------------------------------------------------------
BotsInit ==
    /\ isBot = [id \in ClientNum |-> TRUE]
    /\ customPlayerState = [id \in ClientNum |-> NoOrders]
    /\ ordered = [id \in ClientNum |-> Unordered]
    /\ given = 0
    /\ moved = NotMoved

BotsNext == \E id \in ClientNum :
    \/ \E stance \in {"stand", "crouch", "prone", "jump"} : gsc_bots_setbotstance(id, stance)
    \/ \E on \in BOOLEAN :
        \/ gsc_bots_meleeweapon(id, on)
        \/ gsc_bots_setaim(id, on)
        \/ gsc_bots_fireweapon(id, on)
        \/ gsc_bots_reloadweapon(id, on)
    \/ \E lean \in {"none", "left", "right"} : gsc_bots_setlean(id, lean)
    \/ \E weaponid \in Weapons : gsc_bots_switchtoweaponid(id, weaponid)
    \/ \E dir \in {"none", "forward", "back", "right", "left"} : gsc_bots_setwalkdir(id, dir)
    \/ \E fwcount, rgcount \in WalkValues : gsc_bots_setwalkvalues(id, fwcount, rgcount)
    \/ NewOwner(id)
    \/ \E archived \in BOOLEAN, weapon \in Weapons : custom_SV_BotUserMove(id, archived, weapon)

BotsSpec == BotsInit /\ [][BotsNext]_botvars

------------------------------------------------------------------------------
(* Properties *)

\* Movement stays in a signed byte (shared.h:1039).
BotsTypeOK ==
    /\ isBot \in [ClientNum -> BOOLEAN]
    /\ given \in 0..MaxOrders
    /\ \A id \in ClientNum : LET p == customPlayerState[id] IN
        /\ p.botButtons \cup p.botWButtons \subseteq Masks
        /\ {p.botForwardMove, p.botRightMove, p.botUpMove} \subseteq -128..127
        /\ p.botWeapon \in Weapons \cup {0}

\* What scripts read of the command is what they have ordered.
ReadAsOrdered(cmd, order) ==
    /\ PlayerCmd_leanLeftButtonPressed(cmd) <=> "left" \in order.lean
    /\ PlayerCmd_leanRightButtonPressed(cmd) <=> "right" \in order.lean
    /\ PlayerCmd_aimButtonPressed(cmd) <=> "ads" \in order.keys
    /\ PlayerCmd_reloadButtonPressed(cmd) <=> "reload" \in order.keys
    /\ PlayerCmd_moveupButtonPressed(cmd) <=> "jump" \in order.stance
    /\ ~PlayerCmd_movedownButtonPressed(cmd)
    /\ order.forward \in {0, 127, -127} =>
        /\ PlayerCmd_forwardButtonPressed(cmd) <=> order.forward > 0
        /\ PlayerCmd_backButtonPressed(cmd) <=> order.forward < 0
    /\ order.right \in {0, 127, -127} =>
        /\ PlayerCmd_rightButtonPressed(cmd) <=> order.right > 0
        /\ PlayerCmd_leftButtonPressed(cmd) <=> order.right < 0

\* A bot that is in the game does in every frame what the orders in force for
\* its slot say, in whatever order they came, and no order has touched another
\* key or another slot (sv_main.c:762): neither by a number that is another key
\* in the other word, nor by a word that takes back more than it says.
BotDoesAsOrdered ==
    [][LET cmd == moved' IN cmd.bot \in ClientNum =>
        LET order == ordered[cmd.bot] IN
        /\ order.weapon \in 1..255 => cmd.weapon = order.weapon
        /\ ~cmd.archived =>
            /\ ReadAsOrdered(cmd, order)
            /\ KEY_MASK_FIRE \in cmd.buttons <=> "fire" \in order.keys
            /\ KEY_MASK_MELEE \in cmd.buttons <=> "melee" \in order.keys
            /\ KEY_MASK_CROUCH \in cmd.wbuttons <=> "crouch" \in order.stance
            /\ KEY_MASK_PRONE \in cmd.wbuttons <=> "prone" \in order.stance
            /\ order.forward \in -128..127 => cmd.forwardmove = order.forward
            /\ order.right \in -128..127 => cmd.rightmove = order.right]_botvars
============================================================================
