---------------------------- MODULE InfoStrings ----------------------------
(***************************************************************************)
(* Info strings, "\key\value\key\value", as Info_ValueForKey,              *)
(* Info_RemoveKey and Info_SetValueForKey of shared.c read and change      *)
(* them: sequences of pairs.  Keys are compared without regard to case.    *)
(* The userinfo of a client comes from the network with whatever pairs the *)
(* client has put into it; other strings are built from the empty one.     *)
(***************************************************************************)
EXTENDS Integers, SequencesExt, Sums

CONSTANTS
    Key,
    Lower,          \* each key in lower case, which is what stricmp compares
    Value,          \* the values other than the empty one
    Illegal,        \* the keys and values with a backslash, semicolon or quote
    Size,           \* characters that each key and value takes, with its backslash
    MAX_INFO_STRING,
    Received        \* the info strings to start with

Pair == [key : Key, value : Value]

ASSUME InfoAssumption ==
    /\ "" \notin Value
    /\ Lower \in [Key -> Key]
    /\ Illegal \subseteq Key \cup Value
    /\ Size \in [Key \cup Value -> Nat \ {0}]
    /\ MAX_INFO_STRING \in Nat
    /\ Received \subseteq Seq(Pair)

VARIABLES
    info,       \* the string
    set         \* history: the last pair set, or nothing

ivars == <<info, set>>

NoPair == [key |-> "", value |-> ""]

SameKey(j, k) == Lower[j] = Lower[k]

Length(s) == Total([n \in DOMAIN s |-> Size[s[n].key] + Size[s[n].value]])

\* What comes from the network is cut off before it is an info string.
ASSUME ReceivedAssumption == \A s \in Received : Length(s) <= MAX_INFO_STRING

Places(s, key) == {n \in DOMAIN s : SameKey(s[n].key, key)}

FirstPlace(s, key) == CHOOSE n \in Places(s, key) : \A m \in Places(s, key) : n <= m

\* The first value of the key, or the empty string.
Info_ValueForKey(s, key) ==
    IF Places(s, key) = {} THEN "" ELSE s[FirstPlace(s, key)].value

\* Mutant: everything from the key on is removed.
RemoveTail(s, key) ==
    IF Places(s, key) = {} THEN s ELSE SubSeq(s, 1, FirstPlace(s, key) - 1)

\* Only the first pair with the key is removed.
Info_RemoveKey(s, key) ==
    IF Places(s, key) = {} THEN s ELSE RemoveAt(s, FirstPlace(s, key))

HasRoom(s, key, value) == Length(s) + Size[key] + Size[value] <= MAX_INFO_STRING

\* The old pair goes even if there is no room for the new one.
WithPair(s, key, value) ==
    LET rest == Info_RemoveKey(s, key)
    IN  IF value # "" /\ HasRoom(rest, key, value)
        THEN Append(rest, [key |-> key, value |-> value]) ELSE rest

\* A string that has reached the limit is an error from then on, ERR_DROP.
Info_SetValueForKey(key, value) ==
    /\ Length(info) < MAX_INFO_STRING
    /\ {key, value} \cap Illegal = {}
    /\ info' = WithPair(info, key, value)
    /\ set' = [key |-> key, value |-> value]

\* Otherwise it reports an error and does nothing.
Info_SetRefused(key, value) ==
    /\ Length(info) >= MAX_INFO_STRING \/ {key, value} \cap Illegal # {}
    /\ set' = NoPair
    /\ UNCHANGED info

InfoInit == info \in Received /\ set = NoPair

InfoNext ==
    \E key \in Key, value \in Value \cup {""} :
        Info_SetValueForKey(key, value) \/ Info_SetRefused(key, value)

InfoSpec == InfoInit /\ [][InfoNext]_ivars

------------------------------------------------------------------------------
(* Properties *)

\* A string that begins within the limit never exceeds it (shared.c:526).
InfoTypeOK ==
    /\ info \in Seq(Pair)
    /\ Length(info) <= MAX_INFO_STRING

\* "Changes or adds a key/value pair" (shared.c:493): no other key changes its
\* value, also not in a string of a client that has keys more than once; and a
\* key that was there once at most has the value it was set to, or none if there
\* is no room: never its old one (shared.c:519).
SetIsExact ==
    [][set' # NoPair => \A key \in Key :
            /\ ~SameKey(key, set'.key) =>
                    Info_ValueForKey(info', key) = Info_ValueForKey(info, key)
            /\ set'.key = key /\ Cardinality(Places(info, key)) <= 1 =>
                    Info_ValueForKey(info', key) \in {set'.value, ""}]_ivars
============================================================================
