--------------------------- MODULE ConfigStrings ---------------------------
(***************************************************************************)
(* The localized strings of script.c: X_LocalizedStringIndex, which stands *)
(* in for the game's own function, finds a string among the config strings *)
(* or gives it an index, and reuses the upper half when all are taken.     *)
(* xprecachestring of scripts puts a string where the script wants it.     *)
(*                                                                         *)
(* Indices a script asks for lie among those of the localized strings.     *)
(***************************************************************************)
EXTENDS Integers

CONSTANTS
    Localized,      \* the strings that are not empty
    NoString,       \* the empty string
    FirstTemporary, \* 128, where the ring begins
    MAX_LOCALIZED   \* 256, where it ends

ASSUME ConfigStringsAssumption ==
    /\ NoString \notin Localized
    /\ FirstTemporary \in Nat \ {0}
    /\ MAX_LOCALIZED \in Nat /\ FirstTemporary < MAX_LOCALIZED

VARIABLES
    configstrings,              \* the strings from config string 1244 on
    x_localized_string_index,   \* where the ring is
    reset,      \* history: has xprecachestring set the ring to 0?
    direct      \* history: has a script put a string in place on this map?

lvars == <<configstrings, x_localized_string_index, reset, direct>>

Index == 0..(MAX_LOCALIZED - 1)

\* Mutant: the ring takes in the lower half as well.
RingFromStart(n) == IF n >= MAX_LOCALIZED THEN 0 ELSE n

Ring(n) == IF n >= MAX_LOCALIZED THEN FirstTemporary ELSE n

\* Where the search stops, from 1 on: at the string, or at the first index
\* without one.
Stops(str) == {i \in Index \ {0} : configstrings[i] \in {str, NoString}}

FirstStop(str) == CHOOSE i \in Stops(str) : \A j \in Stops(str) : i <= j

\* The index of a string that is not there yet.
NewIndex(str) ==
    IF Stops(str) = {} THEN Ring(x_localized_string_index) ELSE FirstStop(str)

\* Is the string found before an index without one?
IsThere(str) == Stops(str) # {} /\ configstrings[FirstStop(str)] = str

X_LocalizedStringIndex(str) ==
    /\ IF str = NoString \/ IsThere(str)
       THEN /\ x_localized_string_index' = Ring(x_localized_string_index)
            /\ UNCHANGED configstrings
       ELSE /\ configstrings' = [configstrings EXCEPT ![NewIndex(str)] = str]
            /\ x_localized_string_index' = Ring(x_localized_string_index) + 1
    /\ UNCHANGED <<reset, direct>>

\* xprecachestring with an index below the last.
PutString(at, str) ==
    /\ str # NoString
    /\ configstrings' = [configstrings EXCEPT ![at] = str]
    /\ direct' = TRUE
    /\ UNCHANGED <<x_localized_string_index, reset>>

\* xprecachestring without an index, or with a larger one: the string goes
\* where the ring is, and the ring does not move; at its end it goes back to 0.
PutInRing(str) ==
    /\ str # NoString
    /\ IF x_localized_string_index >= MAX_LOCALIZED
       THEN /\ configstrings' = [configstrings EXCEPT ![0] = str]
            /\ x_localized_string_index' = 0
            /\ reset' = TRUE
       ELSE /\ configstrings' =
                    [configstrings EXCEPT ![x_localized_string_index] = str]
            /\ UNCHANGED <<x_localized_string_index, reset>>
    /\ direct' = TRUE

\* A new map begins without strings; the static variable stays as it is.
NextMap ==
    /\ configstrings' = [i \in Index |-> NoString]
    /\ direct' = FALSE
    /\ UNCHANGED <<x_localized_string_index, reset>>

StringsInit ==
    /\ configstrings = [i \in Index |-> NoString]
    /\ x_localized_string_index = FirstTemporary
    /\ reset = FALSE
    /\ direct = FALSE

StringsNext ==
    \/ \E str \in Localized \cup {NoString} :
        \/ X_LocalizedStringIndex(str)
        \/ \E at \in Index : PutString(at, str)
        \/ PutInRing(str)
    \/ NextMap

StringsSpec == StringsInit /\ [][StringsNext]_lvars

------------------------------------------------------------------------------
(* Properties *)

StringsTypeOK ==
    /\ configstrings \in [Index -> Localized \cup {NoString}]
    /\ x_localized_string_index \in 0..MAX_LOCALIZED
    /\ reset \in BOOLEAN
    /\ direct \in BOOLEAN

\* "use half/half 128 for tmp storage" (script.c:983): whatever is shown on the
\* way, and over how many maps, no string that got an index in the lower half
\* loses it to another, unless the script puts one there or has set the ring to 0
\* through xprecachestring at its end (script.c:938).
LowerHalfStays ==
    [][\A i \in 1..(FirstTemporary - 1) :
            ~reset /\ configstrings[i] # NoString /\ configstrings'[i] # configstrings[i] =>
                ~ \E str \in Localized : X_LocalizedStringIndex(str) \/ PutInRing(str)]_lvars

\* As long as the script puts no string in place itself, no string has two
\* indices, also when the ring has gone round: the indices in use are the first
\* ones, so that the search, which ends at the first free one, sees them all
\* (script.c:974).
StringsOnce ==
    ~direct =>
        /\ \A i, j \in Index \ {0} :
                configstrings[i] = configstrings[j] /\ configstrings[i] # NoString => i = j
        /\ \A i, j \in Index \ {0} :
                i < j /\ configstrings[i] = NoString => configstrings[j] = NoString
============================================================================
