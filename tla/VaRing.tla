------------------------------- MODULE VaRing -------------------------------
(***************************************************************************)
(* The buffer of va in shared.c: a string is put behind the last one, or   *)
(* at the start of the buffer when it does not fit there; the caller keeps *)
(* a pointer into it.                                                      *)
(***************************************************************************)
EXTENDS Integers

CONSTANT MAX_VA_STRING

ASSUME VaAssumption == MAX_VA_STRING \in Nat \ {0}

VARIABLES
    index,      \* where the next string goes
    newest      \* the string of the last call: where it is, and its length

vvars == <<index, newest>>

\* A length, and all the places its characters and the closing zero can take.
Lengths == 0..(MAX_VA_STRING - 1)
Text == [at : Int, len : Lengths]
NoText == [at |-> -1, len |-> 0]
Cells(text) == text.at..(text.at + text.len)

\* Mutant: the closing zero is not counted.
StartTight(len) == IF len + index > MAX_VA_STRING THEN 0 ELSE index

Start(len) == IF len + index >= MAX_VA_STRING - 1 THEN 0 ELSE index

\* Mutant: the next string goes where this one has its closing zero.
BehindText(at, len) == at + len

Behind(at, len) == at + len + 1

\* A longer string is an error.
va(len) ==
    /\ newest' = [at |-> Start(len), len |-> len]
    /\ index' = Behind(Start(len), len)

VaInit ==
    /\ index = 0
    /\ newest = NoText

VaNext == \E len \in Lengths : va(len)

VaSpec == VaInit /\ [][VaNext]_vvars

------------------------------------------------------------------------------
(* Properties *)

\* Every string lies in the buffer, with its closing zero (shared.c:656).
VaTypeOK ==
    /\ newest \in Text
    /\ newest # NoText => Cells(newest) \subseteq Lengths
    /\ index \in 0..MAX_VA_STRING

\* "modified this into a circular list, to further prevent stepping on previous
\* strings" (shared.c:628): of two strings shorter than a third of the buffer the
\* later one does not touch the earlier.
PreviousIsKept ==
    [][(3 * newest.len + 3 <= MAX_VA_STRING /\ 3 * newest'.len + 3 <= MAX_VA_STRING)
            => Cells(newest) \cap Cells(newest') = {}]_vvars
============================================================================
