---------------------------- MODULE BanRegister ----------------------------
(***************************************************************************)
(* What an administrator can rely on of the bans: a set of those in force, *)
(* and one of those kept for the next time they are read.  A ban of any    *)
(* kind is kept if it lasts; of the others only those an administrator has *)
(* put there by hand are.                                                  *)
(***************************************************************************)
CONSTANTS
    Kinds,      \* disjoint sets of what can be banned, each kept apart
    Lasting     \* what is kept when it is banned

Subject == UNION Kinds

VARIABLES banned, kept, printed

vars == <<banned, kept, printed>>

\* What is kept of a kind comes into force, or nothing of that kind does.
Read == \E read \in SUBSET Kinds : banned' = kept' \cap UNION read

Init ==
    /\ kept \in SUBSET Subject
    /\ \E read \in SUBSET Kinds : banned = kept \cap UNION read
    /\ printed = <<"none">>

Ban(s) ==
    /\ kept' = kept \cup ({s} \cap Lasting)
    /\ banned' = banned \cup {s} \/ Read
    /\ printed' = <<"banned", s>>

\* The command says so even when nothing could be kept.
FailedBan(s) == UNCHANGED kept /\ Read /\ printed' = <<"banned", s>>

\* What is to be kept of a kind when s is not: of the others those in force.
Left(kind, s) == (banned \cap kind \cap Lasting) \ {s}

\* Taking s back.  It was banned if the administrator is told so.
Unban(s) ==
    /\ \E kind \in Kinds : s \in kind /\ kept' = (kept \ kind) \cup Left(kind, s)
    /\ Read
    /\ printed' = IF s \in banned THEN <<"unbanned", s>> ELSE <<"none">>

\* The server dies while it does so, and starts anew with some of them.
DiedInUnban(s) ==
    /\ \E kind \in Kinds : /\ s \in kind
                           /\ kept \ kind \subseteq kept'
                           /\ kept' \subseteq (kept \ kind) \cup Left(kind, s)
    /\ Read
    /\ printed' = <<"none">>

\* Everything else: a connect, a command that fails, reading the files again.
Other == UNCHANGED kept /\ (UNCHANGED banned \/ Read) /\ printed' = <<"none">>

Next == Other \/ \E s \in Subject : Ban(s) \/ FailedBan(s) \/ Unban(s) \/ DiedInUnban(s)

RegisterSpec == Init /\ [][Next]_vars
============================================================================
