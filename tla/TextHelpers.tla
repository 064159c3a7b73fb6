---------------------------- MODULE TextHelpers ----------------------------
(***************************************************************************)
(* What util.c, shared.c, scr_string.c and sv_client.c do with text.  A    *)
(* text is the sequence of its character codes without the 0 at its end;   *)
(* NULL stands for no text.  Each definition goes through its text as the  *)
(* code does.                                                              *)
(***************************************************************************)
EXTENDS Integers, SequencesExt

NULL == <<-1>>

From(s, i) == SubSeq(s, i, Len(s))

Upper(c) == IF c \in 97..122 THEN c - 32 ELSE c
Lower1(c) == IF c \in 65..90 THEN c + 32 ELSE c

Q_isprint(c) == c \in 32..126

\* The place of the first t in s, or 0.
strstr(s, t) ==
    LET at == {i \in 1..(Len(s) - Len(t) + 1) : SubSeq(s, i, i + Len(t) - 1) = t}
    IN  IF at = {} THEN 0 ELSE Min(at)

------------------------------------------------------------------------------
(* str_replace: counts, allocates, copies *)

\* Mutant: counts those that overlap as well.
CountOverlaps(s, rep) ==
    LET from[p \in 1..(Len(s) + 1)] ==
            LET at == strstr(From(s, p), rep) IN IF at = 0 THEN 0 ELSE 1 + from[p + at]
    IN  from[1]

Count(s, rep) ==
    LET from[p \in 1..(Len(s) + 1)] ==
            LET at == strstr(From(s, p), rep)
            IN  IF at = 0 THEN 0 ELSE 1 + from[p + at - 1 + Len(rep)]
    IN  from[1]

\* The text from a place on with so many replaced, as long as there are any.
Replaced(s, rep, with, count) ==
    LET from[n \in 0..count] == [p \in 1..(Len(s) + 1) |->
            LET at == strstr(From(s, p), rep)
            IN  IF n = 0 \/ at = 0 THEN From(s, p)
                ELSE (SubSeq(s, p, p + at - 2) \o with) \o from[n - 1][p + at - 1 + Len(rep)]]
    IN  from[count][1]

\* The text and the size of the memory it is put in.
str_replace(orig, rep, with) ==
    IF rep = <<>> \/ strstr(orig, rep) = 0 THEN [text |-> NULL, size |-> 0]
    ELSE [text |-> Replaced(orig, rep, with, Count(orig, rep)),
          size |-> Len(orig) + (Len(with) - Len(rep)) * Count(orig, rep) + 1]

startsWith(str, pre) == Len(str) >= Len(pre) /\ SubSeq(str, 1, Len(pre)) = pre

------------------------------------------------------------------------------
(* Functions of scripts *)

\* The places [first, end) of the tokens as strtok finds them, from place p on.
Tokens(str, delim) ==
    LET from[p \in 1..(Len(str) + 1)] ==
            LET starts == {i \in p..Len(str) : str[i] \notin delim}
                first == Min(starts)
                ends == {j \in first..Len(str) : str[j] \in delim}
            IN  IF starts = {} THEN <<>>
                ELSE IF ends = {} THEN <<[first |-> first, end |-> Len(str) + 1]>>
                ELSE <<[first |-> first, end |-> Min(ends)]>> \o from[Min(ends) + 1]
    IN  from[1]

\* strtok writes a 0 behind each token, into the string of the script itself:
\* what is left of it ends with the first token.
Scr_StrTok(str, delim) ==
    LET tokens == Tokens(str, delim)
    IN  [array |-> [k \in DOMAIN tokens |-> SubSeq(str, tokens[k].first, tokens[k].end - 1)],
         left |-> IF tokens = <<>> THEN str ELSE SubSeq(str, 1, tokens[1].end - 1)]

Scr_IsSubStr(string, substring) == strstr(string, substring) # 0
GScr_strpos(haystack, needle) == strstr(haystack, needle) - 1

Scr_ToLower(str) == [i \in DOMAIN str |-> Lower1(str[i])]
Scr_ToUpper(str) == [i \in DOMAIN str |-> Upper(str[i])]
Scr_ucfirst(str) == [i \in DOMAIN str |-> IF i = 1 THEN Upper(str[i]) ELSE str[i]]

\* All white space goes, within the text as well as at its ends.
Scr_trim(str) == SelectSeq(str, LAMBDA c : c \notin {10, 13, 9, 12, 32})

------------------------------------------------------------------------------
(* Comparing and copying *)

At(s, i) == IF i <= Len(s) THEN s[i] ELSE 0

Folded(c, anyCase) == IF anyCase THEN Upper(c) ELSE c

\* Compares up to n characters, or to the end of the first text.
Compare(s1, s2, n, anyCase) ==
    LET from[i \in 1..(n + 1)] ==
            LET c1 == Folded(At(s1, i), anyCase)
                c2 == Folded(At(s2, i), anyCase)
            IN  IF i > n THEN 0
                ELSE IF c1 # c2 THEN (IF c1 < c2 THEN -1 ELSE 1)
                ELSE IF c1 = 0 THEN 0
                ELSE from[i + 1]
    IN  from[1]

Q_stricmpn(s1, s2, n) == Compare(s1, s2, n, TRUE)
Q_strncmp(s1, s2, n) == Compare(s1, s2, n, FALSE)
Q_stricmp(s1, s2) == Q_stricmpn(s1, s2, 99999)

\* The difference of the first two characters that differ in upper case.
stricmp(s1, s2) ==
    LET from[i \in 1..(Len(s1) + 1)] ==
            LET c1 == Upper(At(s1, i))
                c2 == Upper(At(s2, i))
            IN  IF c1 = 0 \/ c1 # c2 THEN c1 - c2 ELSE from[i + 1]
    IN  from[1]

\* Looks for the first character and compares the rest where it stands.
Q_stristr(s, find) ==
    LET at == {i \in DOMAIN s : /\ Upper(s[i]) = Upper(find[1])
                                /\ Q_stricmpn(From(s, i + 1), Tail(find), Len(find) - 1) = 0}
    IN  IF find = <<>> THEN 1 ELSE IF at = {} THEN 0 ELSE Min(at)

\* The last c, which may be the 0 at the end.
Q_strrchr(string, c) ==
    IF c = 0 THEN Len(string) + 1
    ELSE LET at == {i \in DOMAIN string : string[i] = c} IN IF at = {} THEN 0 ELSE Max(at)

Q_strncpyz(src, destsize) == SubSeq(src, 1, Min({Len(src), destsize - 1}))

\* Com_Error if dest has overflowed already.
Q_strcat(dest, size, src) ==
    IF Len(dest) >= size THEN NULL ELSE dest \o Q_strncpyz(src, size - Len(dest))

------------------------------------------------------------------------------
(* What is let through *)

Q_IsColorString(s, i) == s[i] = 94 /\ At(s, i + 1) \notin {0, 94}

Q_CleanStr(string) ==
    LET from[i \in 1..(Len(string) + 1)] ==
            IF i > Len(string) THEN <<>>
            ELSE IF Q_IsColorString(string, i) THEN from[i + 2]
            ELSE (IF Q_isprint(string[i]) THEN <<string[i]>> ELSE <<>>) \o from[i + 1]
    IN  from[1]

is_good_string(str) == \A i \in DOMAIN str : Q_isprint(str[i])

\* None of \ / % ; and the quotation mark.
SV_VerifyChallenge(challenge, limit) ==
    /\ Len(challenge) <= limit
    /\ \A i \in DOMAIN challenge :
        challenge[i] \notin {92, 47, 37, 59, 34} /\ Q_isprint(challenge[i])
============================================================================
