------------------------------ MODULE Helpers ------------------------------
(***************************************************************************)
(* Calls of the functions in TextHelpers and Tables, each with any         *)
(* arguments, and what each must return, said without reference to how     *)
(* the code finds it.                                                      *)
(***************************************************************************)
EXTENDS Tables

CONSTANTS
    Chars,          \* character codes
    MaxText,        \* the longest text
    Sizes           \* numbers of characters, and sizes of buffers

ASSUME HelpersAssumption ==
    /\ Chars \subseteq 1..126
    /\ MaxText \in Nat
    /\ Sizes \subseteq Nat \ {0}

VARIABLE call   \* the call under way, with its result

NoCall == [of |-> "none"]

Texts == SeqOf(Chars, MaxText)
ShortTexts == SeqOf(Chars, MaxText - 1)

\* Nothing, or what may be found again in what it has been put into.
Insertions == {[i \in 1..n |-> c] : n \in 0..(MaxText - 1), c \in {65, 97} \cap Chars}

------------------------------------------------------------------------------
(* Calls *)

Replace(orig, rep, with) ==
    call' = [of |-> "replace", orig |-> orig, rep |-> rep, with |-> with,
             result |-> str_replace(orig, rep, with)]

Search(s, t) ==
    call' = [of |-> "search", s |-> s, t |-> t, inside |-> Scr_IsSubStr(s, t),
             place |-> GScr_strpos(s, t), anyCase |-> Q_stristr(s, t), starts |-> startsWith(s, t)]

Tokenize(str, delim) ==
    call' = [of |-> "tokens", str |-> str, delim |-> delim, result |-> Scr_StrTok(str, delim)]

CompareTexts(s1, s2, n) ==
    call' = [of |-> "compare", s1 |-> s1, s2 |-> s2, n |-> n, upper |-> stricmp(s1, s2),
             whole |-> Q_stricmp(s1, s2), part |-> Q_stricmpn(s1, s2, n),
             exact |-> Q_strncmp(s1, s2, n)]

Append1(dest, size, src) ==
    call' = [of |-> "append", dest |-> dest, size |-> size, src |-> src,
             result |-> Q_strcat(dest, size, src)]

Filter(s, c) ==
    call' = [of |-> "filter", s |-> s, c |-> c, lower |-> Scr_ToLower(s), upper |-> Scr_ToUpper(s),
             first |-> Scr_ucfirst(s), trimmed |-> Scr_trim(s), clean |-> Q_CleanStr(s),
             good |-> is_good_string(s), last |-> Q_strrchr(s, c)]

Verify(s, limit) ==
    call' = [of |-> "verify", s |-> s, limit |-> limit, result |-> SV_VerifyChallenge(s, limit)]

LookUp(name, inEngine, isMethod) ==
    LET engine == IF inEngine THEN {name} ELSE {}
    IN  call' = [of |-> "function", name |-> name, inEngine |-> inEngine,
                 table |-> IF isMethod THEN scriptMethods ELSE scriptFunctions,
                 result |-> IF isMethod THEN Scr_GetCustomMethod(engine, name)
                            ELSE Scr_GetCustomFunction(engine, name)]

Spawn(items, spawns, custom, classname) ==
    call' = [of |-> "spawn", items |-> items, spawns |-> spawns, custom |-> custom,
             classname |-> classname,
             result |-> G_CallSpawnEntity(items, spawns, custom, classname)]

FindString(strings, str, min, max) ==
    call' = [of |-> "string", strings |-> strings, str |-> str, min |-> min, max |-> max,
             result |-> GScr_configstringindex(strings, str, min, max)]

ReadCvar(vars, bufsize) ==
    call' = [of |-> "cvar", vars |-> vars, bufsize |-> bufsize,
             string |-> Cvar_VariableString(vars, "x"),
             integer |-> Cvar_VariableIntegerValue(vars, "x"),
             buffer |-> Cvar_VariableStringBuffer(vars, "x", bufsize),
             latched |-> Cvar_LatchedVariableStringBuffer(vars, "x", bufsize)]

ListPaks(searchpaths) ==
    call' = [of |-> "paks", searchpaths |-> searchpaths,
             checksums |-> FS_ReferencedPakChecksums(searchpaths),
             names |-> FS_ReferencedPakNames(searchpaths)]

ReadArgs(args, idx, limit) ==
    call' = [of |-> "args", args |-> args, idx |-> idx, limit |-> limit,
             argv |-> GScr_Cmd_Argv(args, idx), line |-> GScr_ConcatArgs(args, idx, limit),
             chat |-> GScr_getChat(args, idx, limit)]

UseBit(array, n) ==
    call' = [of |-> "bit", array |-> array, n |-> n, set |-> COM_BitSet(array, n),
             cleared |-> COM_BitClear(array, n)]

NameAddresses(a, b) ==
    call' = [of |-> "address", a |-> a, b |-> b, same |-> NET_CompareAdr(a, b),
             adr |-> NET_AdrToString(a) = NET_AdrToString(b),
             baseAdr |-> NET_BaseAdrToString(a) = NET_BaseAdrToString(b)]

Return == call.of # "none" /\ call' = NoCall

------------------------------------------------------------------------------
(* What the calls are given *)

Names == ToSet(scriptFunctions) \cup ToSet(scriptMethods) \cup {"unknown"}
Classes == SeqOf({"a", "b"}, 2)
ConfigStrings3 == [1..3 -> {<<>>, <<65>>, <<97>>}]
Cvars == [{"x"} -> [string : ShortTexts, integer : {5}, latchedString : ShortTexts \cup {NULL}]]

\* A directory, two pk3 files that clients have, and one of the server.
SearchPath ==
    {[pak |-> FALSE]} \cup
    {[pak |-> TRUE, pakBasename |-> name, pakGamename |-> "main", checksum |-> Cardinality(name)] :
        name \in {{}, {"pak"}, {"pak", "svr"}}}

Bit == {0, 31, 32, 63}
Arrays == [0..1 -> SUBSET {0, 31}]

Addresses == [type : {"NA_BOT", "NA_LOOPBACK", "NA_IP", "NA_IPX"}, ip : {<<1, 2>>, <<2, 1>>},
              port : {<<0, 1>>, <<1, 0>>}]

------------------------------------------------------------------------------
HelpersInit == call = NoCall

HelpersNext ==
    \/ /\ call.of = "none"
       /\ \/ \E orig \in Texts, rep \in ShortTexts, with \in Insertions : Replace(orig, rep, with)
          \/ \E s, t \in Texts : Search(s, t)
          \/ \E str \in Texts, delim \in SUBSET Chars : Tokenize(str, delim)
          \/ \E s1, s2 \in Texts, n \in Sizes : CompareTexts(s1, s2, n)
          \/ \E dest, src \in ShortTexts, size \in Sizes : Append1(dest, size, src)
          \/ \E s \in Texts, c \in Chars \cup {0} : Filter(s, c)
          \/ \E s \in SeqOf(Chars \cup {59, 126}, MaxText), limit \in Sizes : Verify(s, limit)
          \/ \E name \in Names, inEngine, isMethod \in BOOLEAN : LookUp(name, inEngine, isMethod)
          \/ \E items, spawns, custom \in Classes, classname \in {"a", "b", "c"} :
                Spawn(items, spawns, custom, classname)
          \/ \E strings \in ConfigStrings3, str \in {<<65>>, <<97>>, <<94>>}, min \in {0, 2},
                max \in 0..4 : FindString(strings, str, min, max)
          \/ \E vars \in Cvars \cup {<<>>}, bufsize \in Sizes : ReadCvar(vars, bufsize)
          \/ \E searchpaths \in SeqOf(SearchPath, 3) : ListPaks(searchpaths)
          \/ \E args \in SeqOf(SeqOf({21, 97}, 2), 3), idx \in 0..4, limit \in Sizes :
                ReadArgs(args, idx, limit)
          \/ \E array \in Arrays, n \in Bit : UseBit(array, n)
          \/ \E a, b \in Addresses : NameAddresses(a, b)
    \/ Return

HelpersSpec == HelpersInit /\ [][HelpersNext]_call

------------------------------------------------------------------------------
(* Properties *)

\* Each place of the text that starts an occurrence which is replaced: none
\* that begins within an earlier one.
Hits(s, t) ==
    LET hit[i \in 0..Len(s)] ==
            /\ i > 0 /\ i + Len(t) - 1 <= Len(s)
            /\ \A k \in DOMAIN t : s[i + k - 1] = t[k]
            /\ \A j \in 1..(i - 1) : j > i - Len(t) => ~hit[j]
    IN  {i \in DOMAIN s : hit[i]}

ReplaceIsRight(c) ==
    LET hits == Hits(c.orig, c.rep)
        piece(i) == IF i \in hits THEN c.with
                    ELSE IF \E h \in hits : i \in h..(h + Len(c.rep) - 1) THEN <<>>
                    ELSE <<c.orig[i]>>
    IN  IF c.rep = <<>> \/ hits = {} THEN c.result.text = NULL
        ELSE /\ c.result.text = FlattenSeq([i \in DOMAIN c.orig |-> piece(i)])
             /\ c.result.size = Len(c.result.text) + 1

Capitals(s) == [i \in DOMAIN s |-> IF s[i] \in 97..122 THEN s[i] - 32 ELSE s[i]]

\* t stands in s behind the first k characters.
StandsBehind(s, t, k) == k + Len(t) <= Len(s) /\ \A i \in DOMAIN t : s[k + i] = t[i]

SearchIsRight(c) ==
    LET places(s, t) == {k \in 0..Len(s) : StandsBehind(s, t, k)}
        anyCase == places(Capitals(c.s), Capitals(c.t))
    IN  /\ c.inside = (places(c.s, c.t) # {})
        /\ c.starts = IsPrefix(c.t, c.s)
        /\ c.place = IF c.inside THEN Min(places(c.s, c.t)) ELSE -1
        /\ c.anyCase = IF anyCase = {} THEN 0 ELSE Min(anyCase) + 1

\* All characters but delimiters, in order, in as many pieces as there are runs;
\* and the text is spoilt unless no delimiter comes behind the first piece.
TokensAreRight(c) ==
    LET tokens == c.result.array
        runs == {i \in DOMAIN c.str : /\ c.str[i] \notin c.delim
                                      /\ i = 1 \/ c.str[i - 1] \in c.delim}
    IN  /\ FlattenSeq(tokens) = SelectSeq(c.str, LAMBDA ch : ch \notin c.delim)
        /\ Len(tokens) = Cardinality(runs)
        /\ \A k \in DOMAIN tokens : tokens[k] # <<>>
        /\ IsPrefix(c.result.left, c.str)
        /\ c.result.left # c.str => Last(c.result.left) = Last(tokens[1])

Sign(n) == IF n < 0 THEN -1 ELSE IF n > 0 THEN 1 ELSE 0

\* Both comparisons without case agree, and are that of the texts in capitals.
CompareIsRight(c) ==
    LET cut(s) == SubSeq(s, 1, Min({Len(s), c.n}))
    IN  /\ c.whole = Sign(c.upper)
        /\ c.whole = 0 <=> Capitals(c.s1) = Capitals(c.s2)
        /\ c.part = 0 <=> Capitals(cut(c.s1)) = Capitals(cut(c.s2))
        /\ c.exact = 0 <=> cut(c.s1) = cut(c.s2)
        /\ c.part = Q_stricmp(cut(c.s1), cut(c.s2))
        /\ c.whole = -Q_stricmp(c.s2, c.s1)

AppendIsRight(c) ==
    IF Len(c.dest) >= c.size THEN c.result = NULL
    ELSE /\ Len(c.result) < c.size
         /\ IsPrefix(c.dest, c.result) /\ IsPrefix(c.result, c.dest \o c.src)
         /\ Len(c.result) < c.size - 1 => c.result = c.dest \o c.src

\* A colour starts with a ^ that no other follows; what is behind it belongs to
\* it.
FilterIsRight(c) ==
    LET colour(i) == i \in 1..(Len(c.s) - 1) /\ c.s[i] = 94 /\ c.s[i + 1] # 94
        kept == {i \in DOMAIN c.s : ~colour(i) /\ ~colour(i - 1) /\ c.s[i] > 31}
        without(s, ch) == FlattenSeq([i \in DOMAIN s |-> IF s[i] = ch THEN <<>> ELSE <<s[i]>>])
    IN  /\ Len(c.clean) = Cardinality(kept)
        /\ \A i \in kept : c.clean[Cardinality({j \in kept : j <= i})] = c.s[i]
        /\ c.trimmed = without(without(c.s, 9), 32)
        /\ c.good <=> without(c.s, 9) = c.s
        /\ c.upper = Capitals(c.s) /\ Capitals(c.lower) = c.upper
        /\ Scr_ToLower(c.upper) = c.lower
        /\ c.first = [i \in DOMAIN c.s |-> IF i = 1 THEN c.upper[1] ELSE c.s[i]]
        /\ c.last > 0 /\ c.c # 0 => c.s[c.last] = c.c /\ c.c \notin ToSet(From(c.s, c.last + 1))
        /\ c.last = 0 => c.c \notin ToSet(c.s)

VerifyIsRight(c) ==
    c.result <=> Len(c.s) <= c.limit /\ ToSet(c.s) \cap {9, 59} = {}

\* Each row of a table is reached by its name, unless the engine has the name.
LookUpIsRight(c) ==
    LET rows == {k \in DOMAIN c.table : c.table[k] = c.name}
    IN  /\ c.result.by = "engine" <=> c.inEngine
        /\ ~c.inEngine => rows = {c.result.row} \ {0}

SpawnIsRight(c) ==
    LET who == c.result[1]
        list == [item |-> c.items, spawn |-> c.spawns, custom |-> c.custom]
        has(w) == c.classname \in ToSet(list[w])
    IN  IF who = "none" THEN ~has("item") /\ ~has("spawn") /\ ~has("custom")
        ELSE /\ IndexFirstSubSeq(<<c.classname>>, list[who]) = c.result[2]
             /\ who = "spawn" => ~has("item")
             /\ who = "custom" => ~has("item") /\ ~has("spawn")

\* Strings below min are found as well.
FindStringIsRight(c) ==
    LET fits(i) == i < c.max /\ Capitals(c.strings[i]) = Capitals(c.str)
    IN  IF c.result = 0 THEN \A i \in DOMAIN c.strings : ~fits(i)
        ELSE fits(c.result) /\ \A i \in 1..(c.result - 1) : ~fits(i)

ReadCvarIsRight(c) ==
    IF c.vars = <<>> THEN c.integer = 0 /\ ToSet(c.string \o c.buffer \o c.latched) = {}
    ELSE LET x == c.vars.x
             coming == IF x.latchedString = NULL THEN x.string ELSE x.latchedString
         IN  /\ c.string = x.string /\ c.integer = x.integer
             /\ Len(c.buffer) < c.bufsize /\ Len(c.latched) < c.bufsize
             /\ IsPrefix(c.buffer, x.string) /\ IsPrefix(c.latched, coming)

\* The k-th name and the k-th checksum are those of one file, none of them is
\* the server's, and all others are there.
ListPaksIsRight(c) ==
    LET isFor(p, k) == c.checksums[k] = p.checksum /\ c.names[k][2] = p.pakBasename
        known(p) == p.pak /\ "svr" \notin p.pakBasename
    IN  /\ Len(c.names) = Len(c.checksums)
        /\ Len(c.names) = Cardinality({i \in DOMAIN c.searchpaths : known(c.searchpaths[i])})
        /\ \A k \in DOMAIN c.names : \E p \in ToSet(c.searchpaths) : known(p) /\ isFor(p, k)

\* The arguments with blanks between them, as far as whole ones fit.
ReadArgsIsRight(c) ==
    LET rest == SubSeq(c.args, c.idx + 1, Len(c.args))
        blank(k) == IF k < Len(rest) THEN <<32>> ELSE <<>>
        upTo(k) == FlattenSeq([i \in 1..k |-> rest[i] \o blank(i)])
        fits(k) == \A i \in 1..k : Len(upTo(i - 1)) + Len(rest[i]) < c.limit
    IN  /\ c.line = upTo(Max({k \in 0..Len(rest) : fits(k)}))
        /\ Len(c.line) <= c.limit
        /\ c.argv = IF rest = <<>> THEN <<>> ELSE rest[1]
        /\ c.chat \in {c.line, From(c.line, 2)}
        /\ c.chat # c.line <=> c.line # <<>> /\ Head(c.line) = 21

UseBitIsRight(c) ==
    \A m \in Bit : LET has(array) == m % 32 \in array[m \div 32] IN
        /\ COM_BitCheck(c.array, m) = has(c.array)
        /\ has(c.set) <=> m = c.n \/ has(c.array)
        /\ has(c.cleared) <=> m # c.n /\ has(c.array)

\* Addresses are the same text when they are the same address; bots are all the
\* same text, and no two of them the same address.
NameAddressesIsRight(c) ==
    LET bots == c.a.type = "NA_BOT" /\ c.b.type = "NA_BOT"
    IN  /\ c.adr <=> c.same \/ bots
        /\ c.baseAdr <=> /\ c.a.type = c.b.type
                         /\ c.a.ip = c.b.ip \/ c.a.type \in {"NA_BOT", "NA_LOOPBACK"}
        /\ BigLong(BigLong(c.a.ip \o c.a.port)) = c.a.ip \o c.a.port

\* Every helper returns what its name says, on every text, however matches
\* overlap, texts are empty or buffers too small; and str_replace never needs
\* more memory than it has asked for (util.c:46).
ResultsAreRight ==
    CASE call.of = "replace" -> ReplaceIsRight(call)
      [] call.of = "search" -> SearchIsRight(call)
      [] call.of = "tokens" -> TokensAreRight(call)
      [] call.of = "compare" -> CompareIsRight(call)
      [] call.of = "append" -> AppendIsRight(call)
      [] call.of = "filter" -> FilterIsRight(call)
      [] call.of = "verify" -> VerifyIsRight(call)
      [] call.of = "function" -> LookUpIsRight(call)
      [] call.of = "spawn" -> SpawnIsRight(call)
      [] call.of = "string" -> FindStringIsRight(call)
      [] call.of = "cvar" -> ReadCvarIsRight(call)
      [] call.of = "paks" -> ListPaksIsRight(call)
      [] call.of = "args" -> ReadArgsIsRight(call)
      [] call.of = "bit" -> UseBitIsRight(call)
      [] call.of = "address" -> NameAddressesIsRight(call)
      [] OTHER -> TRUE
============================================================================
