--------------------------- MODULE BanListProofs ---------------------------
(***************************************************************************)
(* BanList implements BanRegister, for any addresses, mUIDs and files.     *)
(* However bans come and go, the list is no longer than the files.         *)
(***************************************************************************)
EXTENDS BanList, SequenceTheorems, FiniteSetTheorems, WellFoundedInduction, TLAPS

------------------------------------------------------------------------------
(* Kept.  Its recursion is followed by a least counterexample: a function    *)
(* that satisfies the equation up to k exists for every k.                   *)

\* What upTo[k] of Kept has to be, given its value for k - 1.
Grown(s, S, k, before) ==
    IF k = 0 THEN <<>>
    ELSE IF s[k] \in S THEN Append(before, s[k]) ELSE before

\* f satisfies the equation of upTo as far as n.
Grows(f, s, S, n) == f = [k \in 0..n |-> Grown(s, S, k, f[k - 1])]

\* A nonempty set of numbers has a least one.
LEMMA LeastOf ==
    ASSUME NEW S \in SUBSET Nat, S # {}
    PROVE  \E i \in S : \A j \in S : i <= j
  <1>1. PICK i \in S : \A j \in S : <<j, i>> \notin OpToRel(<, Nat)
    BY WFMin, NatLessThanWellFounded, Zenon
  <1>2. \A j \in S : ~(j < i)
    BY <1>1, Zenon DEF OpToRel
  <1> QED
    BY <1>2

\* A set of numbers that has 0 and with each number the next has all.
LEMMA AllNumbers ==
    ASSUME NEW S \in SUBSET Nat, 0 \in S, \A n \in S : n + 1 \in S
    PROVE  S = Nat
  <1> SUFFICES ASSUME Nat \ S # {} PROVE FALSE
    OBVIOUS
  <1>1. PICK n \in Nat \ S : \A m \in Nat \ S : n <= m
    BY LeastOf
  <1>2. n - 1 \in Nat /\ n - 1 \in S
    BY <1>1
  <1>3. (n - 1) + 1 = n
    BY <1>1
  <1> QED
    BY <1>1, <1>2, <1>3

\* There is such a function however far it is to go.
LEMMA GrowsExists ==
    ASSUME NEW s, NEW S, NEW n \in Nat
    PROVE  \E f : Grows(f, s, S, n)
  <1> DEFINE Good == {m \in Nat : \E f : Grows(f, s, S, m)}
  <1>1. 0 \in Good
    <2> DEFINE f == [k \in 0..0 |-> <<>>]
    <2>1. f = [k \in 0..0 |-> Grown(s, S, k, f[k - 1])]
      BY DEF Grown
    <2> QED
      BY <2>1, Zenon DEF Grows
  <1>2. ASSUME NEW m \in Good PROVE m + 1 \in Good
    <2>1. PICK f : f = [k \in 0..m |-> Grown(s, S, k, f[k - 1])]
      BY Zenon DEF Grows
    <2> DEFINE g == [k \in 0..(m + 1) |-> IF k = m + 1 THEN Grown(s, S, k, f[m]) ELSE f[k]]
    <2>2. ASSUME NEW k \in 0..(m + 1) PROVE g[k] = Grown(s, S, k, g[k - 1])
      <3>1. CASE k = 0
        BY <2>1, <3>1 DEF Grown
      <3>2. CASE k \in 1..m
        <4>1. f[k] = Grown(s, S, k, f[k - 1])
          BY <2>1, <3>2
        <4>2. k # m + 1 /\ k - 1 # m + 1 /\ k - 1 \in 0..(m + 1)
          BY <3>2
        <4> QED
          BY <4>1, <4>2
      <3>3. CASE k = m + 1
        <4>1. k - 1 = m /\ m # m + 1 /\ m \in 0..(m + 1)
          BY <3>3
        <4> QED
          BY <3>3, <4>1
      <3> QED
        BY <3>1, <3>2, <3>3
    <2>3. g = [k \in 0..(m + 1) |-> g[k]]
      OBVIOUS
    <2> HIDE DEF g
    <2>4. g = [k \in 0..(m + 1) |-> Grown(s, S, k, g[k - 1])]
      BY <2>2, <2>3
    <2>5. m + 1 \in Nat
      OBVIOUS
    <2> QED
      BY <2>4, <2>5, Zenon DEF Grows
  <1>3. Good = Nat
    <2>1. Good \in SUBSET Nat
      OBVIOUS
    <2> HIDE DEF Good
    <2> QED
      BY <1>1, <1>2, <2>1, AllNumbers
  <1> QED
    BY <1>3

\* Kept is the last value of a function that grows.
LEMMA KeptGrows ==
    ASSUME NEW S, NEW R, NEW s \in Seq(R)
    PROVE  \E f : Grows(f, s, S, Len(s)) /\ Kept(s, S) = f[Len(s)]
  <1> DEFINE upTo == CHOOSE f : f = [k \in 0..Len(s) |->
                        IF k = 0 THEN <<>>
                        ELSE IF s[k] \in S THEN Append(f[k - 1], s[k]) ELSE f[k - 1]]
  <1>1. Kept(s, S) = upTo[Len(s)]
    BY DEF Kept
  <1>2. Len(s) \in Nat
    OBVIOUS
  <1>3. \E f : Grows(f, s, S, Len(s))
    BY <1>2, GrowsExists
  <1>4. Grows(upTo, s, S, Len(s))
    <2>1. \A f : Grows(f, s, S, Len(s)) <=> f = [k \in 0..Len(s) |->
                        IF k = 0 THEN <<>>
                        ELSE IF s[k] \in S THEN Append(f[k - 1], s[k]) ELSE f[k - 1]]
      BY DEF Grows, Grown
    <2> QED
      BY <1>3, <2>1, Zenon
  <1> QED
    BY <1>1, <1>4, Zenon

\* What is kept of a sequence are its elements that are in the set.
LEMMA KeptIsSelection ==
    ASSUME NEW R, NEW s \in Seq(R), NEW S
    PROVE  Kept(s, S) \in Seq(R) /\ ToSet(Kept(s, S)) = ToSet(s) \cap S
  <1>1. PICK f : Grows(f, s, S, Len(s)) /\ Kept(s, S) = f[Len(s)]
    BY KeptGrows
  <1>2. /\ Len(s) \in Nat /\ DOMAIN s = 1..Len(s)
        /\ \A k \in 1..Len(s) : s[k] \in R
    OBVIOUS
  <1>3. \A k \in 0..Len(s) : f[k] = Grown(s, S, k, f[k - 1])
    BY <1>1, Zenon DEF Grows
  <1> DEFINE upto(k) == {s[j] : j \in 1..k}
             Good == {k \in Nat : k <= Len(s) =>
                        f[k] \in Seq(R) /\ ToSet(f[k]) = upto(k) \cap S}
  <1>4. 0 \in Good
    <2>1. f[0] = <<>>
      BY <1>2, <1>3 DEF Grown
    <2>2. upto(0) = {} /\ ToSet(<<>>) = {} /\ <<>> \in Seq(R)
      BY DEF ToSet
    <2> QED
      BY <2>1, <2>2
  <1>5. ASSUME NEW k \in Good PROVE k + 1 \in Good
    <2> SUFFICES ASSUME k + 1 <= Len(s)
                 PROVE  f[k + 1] \in Seq(R) /\ ToSet(f[k + 1]) = upto(k + 1) \cap S
      OBVIOUS
    <2>1. f[k] \in Seq(R) /\ ToSet(f[k]) = upto(k) \cap S
      BY <1>2
    <2>2. /\ k + 1 \in 1..Len(s) /\ k + 1 \in 0..Len(s) /\ (k + 1) - 1 = k
          /\ k \in Nat /\ k + 1 # 0
      BY <1>2
    <2>3. f[k + 1] = IF s[k + 1] \in S THEN Append(f[k], s[k + 1]) ELSE f[k]
      BY <1>3, <2>2 DEF Grown
    <2>4. upto(k + 1) = upto(k) \cup {s[k + 1]}
      <3>1. 1..(k + 1) = (1..k) \cup {k + 1}
        BY <2>2
      <3> QED
        BY <3>1
    <2> HIDE DEF upto
    <2>5. ToSet(Append(f[k], s[k + 1])) = ToSet(f[k]) \cup {s[k + 1]}
      <3> DEFINE q == f[k]
                 x == s[k + 1]
      <3>1. q \in Seq(R) /\ x \in R /\ Len(q) \in Nat /\ DOMAIN q = 1..Len(q)
        BY <1>2, <2>1, <2>2
      <3> HIDE DEF q, x
      <3>2. /\ DOMAIN Append(q, x) = 1..(Len(q) + 1)
            /\ \A i \in 1..Len(q) : Append(q, x)[i] = q[i]
            /\ Append(q, x)[Len(q) + 1] = x
        BY <3>1
      <3>3. 1..(Len(q) + 1) = (1..Len(q)) \cup {Len(q) + 1}
        BY <3>1
      <3>4. ToSet(Append(q, x)) = ToSet(q) \cup {x}
        BY <3>1, <3>2, <3>3 DEF ToSet
      <3> QED
        BY <3>4 DEF q, x
    <2>6. CASE s[k + 1] \in S
      <3>1. f[k + 1] \in Seq(R)
        BY <1>2, <2>1, <2>2, <2>3, <2>6
      <3>2. ToSet(f[k + 1]) = upto(k + 1) \cap S
        BY <2>1, <2>3, <2>4, <2>5, <2>6
      <3> QED
        BY <3>1, <3>2
    <2>7. CASE s[k + 1] \notin S
      BY <2>1, <2>3, <2>4, <2>7
    <2> QED
      BY <2>6, <2>7
  <1>6. Good = Nat
    <2>1. Good \in SUBSET Nat
      OBVIOUS
    <2> HIDE DEF Good
    <2> QED
      BY <1>4, <1>5, <2>1, AllNumbers
  <1>7. upto(Len(s)) = ToSet(s)
    BY <1>2 DEF ToSet
  <1> HIDE DEF upto
  <1>8. f[Len(s)] \in Seq(R) /\ ToSet(f[Len(s)]) = upto(Len(s)) \cap S
    BY <1>2, <1>6
  <1> QED
    BY <1>1, <1>7, <1>8

------------------------------------------------------------------------------
(* The list and the files.  All that tells lists apart here is which bans    *)
(* are in them, and files who they ban.                                      *)

FileLine == [muid : MUID, bare : BOOLEAN]

\* What the list can hold: an mUID that is long is in it as it is.
ListedBan == {IPBan(ip) : ip \in IP} \cup {MUIDBan(m, TRUE) : m \in MUID}
                 \cup {MUIDBan(m, FALSE) : m \in MUID \ Long}

\* Whom a list bans, and whom lines of muidbans.txt do when they are read.
IPsOf(list) == {ip \in IP : IPBan(ip) \in ToSet(list)}
MUIDsOf(list) == {m \in MUID : MUIDBan(m, TRUE) \in ToSet(list)}
ReadableIn(lines) == {m \in Numeric : \E line \in ToSet(lines) :
                                          line.muid = m /\ (line.bare \/ m \in Long)}

\* No two bans are the same, whatever is banned.
LEMMA BansDiffer ==
    /\ \A ip, who : IPBan(ip) = IPBan(who) <=> ip = who
    /\ \A m, who : MUIDBan(m, TRUE) = MUIDBan(who, TRUE) <=> m = who
    /\ \A m, who : MUIDBan(m, TRUE) # MUIDBan(who, FALSE)
    /\ \A ip, m : IPBan(ip) # MUIDBan(m, TRUE) /\ IPBan(ip) # MUIDBan(m, FALSE)
    /\ \A ip : IPBan(ip).type = "IPBAN" /\ IPBan(ip).who = ip /\ IPBan(ip).exact
    /\ \A m : /\ MUIDBan(m, TRUE).type = "MUIDBAN" /\ MUIDBan(m, TRUE).who = m
              /\ MUIDBan(m, TRUE).exact
    /\ \A m : /\ MUIDBan(m, FALSE).type = "MUIDBAN" /\ MUIDBan(m, FALSE).who = m
              /\ ~MUIDBan(m, FALSE).exact
  BY DEF IPBan, MUIDBan

\* A sequence by its length and its elements.
LEMMA MadeSeq ==
    ASSUME NEW R, NEW n \in Nat, NEW f \in [1..n -> R]
    PROVE  f \in Seq(R) /\ ToSet(f) = {f[k] : k \in 1..n}
  BY DEF ToSet

\* The bans of the list by their types.
LEMMA BanIsOf ==
    ASSUME NEW ban \in ListedBan
    PROVE  /\ ban.type = "IPBAN" => ban.who \in IP /\ ban = IPBan(ban.who)
           /\ ban.type = "MUIDBAN" => /\ ban.who \in MUID
                                      /\ ban.who \in Long => ban = MUIDBan(ban.who, TRUE)
           /\ \A ip : MatchesIP(ban, ip) <=> ban = IPBan(ip)
           /\ \A m : MatchesMUID(ban, m) <=> ban = MUIDBan(m, TRUE)
  <1>1. "IPBAN" # "MUIDBAN" /\ TRUE # FALSE
    OBVIOUS
  <1>2. CASE \E ip \in IP : ban = IPBan(ip)
    <2>1. PICK ip \in IP : ban = IPBan(ip)
      BY <1>2
    <2>2. ban.type = "IPBAN" /\ ban.who = ip /\ \A m : ban # MUIDBan(m, TRUE)
      BY <2>1, BansDiffer, Zenon
    <2>3. \A who : ban = IPBan(who) <=> who = ip
      BY <2>1, BansDiffer, Zenon
    <2> QED
      BY <1>1, <2>1, <2>2, <2>3, Zenon DEF MatchesIP, MatchesMUID
  <1>3. CASE \E m \in MUID : ban = MUIDBan(m, TRUE)
    <2>1. PICK m \in MUID : ban = MUIDBan(m, TRUE)
      BY <1>3
    <2>2. /\ ban.type = "MUIDBAN" /\ ban.who = m /\ ban.exact
          /\ \A ip : ban # IPBan(ip)
      BY <2>1, BansDiffer, Zenon
    <2>3. \A who : ban = MUIDBan(who, TRUE) <=> who = m
      BY <2>1, BansDiffer, Zenon
    <2> QED
      BY <1>1, <2>1, <2>2, <2>3, Zenon DEF MatchesIP, MatchesMUID
  <1>4. CASE \E m \in MUID \ Long : ban = MUIDBan(m, FALSE)
    <2>1. PICK m \in MUID \ Long : ban = MUIDBan(m, FALSE)
      BY <1>4
    <2>2. ban.type = "MUIDBAN" /\ ban.who = m /\ ~ban.exact
      BY <2>1, BansDiffer, Zenon
    <2>3. (\A who : ban # MUIDBan(who, TRUE)) /\ \A ip : ban # IPBan(ip)
      BY <1>1, <2>1, BansDiffer, Zenon
    <2>4. m \in MUID /\ m \notin Long
      OBVIOUS
    <2> QED
      BY <1>1, <2>1, <2>2, <2>3, <2>4, Zenon DEF MatchesIP, MatchesMUID
  <1> QED
    BY <1>2, <1>3, <1>4, Zenon DEF ListedBan

\* Reading ipbans.txt.
LEMMA ReadIPsLists ==
    ASSUME NEW lines \in Seq(IP)
    PROVE  /\ ReadIPs(lines) \in Seq(ListedBan)
           /\ ToSet(ReadIPs(lines)) = {IPBan(ip) : ip \in ToSet(lines)}
  <1>1. /\ Len(lines) \in Nat /\ DOMAIN lines = 1..Len(lines)
        /\ \A k \in 1..Len(lines) : lines[k] \in IP
    OBVIOUS
  <1>2. \A k \in 1..Len(lines) : IPBan(lines[k]) \in ListedBan
    BY <1>1 DEF ListedBan
  <1>3. ReadIPs(lines) = [k \in 1..Len(lines) |-> IPBan(lines[k])]
    BY <1>1 DEF ReadIPs
  <1>4. ReadIPs(lines) \in Seq(ListedBan)
    BY <1>1, <1>2, <1>3
  <1>5. ToSet(ReadIPs(lines)) = {IPBan(ip) : ip \in ToSet(lines)}
    BY <1>1, <1>3 DEF ToSet
  <1> QED
    BY <1>4, <1>5

\* Reading muidbans.txt.
LEMMA ReadMUIDsLists ==
    ASSUME NEW lines \in Seq(FileLine)
    PROVE  /\ ReadMUIDs(lines) \in Seq(ListedBan)
           /\ \A ip : IPBan(ip) \notin ToSet(ReadMUIDs(lines))
           /\ \A m : MUIDBan(m, TRUE) \in ToSet(ReadMUIDs(lines)) <=> m \in ReadableIn(lines)
  <1> DEFINE kept == Kept(lines, [muid : Numeric, bare : BOOLEAN])
             how(line) == line.bare \/ line.muid \in Long
             ban(line) == MUIDBan(line.muid, how(line))
             read == ReadMUIDs(lines)
  <1>1. /\ kept \in Seq(FileLine)
        /\ ToSet(kept) = ToSet(lines) \cap [muid : Numeric, bare : BOOLEAN]
    BY KeptIsSelection
  <1>2. read = [k \in DOMAIN kept |-> ban(kept[k])]
    BY DEF ReadMUIDs
  <1>3. \A line \in FileLine : line \in [muid : Numeric, bare : BOOLEAN] <=> line.muid \in Numeric
    BY BanListAssumption DEF FileLine
  <1>4. \A line : how(line) = TRUE \/ how(line) = FALSE
    OBVIOUS
  <1>5. \A line : how(line) = FALSE => line.muid \notin Long
    OBVIOUS
  <1>6. \A line \in FileLine : line.muid \in MUID
    BY DEF FileLine
  <1> HIDE DEF how
  <1>7. ASSUME NEW line \in FileLine PROVE ban(line) \in ListedBan
    <2>1. CASE how(line) = TRUE
      <3>1. ban(line) = MUIDBan(line.muid, TRUE)
        BY <2>1, Zenon
      <3> QED
        BY <1>6, <3>1, Zenon DEF ListedBan
    <2>2. CASE how(line) = FALSE
      <3>1. ban(line) = MUIDBan(line.muid, FALSE) /\ line.muid \in MUID \ Long
        BY <1>5, <1>6, <2>2
      <3> QED
        BY <3>1, Zenon DEF ListedBan
    <2> QED
      BY <1>4, <2>1, <2>2, Zenon
  <1> HIDE DEF kept, ban, read
  <1>8. /\ Len(kept) \in Nat /\ DOMAIN kept = 1..Len(kept)
        /\ \A k \in 1..Len(kept) : kept[k] \in FileLine
    BY <1>1
  <1>9. read \in Seq(ListedBan) /\ ToSet(read) = {ban(line) : line \in ToSet(kept)}
    <2>1. /\ read \in [1..Len(kept) -> ListedBan]
          /\ \A k \in 1..Len(kept) : read[k] = ban(kept[k])
      BY <1>2, <1>7, <1>8
    <2>2. read \in Seq(ListedBan) /\ ToSet(read) = {read[k] : k \in 1..Len(kept)}
      <3>1. read \in [1..Len(kept) -> ListedBan] /\ Len(kept) \in Nat
        BY <1>8, <2>1
      <3> QED
        BY <3>1, MadeSeq
    <2> QED
      BY <1>8, <2>1, <2>2 DEF ToSet
  <1>10. \A ip : IPBan(ip) \notin ToSet(read)
    <2>1. \A ip, m, e : IPBan(ip) # MUIDBan(m, e)
      BY DEF IPBan, MUIDBan
    <2>2. \A ip, line : IPBan(ip) # ban(line)
      BY <2>1, Zenon DEF ban
    <2> QED
      BY <1>9, <2>2, Zenon
  <1>11. ASSUME NEW m PROVE MUIDBan(m, TRUE) \in ToSet(read) <=> m \in ReadableIn(lines)
    <2>1. MUIDBan(m, TRUE) \in ToSet(read) <=>
            \E line \in ToSet(kept) : m = line.muid /\ TRUE = how(line)
      <3>1. \A line : MUIDBan(m, TRUE) = ban(line) <=> m = line.muid /\ TRUE = how(line)
        <4>1. \A line : how(line) = TRUE => ban(line) = MUIDBan(line.muid, TRUE)
          BY Zenon DEF ban
        <4>2. \A line : how(line) = FALSE => ban(line) = MUIDBan(line.muid, FALSE)
          BY Zenon DEF ban
        <4>3. TRUE # FALSE
          OBVIOUS
        <4>4. \A l : /\ MUIDBan(m, TRUE) = MUIDBan(l, TRUE) <=> m = l
                     /\ MUIDBan(m, TRUE) # MUIDBan(l, FALSE)
          BY BansDiffer, Zenon
        <4> SUFFICES ASSUME NEW line
                     PROVE  MUIDBan(m, TRUE) = ban(line) <=> m = line.muid /\ TRUE = how(line)
          OBVIOUS
        <4>5. CASE how(line) = TRUE
          <5>1. ban(line) = MUIDBan(line.muid, TRUE)
            BY <4>1, <4>5, Zenon
          <5>2. MUIDBan(m, TRUE) = MUIDBan(line.muid, TRUE) <=> m = line.muid
            BY <4>4, Zenon
          <5> QED
            BY <4>5, <5>1, <5>2, Zenon
        <4>6. CASE how(line) = FALSE
          <5>1. ban(line) = MUIDBan(line.muid, FALSE)
            BY <4>2, <4>6, Zenon
          <5>2. MUIDBan(m, TRUE) # MUIDBan(line.muid, FALSE)
            BY <4>4, Zenon
          <5> QED
            BY <4>3, <4>6, <5>1, <5>2, Zenon
        <4> QED
          BY <1>4, <4>5, <4>6, Zenon
      <3> QED
        BY <1>9, <3>1, Zenon
    <2>2. \A line \in ToSet(lines) : line \in FileLine
      BY DEF ToSet
    <2>3. \A line : line \in ToSet(kept) <=> line \in ToSet(lines) /\ line.muid \in Numeric
      BY <1>1, <1>3, <2>2
    <2>4. \A line : TRUE = how(line) <=> line.bare \/ line.muid \in Long
      BY Zenon DEF how
    <2> QED
      BY <2>1, <2>3, <2>4 DEF ReadableIn
  <1> QED
    BY <1>9, <1>10, <1>11, Zenon DEF read

\* What is in two sequences is in the one behind the other.
LEMMA JoinedHas ==
    ASSUME NEW R, NEW s \in Seq(R), NEW t \in Seq(R)
    PROVE  s \o t \in Seq(R) /\ ToSet(s \o t) = ToSet(s) \cup ToSet(t)
  <1>1. /\ Len(s) \in Nat /\ DOMAIN s = 1..Len(s)
        /\ Len(t) \in Nat /\ DOMAIN t = 1..Len(t)
    OBVIOUS
  <1>2. /\ s \o t \in Seq(R) /\ DOMAIN (s \o t) = 1..(Len(s) + Len(t))
        /\ \A k \in 1..(Len(s) + Len(t)) :
                (s \o t)[k] = IF k <= Len(s) THEN s[k] ELSE t[k - Len(s)]
    BY <1>1
  <1>3. ASSUME NEW x \in ToSet(s \o t) PROVE x \in ToSet(s) \cup ToSet(t)
    <2>1. PICK k \in 1..(Len(s) + Len(t)) : (s \o t)[k] = x
      BY <1>2, <1>3 DEF ToSet
    <2>2. CASE k <= Len(s)
      <3>1. k \in 1..Len(s) /\ s[k] = x
        BY <1>1, <1>2, <2>1, <2>2
      <3> QED
        BY <1>1, <3>1 DEF ToSet
    <2>3. CASE ~(k <= Len(s))
      <3>1. k - Len(s) \in 1..Len(t) /\ t[k - Len(s)] = x
        BY <1>1, <1>2, <2>1, <2>3
      <3> QED
        BY <1>1, <3>1 DEF ToSet
    <2> QED
      BY <2>2, <2>3
  <1>4. ASSUME NEW x \in ToSet(s) PROVE x \in ToSet(s \o t)
    <2>1. PICK k \in 1..Len(s) : s[k] = x
      BY <1>1 DEF ToSet
    <2>2. k \in 1..(Len(s) + Len(t)) /\ (s \o t)[k] = x
      BY <1>1, <1>2, <2>1
    <2> QED
      BY <1>2, <2>2 DEF ToSet
  <1>5. ASSUME NEW x \in ToSet(t) PROVE x \in ToSet(s \o t)
    <2>1. PICK k \in 1..Len(t) : t[k] = x
      BY <1>1 DEF ToSet
    <2>2. /\ Len(s) + k \in 1..(Len(s) + Len(t)) /\ ~(Len(s) + k <= Len(s))
          /\ (Len(s) + k) - Len(s) = k
      BY <1>1
    <2>3. (s \o t)[Len(s) + k] = x
      BY <1>2, <2>1, <2>2
    <2> QED
      BY <1>2, <2>2, <2>3 DEF ToSet
  <1> QED
    BY <1>2, <1>3, <1>4, <1>5

\* The list read from the files has the bans of those that could be opened.
LEMMA ReadBack ==
    ASSUME NEW ips \in Seq(IP), NEW muids \in Seq(FileLine), NEW reads
    PROVE  LET list == X_ReadBannedList(ips, muids, reads)
           IN  /\ list \in Seq(ListedBan)
               /\ IPsOf(list) = IF "ipbans.txt" \in reads THEN ToSet(ips) ELSE {}
               /\ MUIDsOf(list) = IF "muidbans.txt" \in reads THEN ReadableIn(muids) ELSE {}
  <1> DEFINE a == IF "ipbans.txt" \in reads THEN ips ELSE <<>>
             b == IF "muidbans.txt" \in reads THEN muids ELSE <<>>
             s == ReadIPs(a)
             t == ReadMUIDs(b)
  <1>1. X_ReadBannedList(ips, muids, reads) = s \o t
    BY Zenon DEF X_ReadBannedList
  <1>2. /\ <<>> \in Seq(IP) /\ <<>> \in Seq(FileLine) /\ ToSet(<<>>) = {}
    BY DEF ToSet
  <1>3. /\ a \in Seq(IP) /\ ToSet(a) = IF "ipbans.txt" \in reads THEN ToSet(ips) ELSE {}
        /\ b \in Seq(FileLine)
    BY <1>2, Zenon
  <1>4. ReadableIn(b) = IF "muidbans.txt" \in reads THEN ReadableIn(muids) ELSE {}
    <2>1. ReadableIn(<<>>) = {}
      BY <1>2 DEF ReadableIn
    <2> QED
      BY <2>1, Zenon
  <1> HIDE DEF a, b
  <1>5. s \in Seq(ListedBan) /\ ToSet(s) = {IPBan(ip) : ip \in ToSet(a)}
    BY <1>3, ReadIPsLists, Zenon
  <1>6. /\ t \in Seq(ListedBan)
        /\ \A ip : IPBan(ip) \notin ToSet(t)
        /\ \A m : MUIDBan(m, TRUE) \in ToSet(t) <=> m \in ReadableIn(b)
    BY <1>3, ReadMUIDsLists, Zenon
  <1> HIDE DEF s, t
  <1>7. s \o t \in Seq(ListedBan) /\ ToSet(s \o t) = ToSet(s) \cup ToSet(t)
    BY <1>5, <1>6, JoinedHas, Zenon
  <1>8. \A ip : IPBan(ip) \in ToSet(s \o t) <=> ip \in ToSet(a)
    <2>1. \A ip : IPBan(ip) \in ToSet(s) <=> ip \in ToSet(a)
      BY <1>5, BansDiffer
    <2> QED
      BY <1>6, <1>7, <2>1
  <1>9. \A m : MUIDBan(m, TRUE) \in ToSet(s \o t) <=> m \in ReadableIn(b)
    <2>1. \A m : MUIDBan(m, TRUE) \notin ToSet(s)
      <3> DEFINE ban(m) == MUIDBan(m, TRUE)
      <3>1. \A m, ip : ban(m) # IPBan(ip)
        BY BansDiffer
      <3> HIDE DEF ban
      <3>2. \A m : ban(m) \notin ToSet(s)
        BY <1>5, <3>1
      <3> QED
        BY <3>2 DEF ban
    <2> QED
      BY <1>6, <1>7, <2>1, Zenon
  <1>10. ToSet(a) \subseteq IP /\ ReadableIn(b) \subseteq MUID
    BY <1>3, BanListAssumption DEF ToSet, ReadableIn
  <1>11. IPsOf(s \o t) = ToSet(a) /\ MUIDsOf(s \o t) = ReadableIn(b)
    BY <1>8, <1>9, <1>10, Zenon DEF IPsOf, MUIDsOf
  <1> QED
    BY <1>1, <1>3, <1>4, <1>7, <1>11, Zenon

\* An element more.
LEMMA AppendedHas ==
    ASSUME NEW R, NEW s \in Seq(R), NEW x \in R
    PROVE  Append(s, x) \in Seq(R) /\ ToSet(Append(s, x)) = ToSet(s) \cup {x}
  <1>1. Len(s) \in Nat /\ DOMAIN s = 1..Len(s)
    OBVIOUS
  <1>2. /\ DOMAIN Append(s, x) = 1..(Len(s) + 1)
        /\ \A i \in 1..Len(s) : Append(s, x)[i] = s[i]
        /\ Append(s, x)[Len(s) + 1] = x
    BY <1>1
  <1>3. 1..(Len(s) + 1) = (1..Len(s)) \cup {Len(s) + 1}
    BY <1>1
  <1>4. ToSet(Append(s, x)) = ToSet(s) \cup {x}
    BY <1>1, <1>2, <1>3 DEF ToSet
  <1> QED
    BY <1>4

\* The first elements.
LEMMA FirstLines ==
    ASSUME NEW R, NEW s \in Seq(R), NEW n \in Nat, n <= Len(s)
    PROVE  /\ SubSeq(s, 1, n) \in Seq(R) /\ Len(SubSeq(s, 1, n)) = n
           /\ ToSet(SubSeq(s, 1, n)) \subseteq ToSet(s)
  <1>1. Len(s) \in Nat /\ DOMAIN s = 1..Len(s)
    OBVIOUS
  <1>2. /\ SubSeq(s, 1, n) \in Seq(R) /\ Len(SubSeq(s, 1, n)) = n
        /\ DOMAIN SubSeq(s, 1, n) = 1..n
        /\ \A k \in 1..n : SubSeq(s, 1, n)[k] = s[k] /\ k \in 1..Len(s)
    BY <1>1
  <1> QED
    BY <1>1, <1>2 DEF ToSet

\* What unbanip writes back.
LEMMA WrittenIPs ==
    ASSUME NEW list \in Seq(ListedBan)
    PROVE  IPLines(list) \in Seq(IP) /\ ToSet(IPLines(list)) = IPsOf(list)
  <1> DEFINE bans == Kept(list, {ban \in ToSet(list) : ban.type = "IPBAN"})
  <1>1. bans \in Seq(ListedBan) /\ ToSet(bans) = {ban \in ToSet(list) : ban.type = "IPBAN"}
    BY KeptIsSelection
  <1>2. IPLines(list) = [k \in DOMAIN bans |-> bans[k].who]
    BY DEF IPLines
  <1> HIDE DEF bans
  <1>3. /\ Len(bans) \in Nat /\ DOMAIN bans = 1..Len(bans)
        /\ \A k \in 1..Len(bans) : bans[k] \in ListedBan /\ bans[k] \in ToSet(bans)
    BY <1>1 DEF ToSet
  <1>4. \A ban \in ListedBan :
            ban.type = "IPBAN" => ban.who \in IP /\ ban = IPBan(ban.who)
    BY BanIsOf, Zenon
  <1>5. \A k \in 1..Len(bans) : bans[k].who \in IP /\ bans[k] = IPBan(bans[k].who)
    BY <1>1, <1>3, <1>4
  <1>6. IPLines(list) \in Seq(IP)
    BY <1>2, <1>3, <1>5
  <1>7. ToSet(IPLines(list)) = {bans[k].who : k \in 1..Len(bans)}
    BY <1>2, <1>3 DEF ToSet
  <1>8. ASSUME NEW ip \in IP
        PROVE  IPBan(ip) \in ToSet(list) <=> \E k \in 1..Len(bans) : bans[k].who = ip
    <2>1. ASSUME IPBan(ip) \in ToSet(list) PROVE \E k \in 1..Len(bans) : bans[k].who = ip
      <3>1. IPBan(ip) \in ToSet(bans)
        BY <1>1, <2>1, BansDiffer
      <3>2. PICK k \in 1..Len(bans) : bans[k] = IPBan(ip)
        BY <1>3, <3>1, Zenon DEF ToSet
      <3> QED
        BY <3>2, BansDiffer, Zenon
    <2>2. ASSUME NEW k \in 1..Len(bans), bans[k].who = ip PROVE IPBan(ip) \in ToSet(list)
      BY <1>1, <1>3, <1>5, <2>2
    <2> QED
      BY <2>1, <2>2
  <1> QED
    BY <1>5, <1>6, <1>7, <1>8 DEF IPsOf

\* What unbanmuid writes back: of the bans of mUIDs in force, those that last can
\* be read again.
LEMMA WrittenMUIDs ==
    ASSUME NEW list \in Seq(ListedBan)
    PROVE  /\ MUIDLines(list) \in Seq(FileLine)
           /\ ReadableIn(MUIDLines(list)) = MUIDsOf(list) \cap Long \cap Numeric
  <1> DEFINE bans == Kept(list, {ban \in ToSet(list) : ban.type = "MUIDBAN"})
  <1>1. bans \in Seq(ListedBan) /\ ToSet(bans) = {ban \in ToSet(list) : ban.type = "MUIDBAN"}
    BY KeptIsSelection
  <1>2. MUIDLines(list) = [k \in DOMAIN bans |-> Line(bans[k].who)]
    BY DEF MUIDLines
  <1> HIDE DEF bans
  <1>3. /\ Len(bans) \in Nat /\ DOMAIN bans = 1..Len(bans)
        /\ \A k \in 1..Len(bans) : bans[k] \in ListedBan /\ bans[k] \in ToSet(bans)
    BY <1>1 DEF ToSet
  <1>4. \A ban \in ListedBan :
            ban.type = "MUIDBAN" => /\ ban.who \in MUID
                                    /\ ban.who \in Long => ban = MUIDBan(ban.who, TRUE)
    BY BanIsOf, Zenon
  <1>5. \A k \in 1..Len(bans) :
            /\ bans[k].who \in MUID /\ bans[k] \in ToSet(list)
            /\ bans[k].who \in Long => bans[k] = MUIDBan(bans[k].who, TRUE)
    BY <1>1, <1>3, <1>4
  <1>6. \A m \in MUID : Line(m) \in FileLine /\ Line(m).muid = m /\ Line(m).bare = FALSE
    BY DEF Line, FileLine
  <1> DEFINE line(k) == Line(bans[k].who)
             written == MUIDLines(list)
  <1>7. /\ written = [k \in 1..Len(bans) |-> line(k)]
        /\ \A k \in 1..Len(bans) : /\ line(k) \in FileLine /\ line(k).muid = bans[k].who
                                   /\ line(k).bare = FALSE
    BY <1>2, <1>3, <1>5, <1>6, Zenon
  <1> HIDE DEF line, written
  <1>8. written \in Seq(FileLine) /\ ToSet(written) = {line(k) : k \in 1..Len(bans)}
    <2>1. /\ written \in [1..Len(bans) -> FileLine]
          /\ \A k \in 1..Len(bans) : written[k] = line(k)
      BY <1>7
    <2>2. written \in Seq(FileLine) /\ ToSet(written) = {written[k] : k \in 1..Len(bans)}
      BY <1>3, <2>1, MadeSeq
    <2> QED
      BY <2>1, <2>2
  <1>9. ASSUME NEW m
        PROVE  m \in ReadableIn(written) <=>
                    m \in Numeric /\ m \in Long /\ \E k \in 1..Len(bans) : bans[k].who = m
    <2>1. m \in ReadableIn(written) <=>
              m \in Numeric /\ \E k \in 1..Len(bans) :
                    line(k).muid = m /\ (line(k).bare \/ m \in Long)
      BY <1>8 DEF ReadableIn
    <2> QED
      BY <1>7, <2>1
  <1>10. ASSUME NEW m \in Long
         PROVE  MUIDBan(m, TRUE) \in ToSet(list) <=> \E k \in 1..Len(bans) : bans[k].who = m
    <2>1. ASSUME MUIDBan(m, TRUE) \in ToSet(list)
          PROVE  \E k \in 1..Len(bans) : bans[k].who = m
      <3>1. MUIDBan(m, TRUE) \in ToSet(bans)
        BY <1>1, <2>1, BansDiffer, Zenon
      <3>2. PICK k \in 1..Len(bans) : bans[k] = MUIDBan(m, TRUE)
        BY <1>3, <3>1, Zenon DEF ToSet
      <3> QED
        BY <3>2, BansDiffer, Zenon
    <2>2. ASSUME NEW k \in 1..Len(bans), bans[k].who = m
          PROVE  MUIDBan(m, TRUE) \in ToSet(list)
      BY <1>5, <2>2, Zenon
    <2> QED
      BY <2>1, <2>2
  <1>11. Long \subseteq MUID
    BY BanListAssumption
  <1> QED
    BY <1>8, <1>9, <1>10, <1>11 DEF MUIDsOf, written

\* Who is banned by a list is whom it has bans of.
LEMMA WhoIsBanned ==
    ASSUME NEW list \in Seq(ListedBan)
    PROVE  /\ \A ip \in IP : (\E k \in DOMAIN list : MatchesIP(list[k], ip)) <=> ip \in IPsOf(list)
           /\ \A m \in MUID :
                (\E k \in DOMAIN list : MatchesMUID(list[k], m)) <=> m \in MUIDsOf(list)
  <1>1. \A ban \in ListedBan : \A ip : MatchesIP(ban, ip) <=> ban = IPBan(ip)
    BY BanIsOf, Zenon
  <1>2. \A ban \in ListedBan : \A m : MatchesMUID(ban, m) <=> ban = MUIDBan(m, TRUE)
    BY BanIsOf, Zenon
  <1>3. \A k \in DOMAIN list : list[k] \in ListedBan
    OBVIOUS
  <1>4. \A ban : ban \in ToSet(list) <=> \E k \in DOMAIN list : list[k] = ban
    BY DEF ToSet
  <1>5. \A ip \in IP :
            (\E k \in DOMAIN list : MatchesIP(list[k], ip)) <=> ip \in IPsOf(list)
    BY <1>1, <1>3, <1>4, Zenon DEF IPsOf
  <1>6. \A m \in MUID :
            (\E k \in DOMAIN list : MatchesMUID(list[k], m)) <=> m \in MUIDsOf(list)
    BY <1>2, <1>3, <1>4, Zenon DEF MUIDsOf
  <1> QED
    BY <1>5, <1>6

------------------------------------------------------------------------------
(* The invariant.  An mUID that is long is in the list as it is; who is in   *)
(* the game has an address, so that what is added to the list can be written *)
(* to a file.                                                                *)

SlotRec == {c \in [used : BOOLEAN, ip : IP \cup {"none"}, muid : MUID \cup {NoMUID}] :
                c.used => c.ip \in IP}

BansInv ==
    /\ ipbans \in Seq(IP)
    /\ muidbans \in Seq(FileLine)
    /\ banlist \in Seq(ListedBan)
    /\ clients \in [ClientNum -> SlotRec]

\* The refinement mapping in other words.
LEMMA ListSays ==
    /\ BansInv => BannedIPs = IPsOf(banlist) /\ BannedMUIDs = MUIDsOf(banlist)
    /\ BansInv' => BannedIPs' = IPsOf(banlist') /\ BannedMUIDs' = MUIDsOf(banlist')
    /\ KeptMUIDs = ReadableIn(muidbans) /\ KeptMUIDs' = ReadableIn(muidbans')
    /\ KeptIPs = ToSet(ipbans) /\ KeptIPs' = ToSet(ipbans')
    /\ BansInv => KeptIPs \subseteq IP /\ KeptMUIDs \subseteq MUID
    /\ BansInv' => KeptIPs' \subseteq IP /\ KeptMUIDs' \subseteq MUID
  <1>1. ASSUME NEW list \in Seq(ListedBan)
        PROVE  /\ {ip \in IP : \E k \in DOMAIN list : MatchesIP(list[k], ip)} = IPsOf(list)
               /\ {m \in MUID : \E k \in DOMAIN list : MatchesMUID(list[k], m)} = MUIDsOf(list)
    <2>1. IPsOf(list) \subseteq IP /\ MUIDsOf(list) \subseteq MUID
      BY DEF IPsOf, MUIDsOf
    <2> QED
      BY <2>1, WhoIsBanned
  <1>2. \A ips \in Seq(IP) : ToSet(ips) \subseteq IP
    BY DEF ToSet
  <1>3. \A lines : ReadableIn(lines) \subseteq MUID
    BY BanListAssumption DEF ReadableIn
  <1>4. KeptMUIDs = ReadableIn(muidbans) /\ KeptMUIDs' = ReadableIn(muidbans')
    BY DEF KeptMUIDs, ReadableIn
  <1>5. KeptIPs = ToSet(ipbans) /\ KeptIPs' = ToSet(ipbans')
    BY DEF KeptIPs
  <1>6. BansInv => BannedIPs = IPsOf(banlist) /\ BannedMUIDs = MUIDsOf(banlist)
    BY <1>1 DEF BansInv, BannedIPs, BannedMUIDs
  <1>7. BansInv' => BannedIPs' = IPsOf(banlist') /\ BannedMUIDs' = MUIDsOf(banlist')
    BY <1>1 DEF BansInv, BannedIPs, BannedMUIDs
  <1> QED
    BY <1>2, <1>3, <1>4, <1>5, <1>6, <1>7 DEF BansInv

\* Freeing a slot keeps the type of the slots.
LEMMA FreeKeepsSlots ==
    ASSUME clients \in [ClientNum -> SlotRec]
    PROVE  /\ \A i : [clients EXCEPT ![i] = Free] \in [ClientNum -> SlotRec]
           /\ \A matched : DropFirst(matched) => clients' \in [ClientNum -> SlotRec]
           /\ [i \in ClientNum |-> Free] \in [ClientNum -> SlotRec]
  <1>1. Free \in SlotRec
    BY DEF Free, SlotRec, NoMUID
  <1>2. \A i : [clients EXCEPT ![i] = Free] \in [ClientNum -> SlotRec]
    BY <1>1
  <1>3. \A matched : DropFirst(matched) => clients' \in [ClientNum -> SlotRec]
    BY <1>2, Zenon DEF DropFirst
  <1>4. [i \in ClientNum |-> Free] \in [ClientNum -> SlotRec]
    BY <1>1
  <1> QED
    BY <1>2, <1>3, <1>4

\* The part of a set that lies in some of two others.
PartOf(part, whole, A, B) ==
    \E read \in SUBSET {A, B} : part = whole \cap UNION read

\* Of two disjoint sets, those that are chosen.
LEMMA OfEither ==
    \A A, B : A \cap B = {} =>
        \A a \in SUBSET A, b \in SUBSET B : \A first \in {a, {}}, second \in {b, {}} :
            PartOf(first \cup second, a \cup b, A, B)
  <1> SUFFICES ASSUME NEW A, NEW B, A \cap B = {}, NEW a \in SUBSET A, NEW b \in SUBSET B,
                      NEW first \in {a, {}}, NEW second \in {b, {}}
               PROVE  PartOf(first \cup second, a \cup b, A, B)
    BY Zenon
  <1>1. /\ {} \in SUBSET {A, B} /\ {A} \in SUBSET {A, B}
        /\ {B} \in SUBSET {A, B} /\ {A, B} \in SUBSET {A, B}
    OBVIOUS
  <1>2. /\ first = a \/ first = {}
        /\ second = b \/ second = {}
    OBVIOUS
  <1>3. /\ (a \cup b) \cap UNION {A, B} = a \cup b
        /\ (a \cup b) \cap UNION {A} = a \cup {}
        /\ (a \cup b) \cap UNION {B} = {} \cup b
        /\ (a \cup b) \cap UNION {} = {} \cup {}
    OBVIOUS
  <1> QED
    BY <1>1, <1>2, <1>3, Zenon DEF PartOf

\* What the register knows: whom the list bans, and whom the files would.
LEMMA RegisterIs ==
    /\ Register!Subject = IP \cup MUID
    /\ BansInv => /\ BannedIPs \cup BannedMUIDs = IPsOf(banlist) \cup MUIDsOf(banlist)
                  /\ KeptIPs \cup KeptMUIDs = ToSet(ipbans) \cup ReadableIn(muidbans)
    /\ IP \cap MUID = {} /\ Long \subseteq MUID
  BY ListSays, BanListAssumption DEF Register!Subject

\* A step that ends with reading the files again.
LEMMA RereadStep ==
    ASSUME ipbans' \in Seq(IP), muidbans' \in Seq(FileLine), NEW reads,
           banlist' = X_ReadBannedList(ipbans', muidbans', reads),
           clients' \in [ClientNum -> SlotRec]
    PROVE  BansInv' /\ Register!Read
  <1>1. /\ banlist' \in Seq(ListedBan)
        /\ IPsOf(banlist') = IF "ipbans.txt" \in reads THEN ToSet(ipbans') ELSE {}
        /\ MUIDsOf(banlist') = IF "muidbans.txt" \in reads THEN ReadableIn(muidbans') ELSE {}
    BY ReadBack
  <1>2. BansInv'
    BY <1>1 DEF BansInv
  <1>3. /\ BannedIPs' = IF "ipbans.txt" \in reads THEN KeptIPs' ELSE {}
        /\ BannedMUIDs' = IF "muidbans.txt" \in reads THEN KeptMUIDs' ELSE {}
        /\ KeptIPs' \in SUBSET IP /\ KeptMUIDs' \in SUBSET MUID
    BY <1>1, <1>2, ListSays
  <1>4. \E read \in SUBSET {IP, MUID} :
            (IF "ipbans.txt" \in reads THEN KeptIPs' ELSE {}) \cup
                    (IF "muidbans.txt" \in reads THEN KeptMUIDs' ELSE {}) =
                (KeptIPs' \cup KeptMUIDs') \cap UNION read
    <2>1. IP \cap MUID = {}
      BY BanListAssumption
    <2> DEFINE first == IF "ipbans.txt" \in reads THEN KeptIPs' ELSE {}
               second == IF "muidbans.txt" \in reads THEN KeptMUIDs' ELSE {}
    <2>2. first \in {KeptIPs', {}} /\ second \in {KeptMUIDs', {}}
      OBVIOUS
    <2> HIDE DEF first, second
    <2>3. PartOf(first \cup second, KeptIPs' \cup KeptMUIDs', IP, MUID)
      BY <1>3, <2>1, <2>2, OfEither, Zenon
    <2> QED
      BY <2>3, Zenon DEF PartOf, first, second
  <1>5. Register!Read
    BY <1>3, <1>4, Zenon DEF Register!Read
  <1> QED
    BY <1>2, <1>5

\* banip: a ban more, or none if the file could not be opened.
LEMMA BanIPStep ==
    ASSUME BansInv, NEW ip \in IP, NEW opens \in BOOLEAN, NEW reads,
           SV_BanIP_f(ip, opens, reads)
    PROVE  BansInv' /\ (Register!Ban(ip) \/ Register!FailedBan(ip))
  <1>1. /\ ipbans' = IF opens THEN Append(ipbans, ip) ELSE ipbans
        /\ banlist' = X_ReadBannedList(ipbans', muidbans, reads) /\ muidbans' = muidbans
        /\ printed' = <<"banned", ip>>
    BY Zenon DEF SV_BanIP_f, Prints
  <1>2. /\ ipbans \in Seq(IP) /\ muidbans \in Seq(FileLine)
        /\ clients \in [ClientNum -> SlotRec]
    BY DEF BansInv
  <1>3. clients' \in [ClientNum -> SlotRec]
    BY <1>2, FreeKeepsSlots, Zenon DEF SV_BanIP_f
  <1>4. Append(ipbans, ip) \in Seq(IP) /\ ToSet(Append(ipbans, ip)) = ToSet(ipbans) \cup {ip}
    BY <1>2, AppendedHas
  <1>5. BansInv' /\ Register!Read
    BY <1>1, <1>2, <1>3, <1>4, RereadStep
  <1>6. CASE opens
    <2>1. KeptIPs' = KeptIPs \cup {ip} /\ KeptMUIDs' = KeptMUIDs
      BY <1>1, <1>4, <1>6, ListSays
    <2>2. {ip} \cap (IP \cup (Long \cap Numeric)) = {ip}
      OBVIOUS
    <2>3. KeptIPs' \cup KeptMUIDs' =
              (KeptIPs \cup KeptMUIDs) \cup ({ip} \cap (IP \cup (Long \cap Numeric)))
      BY <2>1, <2>2
    <2> QED
      BY <1>1, <1>5, <2>3, Zenon DEF Register!Ban
  <1>7. CASE ~opens
    <2>1. KeptIPs' = KeptIPs /\ KeptMUIDs' = KeptMUIDs
      BY <1>1, <1>7, ListSays
    <2> QED
      BY <1>1, <1>5, <2>1, Zenon DEF Register!FailedBan
  <1> QED
    BY <1>5, <1>6, <1>7

\* A line more in muidbans.txt: it is read back if the mUID lasts.
LEMMA LineMore ==
    ASSUME NEW lines \in Seq(FileLine), NEW m \in MUID
    PROVE  /\ Append(lines, Line(m)) \in Seq(FileLine)
           /\ ReadableIn(Append(lines, Line(m))) =
                  ReadableIn(lines) \cup ({m} \cap Long \cap Numeric)
  <1>1. Line(m) \in FileLine /\ Line(m).muid = m /\ Line(m).bare = FALSE
    BY DEF Line, FileLine
  <1>2. /\ Append(lines, Line(m)) \in Seq(FileLine)
        /\ ToSet(Append(lines, Line(m))) = ToSet(lines) \cup {Line(m)}
    BY <1>1, AppendedHas
  <1>3. \A x : x \in ReadableIn(Append(lines, Line(m))) <=>
            \/ x \in ReadableIn(lines)
            \/ x \in Numeric /\ x = m /\ x \in Long
    BY <1>1, <1>2 DEF ReadableIn
  <1> QED
    BY <1>2, <1>3

\* banmuid, the same.
LEMMA BanMUIDStep ==
    ASSUME BansInv, NEW m \in MUID, NEW opens \in BOOLEAN, NEW reads,
           SV_BanMUID_f(m, opens, reads)
    PROVE  BansInv' /\ (Register!Ban(m) \/ Register!FailedBan(m))
  <1>1. /\ muidbans' = IF opens THEN Append(muidbans, Line(m)) ELSE muidbans
        /\ banlist' = X_ReadBannedList(ipbans, muidbans', reads) /\ ipbans' = ipbans
        /\ printed' = <<"banned", m>>
    BY Zenon DEF SV_BanMUID_f, Prints
  <1>2. /\ ipbans \in Seq(IP) /\ muidbans \in Seq(FileLine)
        /\ clients \in [ClientNum -> SlotRec]
    BY DEF BansInv
  <1>3. clients' \in [ClientNum -> SlotRec]
    BY <1>2, FreeKeepsSlots, Zenon DEF SV_BanMUID_f
  <1>4. /\ Append(muidbans, Line(m)) \in Seq(FileLine)
        /\ ReadableIn(Append(muidbans, Line(m))) =
               ReadableIn(muidbans) \cup ({m} \cap Long \cap Numeric)
    BY <1>2, LineMore
  <1>5. BansInv' /\ Register!Read
    BY <1>1, <1>2, <1>3, <1>4, RereadStep
  <1>6. CASE opens
    <2>1. KeptMUIDs' = KeptMUIDs \cup ({m} \cap Long \cap Numeric) /\ KeptIPs' = KeptIPs
      BY <1>1, <1>4, <1>6, ListSays
    <2>2. {m} \cap (IP \cup (Long \cap Numeric)) = {m} \cap Long \cap Numeric
      BY BanListAssumption
    <2>3. KeptIPs' \cup KeptMUIDs' =
              (KeptIPs \cup KeptMUIDs) \cup ({m} \cap (IP \cup (Long \cap Numeric)))
      BY <2>1, <2>2
    <2> QED
      BY <1>1, <1>5, <2>3, Zenon DEF Register!Ban
  <1>7. CASE ~opens
    <2>1. KeptIPs' = KeptIPs /\ KeptMUIDs' = KeptMUIDs
      BY <1>1, <1>7, ListSays
    <2> QED
      BY <1>1, <1>5, <2>1, Zenon DEF Register!FailedBan
  <1> QED
    BY <1>5, <1>6, <1>7

\* The lines an unban of an IP has to write, however often the address stands in
\* the list, and wherever: all others in force.
LEMMA LeftIPs ==
    ASSUME BansInv, NEW ip \in IP
    PROVE  LET lines == IPLines(WithoutIP(ip))
               now == BannedIPs \cup BannedMUIDs
           IN  /\ lines \in Seq(IP) /\ ToSet(lines) = IPsOf(banlist) \ {ip}
               /\ ToSet(lines) = Register!Left(IP, ip)
               /\ (\E k \in DOMAIN banlist : MatchesIP(banlist[k], ip)) <=> ip \in now
  <1> DEFINE rest == WithoutIP(ip)
  <1>1. banlist \in Seq(ListedBan)
    BY DEF BansInv
  <1>2. rest \in Seq(ListedBan) /\ ToSet(rest) = {ban \in ToSet(banlist) : ~MatchesIP(ban, ip)}
    BY <1>1, KeptIsSelection DEF WithoutIP
  <1> HIDE DEF rest
  <1>3. \A who : MatchesIP(IPBan(who), ip) <=> who = ip
    BY BansDiffer, Zenon DEF MatchesIP
  <1>4. IPsOf(rest) = IPsOf(banlist) \ {ip}
    BY <1>2, <1>3 DEF IPsOf
  <1>5. IPLines(rest) \in Seq(IP) /\ ToSet(IPLines(rest)) = IPsOf(banlist) \ {ip}
    BY <1>2, <1>4, WrittenIPs
  <1>6. BannedIPs = IPsOf(banlist) /\ BannedMUIDs \subseteq MUID /\ BannedIPs \subseteq IP
    BY ListSays DEF BannedMUIDs, BannedIPs
  <1>7. (BannedIPs \cup BannedMUIDs) \cap IP \cap (IP \cup (Long \cap Numeric)) = BannedIPs
    BY <1>6, BanListAssumption
  <1>8. Register!Left(IP, ip) = IPsOf(banlist) \ {ip}
    BY <1>6, <1>7 DEF Register!Left
  <1>9. (\E k \in DOMAIN banlist : MatchesIP(banlist[k], ip)) <=> ip \in IPsOf(banlist)
    BY <1>1, WhoIsBanned
  <1>10. ip \in IPsOf(banlist) <=> ip \in BannedIPs \cup BannedMUIDs
    BY <1>6, BanListAssumption
  <1> QED
    BY <1>5, <1>8, <1>9, <1>10, Zenon DEF rest

\* The same of mUIDs; only those that last can be read back.
LEMMA LeftMUIDs ==
    ASSUME BansInv, NEW m \in MUID
    PROVE  LET lines == MUIDLines(WithoutMUID(m))
               now == BannedIPs \cup BannedMUIDs
           IN  /\ lines \in Seq(FileLine)
               /\ ReadableIn(lines) = Register!Left(MUID, m)
               /\ (\E k \in DOMAIN banlist : MatchesMUID(banlist[k], m)) <=> m \in now
  <1> DEFINE rest == WithoutMUID(m)
  <1>1. banlist \in Seq(ListedBan)
    BY DEF BansInv
  <1>2. rest \in Seq(ListedBan) /\ ToSet(rest) = {ban \in ToSet(banlist) : ~MatchesMUID(ban, m)}
    BY <1>1, KeptIsSelection DEF WithoutMUID
  <1> HIDE DEF rest
  <1>3. \A who : MatchesMUID(MUIDBan(who, TRUE), m) <=> who = m
    BY BansDiffer, Zenon DEF MatchesMUID
  <1>4. MUIDsOf(rest) = MUIDsOf(banlist) \ {m}
    <2> DEFINE ban(who) == MUIDBan(who, TRUE)
    <2>1. \A who : MatchesMUID(ban(who), m) <=> who = m
      BY <1>3
    <2> HIDE DEF ban
    <2>2. {who \in MUID : ban(who) \in ToSet(rest)} =
              {who \in MUID : ban(who) \in ToSet(banlist)} \ {m}
      BY <1>2, <2>1
    <2> QED
      BY <2>2, Zenon DEF MUIDsOf, ban
  <1>5. /\ MUIDLines(rest) \in Seq(FileLine)
        /\ ReadableIn(MUIDLines(rest)) = (MUIDsOf(banlist) \ {m}) \cap Long \cap Numeric
    BY <1>2, <1>4, WrittenMUIDs
  <1>6. BannedMUIDs = MUIDsOf(banlist) /\ BannedMUIDs \subseteq MUID /\ BannedIPs \subseteq IP
    BY ListSays DEF BannedMUIDs, BannedIPs
  <1>7. (BannedIPs \cup BannedMUIDs) \cap MUID \cap (IP \cup (Long \cap Numeric)) =
            BannedMUIDs \cap Long \cap Numeric
    BY <1>6, BanListAssumption
  <1>8. Register!Left(MUID, m) = (MUIDsOf(banlist) \ {m}) \cap Long \cap Numeric
    BY <1>6, <1>7 DEF Register!Left
  <1>9. (\E k \in DOMAIN banlist : MatchesMUID(banlist[k], m)) <=> m \in MUIDsOf(banlist)
    BY <1>1, WhoIsBanned
  <1>10. m \in MUIDsOf(banlist) <=> m \in BannedIPs \cup BannedMUIDs
    BY <1>6, BanListAssumption
  <1> QED
    BY <1>5, <1>8, <1>9, <1>10, Zenon DEF rest

\* unbanip: that ban gone, or nothing told.
LEMMA UnbanIPStep ==
    ASSUME BansInv, NEW ip \in IP, NEW opens \in BOOLEAN, NEW reads,
           SV_UnbanIP_f(ip, opens, reads)
    PROVE  BansInv' /\ (Register!Unban(ip) \/ Register!Other)
  <1> DEFINE lines == IPLines(WithoutIP(ip))
             present == \E k \in DOMAIN banlist : MatchesIP(banlist[k], ip)
  <1>1. /\ ipbans' = IF opens THEN lines ELSE ipbans
        /\ banlist' = X_ReadBannedList(ipbans', muidbans, reads)
        /\ muidbans' = muidbans /\ clients' = clients
        /\ printed' = IF opens /\ present THEN <<"unbanned", ip>> ELSE <<"none">>
    BY Zenon DEF SV_UnbanIP_f, Prints
  <1>2. /\ ipbans \in Seq(IP) /\ muidbans \in Seq(FileLine)
        /\ clients \in [ClientNum -> SlotRec]
    BY DEF BansInv
  <1>3. /\ lines \in Seq(IP) /\ ToSet(lines) = Register!Left(IP, ip)
        /\ present <=> ip \in BannedIPs \cup BannedMUIDs
    BY LeftIPs, Zenon
  <1> HIDE DEF lines, present
  <1>4. BansInv' /\ Register!Read
    BY <1>1, <1>2, <1>3, RereadStep
  <1>5. CASE opens
    <2>1. KeptIPs' = Register!Left(IP, ip) /\ KeptMUIDs' = KeptMUIDs
          /\ KeptIPs \subseteq IP /\ KeptMUIDs \subseteq MUID
      BY <1>1, <1>3, <1>5, ListSays
    <2>2. (KeptIPs \cup KeptMUIDs) \ IP = KeptMUIDs
      BY <2>1, BanListAssumption
    <2>3. KeptIPs' \cup KeptMUIDs' =
              ((KeptIPs \cup KeptMUIDs) \ IP) \cup Register!Left(IP, ip)
      BY <2>1, <2>2
    <2>4. IP \in {IP, MUID}
      OBVIOUS
    <2>5. printed' = IF ip \in BannedIPs \cup BannedMUIDs THEN <<"unbanned", ip>>
                                                          ELSE <<"none">>
      BY <1>1, <1>3, <1>5, Zenon
    <2> QED
      BY <1>4, <2>3, <2>4, <2>5, Zenon DEF Register!Unban
  <1>6. CASE ~opens
    <2>1. KeptIPs' = KeptIPs /\ KeptMUIDs' = KeptMUIDs /\ printed' = <<"none">>
      BY <1>1, <1>6, ListSays
    <2> QED
      BY <1>4, <2>1, Zenon DEF Register!Other
  <1> QED
    BY <1>4, <1>5, <1>6

\* unbanmuid, the same.
LEMMA UnbanMUIDStep ==
    ASSUME BansInv, NEW m \in MUID, NEW opens \in BOOLEAN, NEW reads,
           SV_UnbanMUID_f(m, opens, reads)
    PROVE  BansInv' /\ (Register!Unban(m) \/ Register!Other)
  <1> DEFINE lines == MUIDLines(WithoutMUID(m))
             present == \E k \in DOMAIN banlist : MatchesMUID(banlist[k], m)
  <1>1. /\ muidbans' = IF opens THEN lines ELSE muidbans
        /\ banlist' = X_ReadBannedList(ipbans, muidbans', reads)
        /\ ipbans' = ipbans /\ clients' = clients
        /\ printed' = IF opens /\ present THEN <<"unbanned", m>> ELSE <<"none">>
    BY Zenon DEF SV_UnbanMUID_f, Prints
  <1>2. /\ ipbans \in Seq(IP) /\ muidbans \in Seq(FileLine)
        /\ clients \in [ClientNum -> SlotRec]
    BY DEF BansInv
  <1>3. /\ lines \in Seq(FileLine) /\ ReadableIn(lines) = Register!Left(MUID, m)
        /\ present <=> m \in BannedIPs \cup BannedMUIDs
    BY LeftMUIDs, Zenon
  <1> HIDE DEF lines, present
  <1>4. BansInv' /\ Register!Read
    BY <1>1, <1>2, <1>3, RereadStep
  <1>5. CASE opens
    <2>1. KeptMUIDs' = Register!Left(MUID, m) /\ KeptIPs' = KeptIPs
          /\ KeptIPs \subseteq IP /\ KeptMUIDs \subseteq MUID
      BY <1>1, <1>3, <1>5, ListSays
    <2>2. (KeptIPs \cup KeptMUIDs) \ MUID = KeptIPs
      BY <2>1, BanListAssumption
    <2>3. KeptIPs' \cup KeptMUIDs' =
              ((KeptIPs \cup KeptMUIDs) \ MUID) \cup Register!Left(MUID, m)
      BY <2>1, <2>2
    <2>4. MUID \in {IP, MUID}
      OBVIOUS
    <2>5. printed' = IF m \in BannedIPs \cup BannedMUIDs THEN <<"unbanned", m>>
                                                         ELSE <<"none">>
      BY <1>1, <1>3, <1>5, Zenon
    <2> QED
      BY <1>4, <2>3, <2>4, <2>5, Zenon DEF Register!Unban
  <1>6. CASE ~opens
    <2>1. KeptIPs' = KeptIPs /\ KeptMUIDs' = KeptMUIDs /\ printed' = <<"none">>
      BY <1>1, <1>6, ListSays
    <2> QED
      BY <1>4, <2>1, Zenon DEF Register!Other
  <1> QED
    BY <1>4, <1>5, <1>6

\* The server dies while unbanip writes: some of what is left is there.
LEMMA DiesIPStep ==
    ASSUME BansInv, NEW ip \in IP, NEW n \in Nat, NEW reads, DiesInUnbanIP(ip, n, reads)
    PROVE  BansInv' /\ Register!DiedInUnban(ip)
  <1> DEFINE lines == IPLines(WithoutIP(ip))
  <1>1. /\ n <= Len(lines) /\ ipbans' = SubSeq(lines, 1, n) /\ muidbans' = muidbans
        /\ banlist' = X_ReadBannedList(ipbans', muidbans', reads)
        /\ clients' = [i \in ClientNum |-> Free] /\ printed' = <<"none">>
    BY Zenon DEF DiesInUnbanIP, StartsAnew, PrintsNothing, Prints
  <1>2. /\ ipbans \in Seq(IP) /\ muidbans \in Seq(FileLine)
        /\ clients \in [ClientNum -> SlotRec]
    BY DEF BansInv
  <1>3. lines \in Seq(IP) /\ ToSet(lines) = Register!Left(IP, ip)
    BY LeftIPs, Zenon
  <1> HIDE DEF lines
  <1>4. ipbans' \in Seq(IP) /\ ToSet(ipbans') \subseteq Register!Left(IP, ip)
    BY <1>1, <1>3, FirstLines
  <1>5. BansInv' /\ Register!Read
    BY <1>1, <1>2, <1>4, FreeKeepsSlots, RereadStep
  <1>6. /\ KeptIPs' \subseteq Register!Left(IP, ip) /\ KeptMUIDs' = KeptMUIDs
        /\ KeptIPs \subseteq IP /\ KeptMUIDs \subseteq MUID
    BY <1>1, <1>4, ListSays
  <1>7. (KeptIPs \cup KeptMUIDs) \ IP = KeptMUIDs
    BY <1>6, BanListAssumption
  <1>8. /\ (KeptIPs \cup KeptMUIDs) \ IP \subseteq KeptIPs' \cup KeptMUIDs'
        /\ KeptIPs' \cup KeptMUIDs' \subseteq
                ((KeptIPs \cup KeptMUIDs) \ IP) \cup Register!Left(IP, ip)
    BY <1>6, <1>7
  <1>9. IP \in {IP, MUID}
    OBVIOUS
  <1> QED
    BY <1>1, <1>5, <1>8, <1>9, Zenon DEF Register!DiedInUnban

\* The same of unbanmuid.
LEMMA DiesMUIDStep ==
    ASSUME BansInv, NEW m \in MUID, NEW n \in Nat, NEW reads, DiesInUnbanMUID(m, n, reads)
    PROVE  BansInv' /\ Register!DiedInUnban(m)
  <1> DEFINE lines == MUIDLines(WithoutMUID(m))
  <1>1. /\ n <= Len(lines) /\ muidbans' = SubSeq(lines, 1, n) /\ ipbans' = ipbans
        /\ banlist' = X_ReadBannedList(ipbans', muidbans', reads)
        /\ clients' = [i \in ClientNum |-> Free] /\ printed' = <<"none">>
    BY Zenon DEF DiesInUnbanMUID, StartsAnew, PrintsNothing, Prints
  <1>2. /\ ipbans \in Seq(IP) /\ muidbans \in Seq(FileLine)
        /\ clients \in [ClientNum -> SlotRec]
    BY DEF BansInv
  <1>3. lines \in Seq(FileLine) /\ ReadableIn(lines) = Register!Left(MUID, m)
    BY LeftMUIDs, Zenon
  <1> HIDE DEF lines
  <1>4. muidbans' \in Seq(FileLine) /\ ToSet(muidbans') \subseteq ToSet(lines)
    BY <1>1, <1>3, FirstLines
  <1>5. ReadableIn(muidbans') \subseteq Register!Left(MUID, m)
    <2>1. ReadableIn(muidbans') \subseteq ReadableIn(lines)
      BY <1>4 DEF ReadableIn
    <2> QED
      BY <1>3, <2>1
  <1>6. BansInv' /\ Register!Read
    BY <1>1, <1>2, <1>4, FreeKeepsSlots, RereadStep
  <1>7. /\ KeptMUIDs' \subseteq Register!Left(MUID, m) /\ KeptIPs' = KeptIPs
        /\ KeptIPs \subseteq IP /\ KeptMUIDs \subseteq MUID
    BY <1>1, <1>5, ListSays
  <1>8. (KeptIPs \cup KeptMUIDs) \ MUID = KeptIPs
    BY <1>7, BanListAssumption
  <1>9. /\ (KeptIPs \cup KeptMUIDs) \ MUID \subseteq KeptIPs' \cup KeptMUIDs'
        /\ KeptIPs' \cup KeptMUIDs' \subseteq
                ((KeptIPs \cup KeptMUIDs) \ MUID) \cup Register!Left(MUID, m)
    BY <1>7, <1>8
  <1>10. MUID \in {IP, MUID}
    OBVIOUS
  <1> QED
    BY <1>1, <1>6, <1>9, <1>10, Zenon DEF Register!DiedInUnban

\* The ban of a client, which is the only step that appends to list and file.
LEMMA BanProcessStep ==
    ASSUME BansInv, NEW i \in ClientNum, NEW type \in {"IPBAN", "MUIDBAN"},
           NEW opens \in BOOLEAN, InGame(i), SV_BanProcess(i, type, opens)
    PROVE  BansInv' /\ (Register!Other \/ \E s \in IP \cup MUID : Register!Ban(s))
  <1> DEFINE c == clients[i]
             bans == opens /\ ~(RefusedIP(c.ip) \/ RefusedMUID(c.muid)) /\ c.muid # NoMUID
  <1>1. /\ ipbans \in Seq(IP) /\ muidbans \in Seq(FileLine) /\ banlist \in Seq(ListedBan)
        /\ clients \in [ClientNum -> SlotRec]
    BY DEF BansInv
  <1>2. c.ip \in IP /\ c.muid \in MUID \cup {NoMUID}
    BY <1>1 DEF InGame, SlotRec
  <1>3. CASE ~bans
    <2>1. UNCHANGED <<banlist, ipbans, muidbans, clients>> /\ printed' = <<"none">>
      BY <1>3, Zenon DEF SV_BanProcess, PrintsNothing, Prints
    <2>2. BansInv' /\ BannedIPs' = BannedIPs /\ BannedMUIDs' = BannedMUIDs
          /\ KeptIPs' = KeptIPs /\ KeptMUIDs' = KeptMUIDs
      BY <2>1 DEF BansInv, BannedIPs, BannedMUIDs, KeptIPs, KeptMUIDs
    <2> QED
      BY <2>1, <2>2, Zenon DEF Register!Other
  <1>4. CASE bans
    <2>1. /\ banlist' = Append(banlist, Added(c, type))
          /\ IF type = "IPBAN"
             THEN ipbans' = Append(ipbans, c.ip) /\ printed' = <<"banned", c.ip>>
                  /\ muidbans' = muidbans
             ELSE muidbans' = Append(muidbans, Line(c.muid)) /\ printed' = <<"banned", c.muid>>
                  /\ ipbans' = ipbans
          /\ clients' = [clients EXCEPT ![i] = Free]
      BY <1>4, Zenon DEF SV_BanProcess, Prints
    <2>2. c.muid \in MUID
      BY <1>2, <1>4
    <2>3. clients' \in [ClientNum -> SlotRec]
      BY <1>1, <2>1, FreeKeepsSlots, Zenon
    <2> HIDE DEF c, bans
    <2>4. CASE type = "IPBAN"
      <3> DEFINE ban == IPBan(c.ip)
      <3>1. /\ banlist' = Append(banlist, ban) /\ ipbans' = Append(ipbans, c.ip)
            /\ muidbans' = muidbans /\ printed' = <<"banned", c.ip>>
        BY <2>1, <2>4 DEF Added
      <3>2. ban \in ListedBan
        BY <1>2 DEF ListedBan
      <3>3. /\ \A ip : IPBan(ip) = ban <=> ip = c.ip
            /\ \A m : MUIDBan(m, TRUE) # ban
        BY BansDiffer, Zenon
      <3> HIDE DEF ban
      <3>4. /\ banlist' \in Seq(ListedBan) /\ ToSet(banlist') = ToSet(banlist) \cup {ban}
            /\ ipbans' \in Seq(IP) /\ ToSet(ipbans') = ToSet(ipbans) \cup {c.ip}
        BY <1>1, <1>2, <3>1, <3>2, AppendedHas
      <3>5. BansInv'
        BY <1>1, <2>3, <3>1, <3>4 DEF BansInv
      <3>6. IPsOf(banlist') = IPsOf(banlist) \cup {c.ip} /\ MUIDsOf(banlist') = MUIDsOf(banlist)
        BY <1>2, <3>3, <3>4, Zenon DEF IPsOf, MUIDsOf
      <3>7. /\ BannedIPs' = BannedIPs \cup {c.ip} /\ BannedMUIDs' = BannedMUIDs
            /\ KeptIPs' = KeptIPs \cup {c.ip} /\ KeptMUIDs' = KeptMUIDs
        BY <3>1, <3>4, <3>5, <3>6, ListSays
      <3>8. {c.ip} \cap (IP \cup (Long \cap Numeric)) = {c.ip}
        BY <1>2
      <3>9. /\ BannedIPs' \cup BannedMUIDs' = (BannedIPs \cup BannedMUIDs) \cup {c.ip}
            /\ KeptIPs' \cup KeptMUIDs' =
                  (KeptIPs \cup KeptMUIDs) \cup ({c.ip} \cap (IP \cup (Long \cap Numeric)))
        BY <3>7, <3>8
      <3>10. Register!Ban(c.ip)
        BY <3>1, <3>9, Zenon DEF Register!Ban
      <3> QED
        BY <1>2, <3>5, <3>10
    <2>5. CASE type = "MUIDBAN"
      <3> DEFINE ban == MUIDBan(c.muid, TRUE)
      <3>1. /\ banlist' = Append(banlist, ban)
            /\ muidbans' = Append(muidbans, Line(c.muid))
            /\ ipbans' = ipbans /\ printed' = <<"banned", c.muid>>
        <4>1. type # "IPBAN"
          BY <2>5
        <4> QED
          BY <2>1, <4>1, Zenon DEF Added
      <3>2. ban \in ListedBan
        BY <2>2, Zenon DEF ListedBan
      <3>3. /\ \A m : MUIDBan(m, TRUE) = ban <=> m = c.muid
            /\ \A ip : IPBan(ip) # ban
        BY BansDiffer, Zenon
      <3> HIDE DEF ban
      <3>4. /\ banlist' \in Seq(ListedBan) /\ ToSet(banlist') = ToSet(banlist) \cup {ban}
        BY <1>1, <3>1, <3>2, AppendedHas
      <3>5. /\ muidbans' \in Seq(FileLine)
            /\ ReadableIn(muidbans') =
                   ReadableIn(muidbans) \cup ({c.muid} \cap Long \cap Numeric)
        BY <1>1, <2>2, <3>1, LineMore
      <3>6. BansInv'
        BY <1>1, <2>3, <3>1, <3>4, <3>5 DEF BansInv
      <3>7. /\ MUIDsOf(banlist') = MUIDsOf(banlist) \cup {c.muid}
            /\ IPsOf(banlist') = IPsOf(banlist)
        <4> DEFINE mban(m) == MUIDBan(m, TRUE)
        <4>1. \A m : mban(m) = ban <=> m = c.muid
          BY <3>3
        <4> HIDE DEF mban
        <4>2. {m \in MUID : mban(m) \in ToSet(banlist')} =
                {m \in MUID : mban(m) \in ToSet(banlist)} \cup {c.muid}
          BY <2>2, <3>4, <4>1
        <4>3. IPsOf(banlist') = IPsOf(banlist)
          BY <3>3, <3>4 DEF IPsOf
        <4> QED
          BY <4>2, <4>3, Zenon DEF MUIDsOf, mban
      <3>8. /\ BannedMUIDs' = BannedMUIDs \cup {c.muid} /\ BannedIPs' = BannedIPs
            /\ KeptMUIDs' = KeptMUIDs \cup ({c.muid} \cap Long \cap Numeric)
            /\ KeptIPs' = KeptIPs
        BY <3>1, <3>5, <3>6, <3>7, ListSays
      <3>9. {c.muid} \cap (IP \cup (Long \cap Numeric)) = {c.muid} \cap Long \cap Numeric
        BY <2>2, BanListAssumption
      <3>10. /\ BannedIPs' \cup BannedMUIDs' = (BannedIPs \cup BannedMUIDs) \cup {c.muid}
             /\ KeptIPs' \cup KeptMUIDs' =
                  (KeptIPs \cup KeptMUIDs) \cup ({c.muid} \cap (IP \cup (Long \cap Numeric)))
        BY <3>8, <3>9
      <3>11. Register!Ban(c.muid)
        BY <3>1, <3>10, Zenon DEF Register!Ban
      <3> QED
        BY <2>2, <3>6, <3>11
    <2> QED
      BY <2>4, <2>5
  <1> QED
    BY <1>3, <1>4

\* Every step of BanList is one of the register.
LEMMA BansStep ==
    ASSUME BansInv, BansNext
    PROVE  BansInv' /\ Register!Next
  <1>1. IP \cup MUID = Register!Subject
    BY RegisterIs
  <1> DEFINE Rest == UNCHANGED <<banlist, ipbans, muidbans>> /\ printed' = <<"none">>
  <1>2. Rest => Register!Other
    <2> SUFFICES ASSUME Rest PROVE Register!Other
      OBVIOUS
    <2>1. BannedIPs' = BannedIPs /\ BannedMUIDs' = BannedMUIDs
          /\ KeptIPs' = KeptIPs /\ KeptMUIDs' = KeptMUIDs
      BY DEF BannedIPs, BannedMUIDs, KeptIPs, KeptMUIDs
    <2> QED
      BY <2>1, Zenon DEF Register!Other
  <1>3. ASSUME NEW reads, NEW opens \in BOOLEAN, NEW ip \in IP,
               SV_BanIP_f(ip, opens, reads) \/ SV_UnbanIP_f(ip, opens, reads)
        PROVE  BansInv' /\ Register!Next
    <2>1. ip \in Register!Subject
      BY <1>1
    <2> QED
      BY <1>3, <2>1, BanIPStep, UnbanIPStep, Zenon DEF Register!Next
  <1>4. ASSUME NEW reads, NEW opens \in BOOLEAN, NEW m \in MUID,
               SV_BanMUID_f(m, opens, reads) \/ SV_UnbanMUID_f(m, opens, reads)
        PROVE  BansInv' /\ Register!Next
    <2>1. m \in Register!Subject
      BY <1>1
    <2> QED
      BY <1>4, <2>1, BanMUIDStep, UnbanMUIDStep, Zenon DEF Register!Next
  <1>5. ASSUME NEW opens \in BOOLEAN, NEW type \in {"IPBAN", "MUIDBAN"}, NEW i \in ClientNum,
               InGame(i), SV_BanProcess(i, type, opens)
        PROVE  BansInv' /\ Register!Next
    BY <1>1, <1>5, BanProcessStep, Zenon DEF Register!Next
  <1>6. ASSUME NEW opens \in BOOLEAN, NEW type \in {"IPBAN", "MUIDBAN"},
               NEW found \in SUBSET {i \in ClientNum : InGame(i)},
               SV_Ban_f(found, type, opens)
        PROVE  BansInv' /\ Register!Next
    <2>1. CASE Cardinality(found) = 1
      <3>1. PICK i \in found : SV_BanProcess(i, type, opens)
        BY <1>6, <2>1, Zenon DEF SV_Ban_f
      <3>2. i \in ClientNum /\ InGame(i)
        OBVIOUS
      <3> QED
        BY <1>5, <3>1, <3>2, Zenon
    <2>2. CASE Cardinality(found) # 1
      <3>1. UNCHANGED <<banlist, ipbans, muidbans, clients>> /\ printed' = <<"none">>
        BY <1>6, <2>2, Zenon DEF SV_Ban_f, PrintsNothing, Prints
      <3>2. BansInv'
        BY <3>1 DEF BansInv
      <3> QED
        BY <1>2, <3>1, <3>2, Zenon DEF Register!Next
    <2> QED
      BY <2>1, <2>2
  <1>7. ASSUME NEW i \in ClientNum, NEW v \in Visitor, Connect(i, v.ip, v.muid)
        PROVE  BansInv' /\ Register!Next
    <2>1. /\ clients' = [clients EXCEPT ![i] = [used |-> TRUE, ip |-> v.ip, muid |-> v.muid]]
          /\ printed' = <<"none">> /\ UNCHANGED <<banlist, ipbans, muidbans>>
      BY <1>7, Zenon DEF Connect, PrintsNothing, Prints
    <2>2. v.ip \in IP /\ v.muid \in MUID \cup {NoMUID}
      BY BanListAssumption DEF NoMUID
    <2>3. [used |-> TRUE, ip |-> v.ip, muid |-> v.muid] \in SlotRec
      BY <2>2 DEF SlotRec
    <2>4. clients' \in [ClientNum -> SlotRec]
      BY <2>1, <2>3 DEF BansInv
    <2>5. BansInv'
      BY <2>1, <2>4 DEF BansInv
    <2> QED
      BY <1>2, <2>1, <2>5, Zenon DEF Register!Next
  <1>8. ASSUME NEW reads, ReloadBans(reads) \/ Restart(reads)
        PROVE  BansInv' /\ Register!Next
    <2>1. /\ banlist' = X_ReadBannedList(ipbans', muidbans', reads) /\ printed' = <<"none">>
          /\ ipbans' = ipbans /\ muidbans' = muidbans
          /\ clients' = clients \/ clients' = [i \in ClientNum |-> Free]
      BY <1>8, Zenon DEF ReloadBans, Restart, StartsAnew, PrintsNothing, Prints
    <2>2. clients' \in [ClientNum -> SlotRec]
      BY <2>1, FreeKeepsSlots DEF BansInv
    <2>3. BansInv' /\ Register!Read
      BY <2>1, <2>2, RereadStep DEF BansInv
    <2>4. KeptIPs' = KeptIPs /\ KeptMUIDs' = KeptMUIDs
      BY <2>1 DEF KeptIPs, KeptMUIDs
    <2>5. Register!Other
      BY <2>1, <2>3, <2>4, Zenon DEF Register!Other
    <2> QED
      BY <2>3, <2>5, Zenon DEF Register!Next
  <1>9. ASSUME NEW reads, NEW ip \in IP, NEW n \in 0..MaxLines, DiesInUnbanIP(ip, n, reads)
        PROVE  BansInv' /\ Register!Next
    <2>1. n \in Nat /\ ip \in Register!Subject
      BY <1>1, BanListAssumption
    <2> QED
      BY <1>9, <2>1, DiesIPStep, Zenon DEF Register!Next
  <1>10. ASSUME NEW reads, NEW m \in MUID, NEW n \in 0..MaxLines, DiesInUnbanMUID(m, n, reads)
         PROVE  BansInv' /\ Register!Next
    <2>1. n \in Nat /\ m \in Register!Subject
      BY <1>1, BanListAssumption
    <2> QED
      BY <1>10, <2>1, DiesMUIDStep, Zenon DEF Register!Next
  <1> QED
    BY <1>3, <1>4, <1>5, <1>6, <1>7, <1>8, <1>9, <1>10, Zenon DEF BansNext, SV_BanNum_f

\* What the server reads when it starts.
LEMMA BansInitInv ==
    ASSUME BansInit
    PROVE  BansInv /\ Register!Init
  <1>1. ipbans \in Seq(IP) /\ muidbans \in Seq(FileLine) /\ printed = <<"none">>
    BY BanListAssumption, Zenon DEF BansInit, FileLine
  <1>2. PICK reads \in SUBSET Files : banlist = X_ReadBannedList(ipbans, muidbans, reads)
    BY Zenon DEF BansInit
  <1>3. clients = [i \in ClientNum |-> Free] /\ Free \in SlotRec
    BY DEF BansInit, Free, SlotRec, NoMUID
  <1>4. /\ banlist \in Seq(ListedBan)
        /\ IPsOf(banlist) = IF "ipbans.txt" \in reads THEN ToSet(ipbans) ELSE {}
        /\ MUIDsOf(banlist) = IF "muidbans.txt" \in reads THEN ReadableIn(muidbans) ELSE {}
    BY <1>1, <1>2, ReadBack
  <1>5. BansInv
    BY <1>1, <1>3, <1>4 DEF BansInv
  <1>6. /\ BannedIPs = IF "ipbans.txt" \in reads THEN KeptIPs ELSE {}
        /\ BannedMUIDs = IF "muidbans.txt" \in reads THEN KeptMUIDs ELSE {}
        /\ KeptIPs \in SUBSET IP /\ KeptMUIDs \in SUBSET MUID
    BY <1>4, <1>5, ListSays
  <1>7. \E read \in SUBSET {IP, MUID} :
            (IF "ipbans.txt" \in reads THEN KeptIPs ELSE {}) \cup
                    (IF "muidbans.txt" \in reads THEN KeptMUIDs ELSE {}) =
                (KeptIPs \cup KeptMUIDs) \cap UNION read
    <2>1. IP \cap MUID = {}
      BY BanListAssumption
    <2> DEFINE first == IF "ipbans.txt" \in reads THEN KeptIPs ELSE {}
               second == IF "muidbans.txt" \in reads THEN KeptMUIDs ELSE {}
    <2>2. first \in {KeptIPs, {}} /\ second \in {KeptMUIDs, {}}
      OBVIOUS
    <2> HIDE DEF first, second
    <2>3. PartOf(first \cup second, KeptIPs \cup KeptMUIDs, IP, MUID)
      BY <1>6, <2>1, <2>2, OfEither, Zenon
    <2> QED
      BY <2>3, Zenon DEF PartOf, first, second
  <1>8. KeptIPs \cup KeptMUIDs \in SUBSET Register!Subject
    BY <1>6, RegisterIs
  <1>9. Register!Init
    BY <1>1, <1>6, <1>7, <1>8, Zenon DEF Register!Init
  <1> QED
    BY <1>5, <1>9

------------------------------------------------------------------------------
(* The theorem *)

\* The linked list is the set of bans in force and the two files are the set of
\* bans kept, for any addresses and mUIDs, whichever fopen() fails and wherever the
\* server dies.  A ban that lasts is kept until an unban takes it back, or rewrites
\* its file while a failed read has put it out of force; reading the files brings
\* nothing else into force; an unban takes out every copy of a ban, and nobody is
\* told of an unban that has not been done (sv_init.c:29, sv_commands.c:452-776).
THEOREM BansAreRegistered == BansSpec => ImplementsRegister
  <1>1. BansInit => BansInv /\ Register!Init
    BY BansInitInv
  <1>2. BansInv /\ [BansNext]_bvars => BansInv' /\ [Register!Next]_(Register!vars)
    <2> SUFFICES ASSUME BansInv, [BansNext]_bvars
                 PROVE  BansInv' /\ [Register!Next]_(Register!vars)
      OBVIOUS
    <2>1. CASE BansNext
      BY <2>1, BansStep
    <2>2. CASE UNCHANGED bvars
      <3>1. BansInv'
        BY <2>2 DEF BansInv, bvars
      <3>2. UNCHANGED Register!vars
        BY <2>2 DEF bvars, Register!vars, BannedIPs, BannedMUIDs, KeptIPs, KeptMUIDs
      <3> QED
        BY <3>1, <3>2
    <2> QED
      BY <2>1, <2>2
  <1> QED
    BY <1>1, <1>2, PTL DEF BansSpec, ImplementsRegister, Register!RegisterSpec

------------------------------------------------------------------------------
(* How long the list is.  For any mUIDs and files: a command leaves no more   *)
(* IP bans in the list than ipbans.txt has lines, and no more mUID bans than  *)
(* muidbans.txt has.                                                         *)

IPBanRec == [type : {"IPBAN"}, who : IP, exact : {TRUE}]
MUIDBanRec == [type : {"MUIDBAN"}, who : MUID, exact : BOOLEAN]
AnyBan == IPBanRec \cup MUIDBanRec

\* Where a sequence has an element of a set.
PlacesOf(s, T) == {k \in DOMAIN s : s[k] \in T}

\* There are no more places than the sequence is long.
LEMMA PlacesFinite ==
    ASSUME NEW R, NEW s \in Seq(R), NEW T
    PROVE  /\ IsFiniteSet(PlacesOf(s, T)) /\ Cardinality(PlacesOf(s, T)) \in Nat
           /\ Cardinality(PlacesOf(s, T)) <= Len(s)
  <1>1. Len(s) \in Nat /\ DOMAIN s = 1..Len(s)
    OBVIOUS
  <1>2. IsFiniteSet(1..Len(s)) /\ Cardinality(1..Len(s)) = Len(s)
    BY <1>1, FS_Interval
  <1>3. PlacesOf(s, T) \in SUBSET (1..Len(s))
    BY <1>1 DEF PlacesOf
  <1> QED
    BY <1>2, <1>3, FS_Subset, FS_CardinalityType

\* All places, if it has nothing else.
LEMMA AllPlaces ==
    ASSUME NEW R, NEW s \in Seq(R), NEW T, \A k \in DOMAIN s : s[k] \in T
    PROVE  Cardinality(PlacesOf(s, T)) = Len(s)
  <1>1. Len(s) \in Nat /\ PlacesOf(s, T) = 1..Len(s)
    BY DEF PlacesOf
  <1> QED
    BY <1>1, FS_Interval

\* An element more has a place more if it is of the set.
LEMMA AppendedPlaces ==
    ASSUME NEW R, NEW s \in Seq(R), NEW x \in R, NEW T
    PROVE  Cardinality(PlacesOf(Append(s, x), T)) =
               IF x \in T THEN Cardinality(PlacesOf(s, T)) + 1 ELSE Cardinality(PlacesOf(s, T))
  <1>1. Len(s) \in Nat /\ DOMAIN s = 1..Len(s)
    OBVIOUS
  <1>2. /\ DOMAIN Append(s, x) = 1..(Len(s) + 1)
        /\ \A i \in 1..Len(s) : Append(s, x)[i] = s[i]
        /\ Append(s, x)[Len(s) + 1] = x
    BY <1>1
  <1>3. 1..(Len(s) + 1) = (1..Len(s)) \cup {Len(s) + 1} /\ Len(s) + 1 \notin 1..Len(s)
    BY <1>1
  <1>4. CASE x \in T
    <2>1. PlacesOf(Append(s, x), T) = PlacesOf(s, T) \cup {Len(s) + 1}
          /\ Len(s) + 1 \notin PlacesOf(s, T)
      BY <1>1, <1>2, <1>3, <1>4 DEF PlacesOf
    <2> QED
      BY <1>4, <2>1, PlacesFinite, FS_AddElement
  <1>5. CASE x \notin T
    <2>1. PlacesOf(Append(s, x), T) = PlacesOf(s, T)
      BY <1>1, <1>2, <1>3, <1>5 DEF PlacesOf
    <2> QED
      BY <1>5, <2>1
  <1> QED
    BY <1>4, <1>5

\* The places of two sequences, only the first of which has anything of the set,
\* in the one behind the other.
LEMMA PlacesInFront ==
    ASSUME NEW R, NEW s \in Seq(R), NEW t \in Seq(R), NEW T,
           \A k \in DOMAIN s : s[k] \in T, \A k \in DOMAIN t : t[k] \notin T
    PROVE  Cardinality(PlacesOf(s \o t, T)) = Len(s)
  <1> DEFINE m == Len(s)
             n == Len(t)
  <1>1. /\ m \in Nat /\ DOMAIN s = 1..m /\ n \in Nat /\ DOMAIN t = 1..n
        /\ DOMAIN (s \o t) = 1..(m + n)
        /\ \A k \in 1..(m + n) : (s \o t)[k] = IF k <= m THEN s[k] ELSE t[k - m]
    OBVIOUS
  <1> HIDE DEF m, n
  <1>2. \A k \in 1..(m + n) : IF k <= m THEN k \in 1..m ELSE k - m \in 1..n
    BY <1>1
  <1>3. \A k \in 1..(m + n) : (s \o t)[k] \in T <=> k <= m
    BY <1>1, <1>2
  <1>4. PlacesOf(s \o t, T) = {k \in 1..(m + n) : k <= m}
    BY <1>1, <1>3 DEF PlacesOf
  <1>5. PlacesOf(s \o t, T) = 1..m
    BY <1>1, <1>4
  <1>6. Cardinality(1..m) = m
    BY <1>1, FS_Interval
  <1> QED
    BY <1>5, <1>6, Zenon DEF m

\* The same, if only the second has anything of the set.
LEMMA PlacesBehind ==
    ASSUME NEW R, NEW s \in Seq(R), NEW t \in Seq(R), NEW T,
           \A k \in DOMAIN s : s[k] \notin T, \A k \in DOMAIN t : t[k] \in T
    PROVE  Cardinality(PlacesOf(s \o t, T)) = Len(t)
  <1> DEFINE m == Len(s)
             n == Len(t)
  <1>1. /\ m \in Nat /\ DOMAIN s = 1..m /\ n \in Nat /\ DOMAIN t = 1..n
        /\ DOMAIN (s \o t) = 1..(m + n)
        /\ \A k \in 1..(m + n) : (s \o t)[k] = IF k <= m THEN s[k] ELSE t[k - m]
    OBVIOUS
  <1> HIDE DEF m, n
  <1>2. \A k \in 1..(m + n) : IF k <= m THEN k \in 1..m ELSE k - m \in 1..n
    BY <1>1
  <1>3. \A k \in 1..(m + n) : (s \o t)[k] \in T <=> ~(k <= m)
    BY <1>1, <1>2
  <1>4. PlacesOf(s \o t, T) = {k \in 1..(m + n) : ~(k <= m)}
    BY <1>1, <1>3 DEF PlacesOf
  <1>5. PlacesOf(s \o t, T) = (m + 1)..(m + n)
    BY <1>1, <1>4
  <1>6. Cardinality((m + 1)..(m + n)) = IF m + 1 > m + n THEN 0 ELSE (m + n) - (m + 1) + 1
    BY <1>1, FS_Interval
  <1>7. Cardinality((m + 1)..(m + n)) = n
    BY <1>1, <1>6
  <1> QED
    BY <1>5, <1>7, Zenon DEF n

\* Keeping some elements leaves no more places than there were.
LEMMA KeptPlaces ==
    ASSUME NEW R, NEW s \in Seq(R), NEW S, NEW T
    PROVE  Cardinality(PlacesOf(Kept(s, S), T)) <= Cardinality(PlacesOf(s, T))
  <1>1. PICK f : Grows(f, s, S, Len(s)) /\ Kept(s, S) = f[Len(s)]
    BY KeptGrows
  <1>2. /\ Len(s) \in Nat /\ DOMAIN s = 1..Len(s)
        /\ \A k \in 1..Len(s) : s[k] \in R
    OBVIOUS
  <1>3. \A k \in 0..Len(s) : f[k] = Grown(s, S, k, f[k - 1])
    BY <1>1, Zenon DEF Grows
  <1> DEFINE upto(k) == {j \in 1..k : s[j] \in T}
             Good == {k \in Nat : k <= Len(s) =>
                        /\ f[k] \in Seq(R) /\ IsFiniteSet(upto(k))
                        /\ Cardinality(PlacesOf(f[k], T)) <= Cardinality(upto(k))}
  <1>4. 0 \in Good
    <2>1. f[0] = <<>>
      BY <1>2, <1>3 DEF Grown
    <2>2. upto(0) = {} /\ PlacesOf(<<>>, T) = {} /\ <<>> \in Seq(R)
      BY DEF PlacesOf
    <2>3. IsFiniteSet({}) /\ Cardinality({}) = 0
      BY FS_EmptySet
    <2>4. IsFiniteSet(upto(0)) /\ Cardinality(PlacesOf(f[0], T)) <= Cardinality(upto(0))
      <3>1. PlacesOf(f[0], T) = {} /\ upto(0) = {}
        BY <2>1, <2>2, Zenon
      <3>2. 0 <= 0
        OBVIOUS
      <3> QED
        BY <2>3, <3>1, <3>2, Zenon
    <2> HIDE DEF upto
    <2> QED
      BY <2>1, <2>2, <2>4
  <1>5. ASSUME NEW k \in Good PROVE k + 1 \in Good
    <2> SUFFICES ASSUME k + 1 <= Len(s)
                 PROVE  /\ f[k + 1] \in Seq(R) /\ IsFiniteSet(upto(k + 1))
                        /\ Cardinality(PlacesOf(f[k + 1], T)) <= Cardinality(upto(k + 1))
      OBVIOUS
    <2>1. /\ f[k] \in Seq(R) /\ IsFiniteSet(upto(k))
          /\ Cardinality(PlacesOf(f[k], T)) <= Cardinality(upto(k))
      BY <1>2
    <2>2. /\ k + 1 \in 1..Len(s) /\ k + 1 \in 0..Len(s) /\ (k + 1) - 1 = k
          /\ k \in Nat /\ k + 1 # 0
      BY <1>2
    <2>3. f[k + 1] = IF s[k + 1] \in S THEN Append(f[k], s[k + 1]) ELSE f[k]
      BY <1>3, <2>2 DEF Grown
    <2>4. /\ s[k + 1] \in T => upto(k + 1) = upto(k) \cup {k + 1} /\ k + 1 \notin upto(k)
          /\ s[k + 1] \notin T => upto(k + 1) = upto(k)
      <3>1. 1..(k + 1) = (1..k) \cup {k + 1} /\ k + 1 \notin 1..k
        BY <2>2
      <3> QED
        BY <3>1
    <2> HIDE DEF upto
    <2>5. /\ IsFiniteSet(upto(k + 1)) /\ Cardinality(upto(k)) \in Nat
          /\ Cardinality(upto(k + 1)) =
                IF s[k + 1] \in T THEN Cardinality(upto(k)) + 1 ELSE Cardinality(upto(k))
      BY <2>1, <2>4, FS_AddElement, FS_CardinalityType
    <2> DEFINE q == f[k]
               x == s[k + 1]
    <2>6. q \in Seq(R) /\ x \in R
      BY <1>2, <2>1, <2>2
    <2> HIDE DEF q, x
    <2>7. /\ Append(q, x) \in Seq(R) /\ Cardinality(PlacesOf(q, T)) \in Nat
          /\ Cardinality(PlacesOf(Append(q, x), T)) =
                IF x \in T THEN Cardinality(PlacesOf(q, T)) + 1 ELSE Cardinality(PlacesOf(q, T))
      BY <2>6, AppendedPlaces, PlacesFinite
    <2> QED
      BY <2>1, <2>3, <2>5, <2>6, <2>7 DEF q, x
  <1>6. Good = Nat
    <2>1. Good \in SUBSET Nat
      OBVIOUS
    <2> HIDE DEF Good
    <2> QED
      BY <1>4, <1>5, <2>1, AllNumbers
  <1>7. upto(Len(s)) = PlacesOf(s, T)
    BY <1>2 DEF PlacesOf
  <1> HIDE DEF upto
  <1>8. Cardinality(PlacesOf(f[Len(s)], T)) <= Cardinality(upto(Len(s)))
    BY <1>2, <1>6
  <1> QED
    BY <1>1, <1>7, <1>8

\* What is kept is of the set and was there.
LEMMA KeptIsOf ==
    ASSUME NEW R, NEW s \in Seq(R), NEW S
    PROVE  /\ Kept(s, S) \in Seq(R)
           /\ \A k \in DOMAIN Kept(s, S) : Kept(s, S)[k] \in S
  <1>1. Kept(s, S) \in Seq(R) /\ ToSet(Kept(s, S)) \subseteq S
    BY KeptIsSelection
  <1> QED
    BY <1>1 DEF ToSet

\* The bans of two files, one behind the other.
LEMMA JoinedTyped ==
    ASSUME NEW ips \in Seq(IP), NEW muids \in Seq(FileLine)
    PROVE  LET list == ReadIPs(ips) \o ReadMUIDs(muids)
           IN  /\ list \in Seq(AnyBan)
               /\ Cardinality(PlacesOf(list, IPBanRec)) <= Len(ips)
               /\ Cardinality(PlacesOf(list, MUIDBanRec)) <= Len(muids)
  <1> DEFINE s == ReadIPs(ips)
             kept == Kept(muids, [muid : Numeric, bare : BOOLEAN])
             t == ReadMUIDs(muids)
  <1>1. s \in Seq(AnyBan) /\ Len(s) = Len(ips)
        /\ \A k \in DOMAIN s : s[k] \in IPBanRec
    <2>1. s = [k \in 1..Len(ips) |-> IPBan(ips[k])] /\ Len(ips) \in Nat
      BY DEF ReadIPs
    <2>2. \A k \in 1..Len(ips) : IPBan(ips[k]) \in IPBanRec
      BY DEF IPBan, IPBanRec
    <2> HIDE DEF s
    <2>3. DOMAIN s = 1..Len(ips) /\ \A k \in DOMAIN s : s[k] \in IPBanRec
      BY <2>1, <2>2
    <2>4. s \in [1..Len(ips) -> AnyBan]
      BY <2>1, <2>3 DEF AnyBan
    <2> QED
      BY <2>1, <2>3, <2>4
  <1>2. kept \in Seq(FileLine) /\ Len(kept) <= Len(muids) /\ Len(kept) \in Nat
    <2>1. kept \in Seq(FileLine) /\ \A k \in DOMAIN kept : kept[k] \in FileLine
      BY KeptIsOf
    <2>2. Cardinality(PlacesOf(kept, FileLine)) <= Cardinality(PlacesOf(muids, FileLine))
      BY KeptPlaces
    <2> HIDE DEF kept
    <2>3. Cardinality(PlacesOf(kept, FileLine)) = Len(kept)
      BY <2>1, AllPlaces
    <2>4. Cardinality(PlacesOf(muids, FileLine)) = Len(muids)
      BY AllPlaces
    <2> QED
      BY <2>1, <2>2, <2>3, <2>4
  <1>3. t \in Seq(AnyBan) /\ Len(t) <= Len(muids)
        /\ \A k \in DOMAIN t : t[k] \in MUIDBanRec
    <2> DEFINE how(k) == kept[k].bare \/ kept[k].muid \in Long
    <2>1. t = [k \in DOMAIN kept |-> MUIDBan(kept[k].muid, how(k))]
      BY DEF ReadMUIDs
    <2>2. \A k \in DOMAIN kept : kept[k].muid \in MUID
      <3> HIDE DEF kept
      <3>1. \A k \in DOMAIN kept : kept[k] \in FileLine
        BY <1>2
      <3> QED
        BY <3>1 DEF FileLine
    <2>3. \A k : how(k) \in BOOLEAN
      OBVIOUS
    <2> HIDE DEF how, t, kept
    <2>4. \A k \in DOMAIN kept : MUIDBan(kept[k].muid, how(k)) \in MUIDBanRec
      BY <2>2, <2>3 DEF MUIDBan, MUIDBanRec
    <2>5. DOMAIN t = 1..Len(kept) /\ \A k \in DOMAIN t : t[k] \in MUIDBanRec
      BY <1>2, <2>1, <2>4
    <2>6. t \in [1..Len(kept) -> AnyBan]
      BY <2>1, <2>5 DEF AnyBan
    <2> QED
      BY <1>2, <2>5, <2>6
  <1>4. IPBanRec \cap MUIDBanRec = {}
    BY DEF IPBanRec, MUIDBanRec
  <1> HIDE DEF s, t
  <1>6. s \o t \in Seq(AnyBan) /\ Len(s) \in Nat /\ Len(t) \in Nat
    BY <1>1, <1>3
  <1>7. Cardinality(PlacesOf(s \o t, IPBanRec)) = Len(s)
    <2>1. \A k \in DOMAIN t : t[k] \notin IPBanRec
      BY <1>3, <1>4
    <2> QED
      BY <1>1, <1>3, <2>1, PlacesInFront, Zenon
  <1>8. Cardinality(PlacesOf(s \o t, MUIDBanRec)) = Len(t)
    <2>1. \A k \in DOMAIN s : s[k] \notin MUIDBanRec
      BY <1>1, <1>4
    <2> QED
      BY <1>1, <1>3, <2>1, PlacesBehind, Zenon
  <1> QED
    BY <1>1, <1>3, <1>6, <1>7, <1>8 DEF s, t

\* The list, whichever of the files could be opened.
LEMMA ReadTyped ==
    ASSUME NEW ips \in Seq(IP), NEW muids \in Seq(FileLine), NEW reads
    PROVE  LET list == X_ReadBannedList(ips, muids, reads)
           IN  /\ list \in Seq(AnyBan)
               /\ Cardinality(PlacesOf(list, IPBanRec)) <= Len(ips)
               /\ Cardinality(PlacesOf(list, MUIDBanRec)) <= Len(muids)
  <1> DEFINE a == IF "ipbans.txt" \in reads THEN ips ELSE <<>>
             b == IF "muidbans.txt" \in reads THEN muids ELSE <<>>
             list == ReadIPs(a) \o ReadMUIDs(b)
  <1>1. X_ReadBannedList(ips, muids, reads) = list
    BY Zenon DEF X_ReadBannedList
  <1>2. a \in Seq(IP) /\ b \in Seq(FileLine) /\ Len(a) <= Len(ips) /\ Len(b) <= Len(muids)
        /\ Len(a) \in Nat /\ Len(b) \in Nat /\ Len(ips) \in Nat /\ Len(muids) \in Nat
    OBVIOUS
  <1> HIDE DEF a, b
  <1>3. /\ list \in Seq(AnyBan)
        /\ Cardinality(PlacesOf(list, IPBanRec)) <= Len(a)
        /\ Cardinality(PlacesOf(list, MUIDBanRec)) <= Len(b)
    BY <1>2, JoinedTyped, Zenon
  <1> HIDE DEF list
  <1>4. /\ Cardinality(PlacesOf(list, IPBanRec)) \in Nat
        /\ Cardinality(PlacesOf(list, MUIDBanRec)) \in Nat
    BY <1>3, PlacesFinite
  <1>5. /\ Cardinality(PlacesOf(list, IPBanRec)) <= Len(ips)
        /\ Cardinality(PlacesOf(list, MUIDBanRec)) <= Len(muids)
    BY <1>2, <1>3, <1>4
  <1> QED
    BY <1>1, <1>3, <1>5, Zenon

\* The slots, and what the files and the list can be; what is in them is left open.
BansTyped ==
    /\ banlist \in Seq(AnyBan)
    /\ ipbans \in Seq(IP) /\ Len(ipbans) <= MaxLines
    /\ muidbans \in Seq(FileLine) /\ Len(muidbans) <= MaxLines
    /\ Cardinality(PlacesOf(banlist, IPBanRec)) <= Len(ipbans)
    /\ Cardinality(PlacesOf(banlist, MUIDBanRec)) <= Len(muidbans)
    /\ clients \in [ClientNum -> SlotRec]

\* A command that ends with reading the files again, whatever it has written.
LEMMA RereadTyped ==
    ASSUME ipbans' \in Seq(IP), Len(ipbans') <= MaxLines,
           muidbans' \in Seq(FileLine), Len(muidbans') <= MaxLines, NEW reads,
           banlist' = X_ReadBannedList(ipbans', muidbans', reads),
           clients' \in [ClientNum -> SlotRec]
    PROVE  BansTyped'
  BY ReadTyped DEF BansTyped

\* unbanip and unbanmuid write no more lines than there were.
LEMMA WrittenTyped ==
    ASSUME BansTyped, NEW S
    PROVE  /\ IPLines(Kept(banlist, S)) \in Seq(IP)
           /\ Len(IPLines(Kept(banlist, S))) <= MaxLines
           /\ MUIDLines(Kept(banlist, S)) \in Seq(FileLine)
           /\ Len(MUIDLines(Kept(banlist, S))) <= MaxLines
  <1> DEFINE w == Kept(banlist, S)
             a == Kept(w, {ban \in ToSet(w) : ban.type = "IPBAN"})
             b == Kept(w, {ban \in ToSet(w) : ban.type = "MUIDBAN"})
  <1>1. w \in Seq(AnyBan) /\ ToSet(w) \subseteq AnyBan
    <2>1. banlist \in Seq(AnyBan)
      BY DEF BansTyped
    <2>2. w \in Seq(AnyBan)
      BY <2>1, KeptIsOf
    <2> HIDE DEF w
    <2> QED
      BY <2>2 DEF ToSet
  <1>2. /\ Cardinality(PlacesOf(w, IPBanRec)) <= Cardinality(PlacesOf(banlist, IPBanRec))
        /\ Cardinality(PlacesOf(w, MUIDBanRec)) <= Cardinality(PlacesOf(banlist, MUIDBanRec))
    BY KeptPlaces DEF BansTyped
  <1>3. /\ MaxLines \in Int /\ Len(ipbans) \in Int /\ Len(muidbans) \in Int
        /\ Cardinality(PlacesOf(banlist, IPBanRec)) \in Int
        /\ Cardinality(PlacesOf(banlist, MUIDBanRec)) \in Int
    BY PlacesFinite, BanListAssumption DEF BansTyped
  <1> HIDE DEF w
  <1>4. /\ Cardinality(PlacesOf(w, IPBanRec)) \in Int
        /\ Cardinality(PlacesOf(w, MUIDBanRec)) \in Int
    BY <1>1, PlacesFinite
  <1>5. \A ban \in AnyBan : /\ ban.type = "IPBAN" => ban \in IPBanRec
                            /\ ban.type = "MUIDBAN" => ban \in MUIDBanRec
    BY DEF AnyBan, IPBanRec, MUIDBanRec
  <1>6. /\ a \in Seq(AnyBan) /\ \A k \in DOMAIN a : a[k] \in IPBanRec
        /\ Cardinality(PlacesOf(a, IPBanRec)) <= Cardinality(PlacesOf(w, IPBanRec))
    <2>1. /\ a \in Seq(AnyBan)
          /\ \A k \in DOMAIN a : a[k] \in {ban \in ToSet(w) : ban.type = "IPBAN"}
      BY <1>1, KeptIsOf
    <2>2. Cardinality(PlacesOf(a, IPBanRec)) <= Cardinality(PlacesOf(w, IPBanRec))
      BY <1>1, KeptPlaces
    <2> HIDE DEF a
    <2> QED
      BY <1>1, <1>5, <2>1, <2>2
  <1>7. /\ b \in Seq(AnyBan) /\ \A k \in DOMAIN b : b[k] \in MUIDBanRec
        /\ Cardinality(PlacesOf(b, MUIDBanRec)) <= Cardinality(PlacesOf(w, MUIDBanRec))
    <2>1. /\ b \in Seq(AnyBan)
          /\ \A k \in DOMAIN b : b[k] \in {ban \in ToSet(w) : ban.type = "MUIDBAN"}
      BY <1>1, KeptIsOf
    <2>2. Cardinality(PlacesOf(b, MUIDBanRec)) <= Cardinality(PlacesOf(w, MUIDBanRec))
      BY <1>1, KeptPlaces
    <2> HIDE DEF b
    <2> QED
      BY <1>1, <1>5, <2>1, <2>2
  <1>8. IPLines(w) = [k \in DOMAIN a |-> a[k].who]
    BY DEF IPLines
  <1>9. MUIDLines(w) = [k \in DOMAIN b |-> Line(b[k].who)]
    BY DEF MUIDLines
  <1> HIDE DEF a, b
  <1>10. Len(a) \in Nat /\ DOMAIN a = 1..Len(a) /\ Len(b) \in Nat /\ DOMAIN b = 1..Len(b)
    BY <1>6, <1>7
  <1>11. IPLines(w) \in Seq(IP) /\ Len(IPLines(w)) = Len(a)
    <2>1. \A k \in 1..Len(a) : a[k].who \in IP
      BY <1>6, <1>10 DEF IPBanRec
    <2> QED
      BY <1>8, <1>10, <2>1
  <1>12. MUIDLines(w) \in Seq(FileLine) /\ Len(MUIDLines(w)) = Len(b)
    <2>1. \A k \in 1..Len(b) : Line(b[k].who) \in FileLine
      BY <1>7, <1>10 DEF MUIDBanRec, FileLine, Line
    <2> QED
      BY <1>9, <1>10, <2>1
  <1>13. /\ Len(a) = Cardinality(PlacesOf(a, IPBanRec))
         /\ Len(b) = Cardinality(PlacesOf(b, MUIDBanRec))
    BY <1>6, <1>7, AllPlaces
  <1>14. Len(a) <= MaxLines /\ Len(b) <= MaxLines
    BY <1>2, <1>3, <1>4, <1>6, <1>7, <1>13 DEF BansTyped
  <1> QED
    BY <1>11, <1>12, <1>14 DEF w

\* The ban of a client: an element more in the list, and a line more in its file.
LEMMA BanProcessTyped ==
    ASSUME BansTyped, NEW i \in ClientNum, NEW type \in {"IPBAN", "MUIDBAN"},
           NEW opens \in BOOLEAN, InGame(i), SV_BanProcess(i, type, opens)
    PROVE  BansTyped'
  <1> DEFINE c == clients[i]
             bans == opens /\ ~(RefusedIP(c.ip) \/ RefusedMUID(c.muid)) /\ c.muid # NoMUID
  <1>1. /\ c.ip \in IP /\ c.muid \in MUID \cup {NoMUID}
        /\ banlist \in Seq(AnyBan) /\ ipbans \in Seq(IP) /\ muidbans \in Seq(FileLine)
    BY DEF InGame, SlotRec, BansTyped
  <1>2. CASE ~bans
    <2>1. UNCHANGED <<banlist, ipbans, muidbans, clients>>
      BY <1>2, Zenon DEF SV_BanProcess
    <2> QED
      BY <2>1 DEF BansTyped
  <1>3. CASE bans
    <2>1. /\ banlist' = Append(banlist, Added(c, type))
          /\ IF type = "IPBAN"
             THEN /\ Len(ipbans) < MaxLines
                  /\ ipbans' = Append(ipbans, c.ip) /\ muidbans' = muidbans
             ELSE /\ Len(muidbans) < MaxLines
                  /\ muidbans' = Append(muidbans, Line(c.muid)) /\ ipbans' = ipbans
          /\ clients' = [clients EXCEPT ![i] = Free]
      BY <1>3, Zenon DEF SV_BanProcess
    <2>2. c.muid \in MUID
      BY <1>1, <1>3
    <2>3. clients' \in [ClientNum -> SlotRec]
      BY <2>1, FreeKeepsSlots DEF BansTyped
    <2> HIDE DEF c, bans
    <2> DEFINE ban == Added(c, type)
               ips == Cardinality(PlacesOf(banlist, IPBanRec))
               muids == Cardinality(PlacesOf(banlist, MUIDBanRec))
    <2>4. IF type = "IPBAN" THEN ban \in IPBanRec /\ ban \notin MUIDBanRec
                            ELSE ban \in MUIDBanRec /\ ban \notin IPBanRec
      BY <1>1, <2>2 DEF Added, IPBan, MUIDBan, IPBanRec, MUIDBanRec
    <2>5. ban \in AnyBan
      BY <2>4 DEF AnyBan
    <2> HIDE DEF ban
    <2>6. /\ banlist' \in Seq(AnyBan)
          /\ Cardinality(PlacesOf(banlist', IPBanRec)) =
                IF ban \in IPBanRec THEN ips + 1 ELSE ips
          /\ Cardinality(PlacesOf(banlist', MUIDBanRec)) =
                IF ban \in MUIDBanRec THEN muids + 1 ELSE muids
      BY <1>1, <2>1, <2>5, AppendedPlaces DEF ban
    <2>7. ips \in Nat /\ muids \in Nat /\ ips <= Len(ipbans) /\ muids <= Len(muidbans)
      BY PlacesFinite DEF BansTyped
    <2> HIDE DEF ips, muids
    <2>8. Line(c.muid) \in FileLine
      BY <2>2 DEF Line, FileLine
    <2>9. CASE type = "IPBAN"
      <3>1. /\ ipbans' \in Seq(IP) /\ Len(ipbans') = Len(ipbans) + 1 /\ muidbans' = muidbans
            /\ Len(ipbans) < MaxLines /\ Len(ipbans) \in Nat
        <4>1. /\ Len(ipbans) < MaxLines /\ ipbans' = Append(ipbans, c.ip)
              /\ muidbans' = muidbans
          BY <2>1, <2>9, Zenon
        <4> QED
          BY <1>1, <4>1
      <3>2. /\ Cardinality(PlacesOf(banlist', IPBanRec)) <= Len(ipbans')
            /\ Cardinality(PlacesOf(banlist', MUIDBanRec)) <= Len(muidbans')
            /\ Len(ipbans') <= MaxLines
        BY <2>4, <2>6, <2>7, <2>9, <3>1, BanListAssumption
      <3> QED
        BY <2>3, <2>6, <3>1, <3>2 DEF BansTyped
    <2>10. CASE type # "IPBAN"
      <3>1. /\ muidbans' \in Seq(FileLine) /\ Len(muidbans') = Len(muidbans) + 1
            /\ ipbans' = ipbans
            /\ Len(muidbans) < MaxLines /\ Len(muidbans) \in Nat
        <4>1. /\ Len(muidbans) < MaxLines /\ muidbans' = Append(muidbans, Line(c.muid))
              /\ ipbans' = ipbans
          BY <2>1, <2>10, Zenon
        <4> QED
          BY <1>1, <2>8, <4>1
      <3>2. /\ Cardinality(PlacesOf(banlist', IPBanRec)) <= Len(ipbans')
            /\ Cardinality(PlacesOf(banlist', MUIDBanRec)) <= Len(muidbans')
            /\ Len(muidbans') <= MaxLines
        BY <2>4, <2>6, <2>7, <2>10, <3>1, BanListAssumption
      <3> QED
        BY <2>3, <2>6, <3>1, <3>2 DEF BansTyped
    <2> QED
      BY <2>9, <2>10
  <1> QED
    BY <1>2, <1>3

\* Every step keeps the types.
LEMMA BansStepTyped ==
    ASSUME BansTyped, [BansNext]_bvars
    PROVE  BansTyped'
  <1>1. /\ ipbans \in Seq(IP) /\ Len(ipbans) <= MaxLines /\ Len(ipbans) \in Int
        /\ muidbans \in Seq(FileLine) /\ Len(muidbans) <= MaxLines /\ Len(muidbans) \in Int
        /\ clients \in [ClientNum -> SlotRec] /\ MaxLines \in Int
    BY BanListAssumption DEF BansTyped
  <1>2. ASSUME UNCHANGED <<banlist, ipbans, muidbans, clients>> PROVE BansTyped'
    BY <1>2 DEF BansTyped
  <1>3. ASSUME NEW reads, NEW opens \in BOOLEAN, NEW ip \in IP,
               SV_BanIP_f(ip, opens, reads)
        PROVE  BansTyped'
    <2>1. /\ Len(ipbans) < MaxLines /\ muidbans' = muidbans
          /\ ipbans' = IF opens THEN Append(ipbans, ip) ELSE ipbans
          /\ banlist' = X_ReadBannedList(ipbans', muidbans, reads)
      BY <1>3, Zenon DEF SV_BanIP_f
    <2>2. clients' \in [ClientNum -> SlotRec]
      BY <1>1, <1>3, FreeKeepsSlots, Zenon DEF SV_BanIP_f
    <2>3. ipbans' \in Seq(IP) /\ Len(ipbans') <= MaxLines
      BY <1>1, <2>1
    <2> QED
      BY <1>1, <2>1, <2>2, <2>3, RereadTyped
  <1>4. ASSUME NEW reads, NEW opens \in BOOLEAN, NEW m \in MUID,
               SV_BanMUID_f(m, opens, reads)
        PROVE  BansTyped'
    <2>1. /\ Len(muidbans) < MaxLines /\ ipbans' = ipbans
          /\ muidbans' = IF opens THEN Append(muidbans, Line(m)) ELSE muidbans
          /\ banlist' = X_ReadBannedList(ipbans, muidbans', reads)
      BY <1>4, Zenon DEF SV_BanMUID_f
    <2>2. clients' \in [ClientNum -> SlotRec]
      BY <1>1, <1>4, FreeKeepsSlots, Zenon DEF SV_BanMUID_f
    <2>3. Line(m) \in FileLine
      BY DEF Line, FileLine
    <2>4. muidbans' \in Seq(FileLine) /\ Len(muidbans') <= MaxLines
      BY <1>1, <2>1, <2>3
    <2> QED
      BY <1>1, <2>1, <2>2, <2>4, RereadTyped
  <1>5. ASSUME NEW reads, NEW opens \in BOOLEAN, NEW ip \in IP,
               SV_UnbanIP_f(ip, opens, reads)
        PROVE  BansTyped'
    <2>1. /\ muidbans' = muidbans /\ clients' = clients
          /\ ipbans' = IF opens THEN IPLines(WithoutIP(ip)) ELSE ipbans
          /\ banlist' = X_ReadBannedList(ipbans', muidbans, reads)
      BY <1>5, Zenon DEF SV_UnbanIP_f
    <2>2. IPLines(WithoutIP(ip)) \in Seq(IP) /\ Len(IPLines(WithoutIP(ip))) <= MaxLines
      BY WrittenTyped DEF WithoutIP
    <2>3. ipbans' \in Seq(IP) /\ Len(ipbans') <= MaxLines
      BY <1>1, <2>1, <2>2
    <2> QED
      BY <1>1, <2>1, <2>3, RereadTyped
  <1>6. ASSUME NEW reads, NEW opens \in BOOLEAN, NEW m \in MUID,
               SV_UnbanMUID_f(m, opens, reads)
        PROVE  BansTyped'
    <2>1. /\ ipbans' = ipbans /\ clients' = clients
          /\ muidbans' = IF opens THEN MUIDLines(WithoutMUID(m)) ELSE muidbans
          /\ banlist' = X_ReadBannedList(ipbans, muidbans', reads)
      BY <1>6, Zenon DEF SV_UnbanMUID_f
    <2>2. /\ MUIDLines(WithoutMUID(m)) \in Seq(FileLine)
          /\ Len(MUIDLines(WithoutMUID(m))) <= MaxLines
      BY WrittenTyped DEF WithoutMUID
    <2>3. muidbans' \in Seq(FileLine) /\ Len(muidbans') <= MaxLines
      BY <1>1, <2>1, <2>2
    <2> QED
      BY <1>1, <2>1, <2>3, RereadTyped
  <1>7. ASSUME NEW opens \in BOOLEAN, NEW type \in {"IPBAN", "MUIDBAN"},
               NEW found \in SUBSET {i \in ClientNum : InGame(i)},
               SV_Ban_f(found, type, opens)
        PROVE  BansTyped'
    <2>1. CASE Cardinality(found) = 1
      <3>1. PICK i \in found : SV_BanProcess(i, type, opens)
        BY <1>7, <2>1, Zenon DEF SV_Ban_f
      <3>2. i \in ClientNum /\ InGame(i)
        OBVIOUS
      <3> QED
        BY <3>1, <3>2, BanProcessTyped
    <2>2. CASE Cardinality(found) # 1
      BY <1>2, <1>7, <2>2, Zenon DEF SV_Ban_f
    <2> QED
      BY <2>1, <2>2
  <1>8. ASSUME NEW opens \in BOOLEAN, NEW type \in {"IPBAN", "MUIDBAN"}, NEW i \in ClientNum,
               SV_BanNum_f(i, type, opens)
        PROVE  BansTyped'
    BY <1>8, BanProcessTyped DEF SV_BanNum_f
  <1>9. ASSUME NEW i \in ClientNum, NEW v \in Visitor, Connect(i, v.ip, v.muid)
        PROVE  BansTyped'
    <2>1. /\ clients' = [clients EXCEPT ![i] = [used |-> TRUE, ip |-> v.ip, muid |-> v.muid]]
          /\ UNCHANGED <<banlist, ipbans, muidbans>>
      BY <1>9, Zenon DEF Connect
    <2>2. [used |-> TRUE, ip |-> v.ip, muid |-> v.muid] \in SlotRec
      <3>1. v.ip \in IP /\ v.muid \in MUID \cup {NoMUID}
        BY BanListAssumption DEF NoMUID
      <3> QED
        BY <3>1 DEF SlotRec
    <2>3. clients' \in [ClientNum -> SlotRec]
      BY <1>1, <2>1, <2>2
    <2> QED
      BY <2>1, <2>3 DEF BansTyped
  <1>10. ASSUME NEW reads, ReloadBans(reads) \/ Restart(reads) PROVE BansTyped'
    <2>1. /\ banlist' = X_ReadBannedList(ipbans', muidbans', reads)
          /\ ipbans' = ipbans /\ muidbans' = muidbans
          /\ clients' = clients \/ clients' = [i \in ClientNum |-> Free]
      BY <1>10, Zenon DEF ReloadBans, Restart, StartsAnew
    <2>2. clients' \in [ClientNum -> SlotRec]
      BY <1>1, <2>1, FreeKeepsSlots
    <2> QED
      BY <1>1, <2>1, <2>2, RereadTyped
  <1>11. ASSUME NEW reads, NEW ip \in IP, NEW n \in 0..MaxLines, DiesInUnbanIP(ip, n, reads)
         PROVE  BansTyped'
    <2> DEFINE lines == IPLines(WithoutIP(ip))
    <2>1. /\ n <= Len(lines) /\ ipbans' = SubSeq(lines, 1, n) /\ muidbans' = muidbans
          /\ banlist' = X_ReadBannedList(ipbans', muidbans', reads)
          /\ clients' = [i \in ClientNum |-> Free]
      BY <1>11, Zenon DEF DiesInUnbanIP, StartsAnew
    <2>2. lines \in Seq(IP) /\ Len(lines) <= MaxLines
      BY WrittenTyped DEF WithoutIP
    <2> HIDE DEF lines
    <2>3. n \in Nat /\ n <= MaxLines
      BY <1>1
    <2>4. ipbans' \in Seq(IP) /\ Len(ipbans') <= MaxLines
      BY <2>1, <2>2, <2>3, FirstLines
    <2>5. clients' \in [ClientNum -> SlotRec]
      BY <1>1, <2>1, FreeKeepsSlots
    <2> QED
      BY <1>1, <2>1, <2>4, <2>5, RereadTyped
  <1>12. ASSUME NEW reads, NEW m \in MUID, NEW n \in 0..MaxLines, DiesInUnbanMUID(m, n, reads)
         PROVE  BansTyped'
    <2> DEFINE lines == MUIDLines(WithoutMUID(m))
    <2>1. /\ n <= Len(lines) /\ muidbans' = SubSeq(lines, 1, n) /\ ipbans' = ipbans
          /\ banlist' = X_ReadBannedList(ipbans', muidbans', reads)
          /\ clients' = [i \in ClientNum |-> Free]
      BY <1>12, Zenon DEF DiesInUnbanMUID, StartsAnew
    <2>2. lines \in Seq(FileLine) /\ Len(lines) <= MaxLines
      BY WrittenTyped DEF WithoutMUID
    <2> HIDE DEF lines
    <2>3. n \in Nat /\ n <= MaxLines
      BY <1>1
    <2>4. muidbans' \in Seq(FileLine) /\ Len(muidbans') <= MaxLines
      BY <2>1, <2>2, <2>3, FirstLines
    <2>5. clients' \in [ClientNum -> SlotRec]
      BY <1>1, <2>1, FreeKeepsSlots
    <2> QED
      BY <1>1, <2>1, <2>4, <2>5, RereadTyped
  <1>13. CASE BansNext
    BY <1>3, <1>4, <1>5, <1>6, <1>7, <1>8, <1>9, <1>10, <1>11, <1>12, <1>13, Zenon
       DEF BansNext
  <1>14. CASE UNCHANGED bvars
    BY <1>2, <1>14 DEF bvars
  <1> QED
    BY <1>13, <1>14

\* The files an administrator has left are of a length the bound allows.
LEMMA BansInitTyped ==
    ASSUME BansInit
    PROVE  BansTyped
  <1>1. /\ ipbans \in Seq(IP) /\ muidbans \in Seq(FileLine)
        /\ Len(ipbans) <= MaxLines /\ Len(muidbans) <= MaxLines
    BY BanListAssumption, Zenon DEF BansInit, FileLine
  <1>2. PICK reads \in SUBSET Files : banlist = X_ReadBannedList(ipbans, muidbans, reads)
    BY Zenon DEF BansInit
  <1>3. clients \in [ClientNum -> SlotRec]
    <2>1. clients = [i \in ClientNum |-> Free] /\ Free \in SlotRec
      BY DEF BansInit, Free, SlotRec, NoMUID
    <2> QED
      BY <2>1
  <1> QED
    BY <1>1, <1>2, <1>3, ReadTyped DEF BansTyped

\* The types, and the list no longer than the two files.
LEMMA BansTypedOK == BansTyped => BansTypeOK
  <1> SUFFICES ASSUME BansTyped PROVE BansTypeOK
    OBVIOUS
  <1>1. /\ banlist \in Seq(AnyBan) /\ Len(banlist) \in Nat /\ DOMAIN banlist = 1..Len(banlist)
        /\ \A k \in 1..Len(banlist) : banlist[k] \in AnyBan
    BY DEF BansTyped
  <1> DEFINE P == PlacesOf(banlist, IPBanRec)
             Q == PlacesOf(banlist, MUIDBanRec)
  <1>2. P \cup Q = 1..Len(banlist) /\ P \cap Q = {}
    <2>1. IPBanRec \cap MUIDBanRec = {}
      BY DEF IPBanRec, MUIDBanRec
    <2> QED
      BY <1>1, <2>1 DEF AnyBan, PlacesOf
  <1>3. /\ IsFiniteSet(P) /\ IsFiniteSet(Q) /\ Cardinality(P) \in Nat /\ Cardinality(Q) \in Nat
        /\ Cardinality(P) <= Len(ipbans) /\ Cardinality(Q) <= Len(muidbans)
    BY <1>1, PlacesFinite DEF BansTyped
  <1> HIDE DEF P, Q
  <1>4. Cardinality(P \cup Q) = Cardinality(P) + Cardinality(Q) - Cardinality(P \cap Q)
    BY <1>3, FS_Union
  <1>5. Cardinality(P \cap Q) = 0 /\ Cardinality(P \cup Q) = Len(banlist)
    <2>1. Cardinality(1..Len(banlist)) = Len(banlist)
      <3>1. \A n \in Nat : Cardinality(1..n) = n
        BY FS_Interval
      <3> QED
        BY <1>1, <3>1, Zenon
    <2>2. Cardinality(P \cap Q) = 0
      BY <1>2, FS_EmptySet, Zenon
    <2> QED
      BY <1>2, <2>1, <2>2, Zenon
  <1>6. Len(banlist) <= Len(ipbans) + Len(muidbans)
    <2>1. Len(ipbans) \in Nat /\ Len(muidbans) \in Nat
      BY DEF BansTyped
    <2> QED
      BY <1>1, <1>3, <1>4, <1>5, <2>1
  <1>7. clients \in [ClientNum -> [used : BOOLEAN, ip : IP \cup {"none"},
                                   muid : MUID \cup {NoMUID}]]
    BY Zenon DEF BansTyped, SlotRec
  <1> QED
    BY <1>6, <1>7, Zenon DEF BansTyped, BansTypeOK, AnyBan, IPBanRec, MUIDBanRec, FileLine

\* Whatever is banned and unbanned, from whatever files: list and files keep
\* their form, and the list never grows longer than the two files that a restart
\* would read it from (sv_init.c:27-93, sv_commands.c:592-776).
THEOREM BansStayTyped == BansSpec => []BansTypeOK
  <1>1. BansInit => BansTyped
    BY BansInitTyped
  <1>2. BansTyped /\ [BansNext]_bvars => BansTyped'
    BY BansStepTyped
  <1> QED
    BY <1>1, <1>2, BansTypedOK, PTL DEF BansSpec
=============================================================================
