------------------------ MODULE ClientMessagesProofs ------------------------
(***************************************************************************)
(* Theorems about ClientMessages, for any commands the client gives, any   *)
(* numbers of maps and restarts, and any number of packets under way.      *)
(***************************************************************************)
EXTENDS ClientMessages, SequenceTheorems, FiniteSetTheorems, WellFoundedInduction, TLAPS

\* A nonempty set of numbers has a least one.
LEMMA LeastOf ==
    ASSUME NEW S \in SUBSET Nat, S # {}
    PROVE  \E i \in S : \A j \in S : i <= j
  <1>1. PICK i \in S : \A j \in S : <<j, i>> \notin OpToRel(<, Nat)
    BY WFMin, NatLessThanWellFounded, Zenon
  <1>2. \A j \in S : ~(j < i)
    BY <1>1, Zenon DEF OpToRel
  <1> QED
    BY <1>2

\* A nonempty set of numbers that has a bound has a greatest one.
LEMMA GreatestOf ==
    ASSUME NEW S \in SUBSET Nat, S # {}, NEW bound \in Nat, \A i \in S : i <= bound
    PROVE  Max(S) \in S /\ \A j \in S : j <= Max(S)
  <1> DEFINE below == {bound - i : i \in S}
  <1>1. below \in SUBSET Nat /\ below # {}
    OBVIOUS
  <1>2. PICK m \in below : \A n \in below : m <= n
    BY <1>1, LeastOf
  <1>3. \E i \in S : \A j \in S : i >= j
    <2>1. PICK i \in S : m = bound - i
      BY <1>2
    <2>2. \A j \in S : i >= j
      <3> SUFFICES ASSUME NEW j \in S PROVE i >= j
        OBVIOUS
      <3>1. bound - j \in below
        OBVIOUS
      <3> QED
        BY <1>2, <2>1, <3>1
    <2> QED
      BY <2>2
  <1>4. Max(S) \in S /\ \A j \in S : Max(S) >= j
    BY <1>3, Zenon DEF Max
  <1> QED
    BY <1>4

------------------------------------------------------------------------------
(* The commands of a set, in order *)

Enumerates(s, S) ==
    ToSet(s) = S /\ \A a, b \in DOMAIN s : a < b => s[a] < s[b]

\* Sets of numbers up to a bound are finite.
LEMMA BoundedIsFinite ==
    ASSUME NEW bound \in Nat, NEW S \in SUBSET (0..bound)
    PROVE  IsFiniteSet(S) /\ Cardinality(S) \in Nat
  <1>1. IsFiniteSet(0..bound)
    BY FS_Interval
  <1>2. IsFiniteSet(S)
    BY <1>1, FS_Subset
  <1> QED
    BY <1>2, FS_CardinalityType

\* Every such set can be written out in order: of a smallest one that could
\* not, leave out its greatest element.
LEMMA EnumerationExists ==
    ASSUME NEW bound \in Nat, NEW S \in SUBSET (0..bound)
    PROVE  \E s \in [1..Cardinality(S) -> S] : Enumerates(s, S)
  <1> DEFINE Without == {n \in Nat : \E T \in SUBSET (0..bound) :
                            /\ Cardinality(T) = n
                            /\ ~\E s \in [1..n -> T] : Enumerates(s, T)}
  <1>1. \A T \in SUBSET (0..bound) : IsFiniteSet(T) /\ Cardinality(T) \in Nat
    BY BoundedIsFinite
  <1>2. Without = {}
    <2> SUFFICES ASSUME Without # {} PROVE FALSE
      OBVIOUS
    <2>1. PICK n \in Without : \A m \in Without : n <= m
      BY LeastOf
    <2>2. PICK T \in SUBSET (0..bound) : /\ Cardinality(T) = n
                                         /\ ~\E s \in [1..n -> T] : Enumerates(s, T)
      BY <2>1
    <2>3. CASE T = {}
      <3>1. n = 0
        BY <2>2, <2>3, FS_EmptySet
      <3> DEFINE s == [k \in 1..0 |-> 0]
      <3>2. s \in [1..n -> T] /\ Enumerates(s, T)
        BY <2>3, <3>1 DEF Enumerates, ToSet
      <3> QED
        BY <2>2, <3>2
    <2>4. CASE T # {}
      <3> DEFINE m == Max(T)
                 R == T \ {m}
      <3>2. m \in T /\ m \in Nat /\ \A i \in T : i <= m
        <4>1. T \in SUBSET Nat /\ \A i \in T : i <= bound
          OBVIOUS
        <4>2. Max(T) \in T /\ \A i \in T : i <= Max(T)
          BY <2>4, <4>1, GreatestOf
        <4> QED
          BY <4>1, <4>2
      <3> HIDE DEF m
      <3>3. R \in SUBSET (0..bound) /\ Cardinality(R) = n - 1 /\ n \in Nat /\ n - 1 \in Nat
        <4>1. Cardinality(R) = n - 1
          BY <1>1, <2>2, <3>2, FS_RemoveElement
        <4>2. Cardinality(R) \in Nat /\ n \in Nat
          BY <1>1, <2>2
        <4> QED
          BY <4>1, <4>2
      <3>4. \A i \in R : i < m
        BY <3>2
      <3>5. PICK r \in [1..(n - 1) -> R] : Enumerates(r, R)
        <4>1. n - 1 \notin Without
          BY <2>1, <3>3
        <4> QED
          BY <3>3, <4>1
      <3> DEFINE s == [k \in 1..n |-> IF k = n THEN m ELSE r[k]]
      <3>6. s \in [1..n -> T]
        BY <3>2, <3>3, <3>5
      <3>7. ToSet(s) = T
        <4>1. \A i \in R : \E k \in 1..(n - 1) : r[k] = i
          BY <3>5 DEF Enumerates, ToSet
        <4>2. \A i \in T : \E k \in 1..n : s[k] = i
          BY <3>3, <4>1
        <4> QED
          BY <3>6, <4>2 DEF ToSet
      <3>8. \A a, b \in DOMAIN s : a < b => s[a] < s[b]
        <4> SUFFICES ASSUME NEW a \in 1..n, NEW b \in 1..n, a < b PROVE s[a] < s[b]
          OBVIOUS
        <4>1. a \in 1..(n - 1) /\ s[a] = r[a] /\ r[a] \in R
          BY <3>3, <3>5
        <4>2. CASE b = n
          BY <3>4, <4>1, <4>2
        <4>3. CASE b # n
          <5>1. b \in 1..(n - 1) /\ s[b] = r[b]
            BY <3>3, <4>3
          <5> QED
            BY <3>5, <4>1, <5>1 DEF Enumerates
        <4> QED
          BY <4>2, <4>3
      <3> QED
        BY <2>2, <3>6, <3>7, <3>8 DEF Enumerates
    <2> QED
      BY <2>3, <2>4
  <1> QED
    BY <1>1, <1>2

\* InOrder writes out its set.
LEMMA InOrderEnumerates ==
    ASSUME NEW bound \in Nat, NEW S \in SUBSET (0..bound)
    PROVE  InOrder(S) \in Seq(S) /\ Enumerates(InOrder(S), S)
  <1>1. Cardinality(S) \in Nat
    BY BoundedIsFinite
  <1>2. InOrder(S) \in [1..Cardinality(S) -> S] /\ Enumerates(InOrder(S), S)
    BY EnumerationExists, Zenon DEF InOrder, Enumerates
  <1> QED
    BY <1>1, <1>2

------------------------------------------------------------------------------
(* The invariant *)

Rank == {-1, 0, 1}

ClientRecord ==
    [state : CS_ZOMBIE..CS_ACTIVE, ackRank : Rank, lastClientCommand : Nat,
     pureAuthentic : 0..2, downloading : BOOLEAN, downloaded : BOOLEAN, lost : BOOLEAN]

PlayerRecord ==
    [serverId : ServerIds \cup {NoServer}, rank : Rank, loaded : BOOLEAN,
     confirmed : Nat, issued : Nat]

ToServer ==
    [serverId : ServerIds \cup {NoServer}, rank : Rank, from : Nat, to : Nat,
     move : BOOLEAN]

ToClient ==
    [type : {"gamestate", "message", "snapshot"}, rank : Rank, serverId : ServerIds,
     last : Nat]

MessagesTypeOK ==
    /\ serverId \in ServerIds
    /\ cl \in ClientRecord
    /\ player \in PlayerRecord
    /\ toServer \in Seq(ToServer)
    /\ toClient \in Seq(ToClient)
    /\ ran \in Seq(Nat)

\* What the packets to the client confirm never goes back, and lies between what
\* it has seen confirmed (low) and what the server has reached (high).
Ascends(packets, low, high) ==
    /\ \A k \in DOMAIN packets : low <= packets[k].last /\ packets[k].last <= high
    /\ \A j, k \in DOMAIN packets : j <= k => packets[j].last <= packets[k].last

\* Every packet to the server begins at the latest with the next command.
Repeats(packets, reached, issued) ==
    \A k \in DOMAIN packets : /\ 1 <= packets[k].from /\ packets[k].from <= reached + 1
                              /\ packets[k].to <= issued

Ran(seq, reached) ==
    /\ \A a, b \in DOMAIN seq : a < b => seq[a] < seq[b]
    /\ \A a \in DOMAIN seq : seq[a] <= reached
    /\ \A n \in 1..reached : Exempt(n) \/ Ucmd(n) => n \in ToSet(seq)

MessagesInv ==
    /\ MessagesTypeOK
    /\ ~cl.lost
    /\ player.confirmed <= cl.lastClientCommand
    /\ cl.lastClientCommand <= player.issued
    /\ player.issued <= Len(KindOf)
    /\ Ascends(toClient, player.confirmed, cl.lastClientCommand)
    /\ Repeats(toServer, cl.lastClientCommand, player.issued)
    /\ Ran(ran, cl.lastClientCommand)

\* The commands are numbered from 1.
LEMMA KindOfAll == Len(KindOf) \in Nat /\ DOMAIN KindOf = 1..Len(KindOf)
  BY MessageAssumption

\* The invariant holds at first.
LEMMA MessagesInit == Init => MessagesInv
  <1> SUFFICES ASSUME Init PROVE MessagesInv
    OBVIOUS
  <1>1. MessagesTypeOK
    BY MessageAssumption
       DEF Init, MessagesTypeOK, ServerIds, ClientRecord, PlayerRecord, Rank, NoServer,
           CS_ZOMBIE, CS_CONNECTED, CS_ACTIVE
  <1>2. /\ ~cl.lost /\ player.confirmed = 0 /\ cl.lastClientCommand = 0 /\ player.issued = 0
        /\ toClient = <<>> /\ toServer = <<>> /\ ran = <<>>
    BY DEF Init
  <1>3. Ascends(toClient, 0, 0) /\ Repeats(toServer, 0, 0) /\ Ran(ran, 0)
    BY <1>2 DEF Ascends, Repeats, Ran
  <1> QED
    BY <1>1, <1>2, <1>3, KindOfAll DEF MessagesInv

------------------------------------------------------------------------------
(* The packets under way *)

\* Taking a packet off the link to the client.
LEMMA TailAscends ==
    ASSUME NEW q \in Seq(ToClient), q # <<>>, NEW low \in Nat, NEW high \in Nat,
           Ascends(q, low, high)
    PROVE  /\ Head(q) \in ToClient /\ Tail(q) \in Seq(ToClient)
           /\ low <= Head(q).last /\ Head(q).last <= high
           /\ Ascends(Tail(q), Head(q).last, high) /\ Ascends(Tail(q), low, high)
  <1>1. /\ Head(q) \in ToClient /\ Tail(q) \in Seq(ToClient) /\ Head(q) = q[1]
        /\ Len(q) \in Nat \ {0} /\ DOMAIN q = 1..Len(q) /\ DOMAIN Tail(q) = 1..(Len(q) - 1)
        /\ \A k \in 1..(Len(q) - 1) : Tail(q)[k] = q[k + 1]
    OBVIOUS
  <1>2. \A k \in DOMAIN Tail(q) : /\ k \in DOMAIN q /\ k + 1 \in DOMAIN q
                                  /\ 1 \in DOMAIN q /\ 1 <= k + 1
    BY <1>1
  <1> QED
    BY <1>1, <1>2 DEF Ascends

\* Putting one on it that confirms what the server has reached.
LEMMA AppendAscends ==
    ASSUME NEW q \in Seq(ToClient), NEW low \in Nat, NEW high \in Nat, low <= high,
           Ascends(q, low, high), NEW msg \in ToClient, msg.last = high
    PROVE  Append(q, msg) \in Seq(ToClient) /\ Ascends(Append(q, msg), low, high)
  <1>1. /\ Append(q, msg) \in Seq(ToClient)
        /\ DOMAIN q = 1..Len(q) /\ Len(q) \in Nat /\ DOMAIN Append(q, msg) = 1..(Len(q) + 1)
        /\ \A k \in 1..Len(q) : Append(q, msg)[k] = q[k]
        /\ Append(q, msg)[Len(q) + 1] = msg
    OBVIOUS
  <1>2. \A k \in DOMAIN Append(q, msg) : k \in DOMAIN q \/ k = Len(q) + 1
    BY <1>1
  <1>3. \A k \in DOMAIN q : k < Len(q) + 1
    BY <1>1
  <1> QED
    BY <1>1, <1>2, <1>3 DEF Ascends

\* The same for a link that may lose it at once.
LEMMA PutAscends ==
    ASSUME NEW q \in Seq(ToClient), NEW low \in Nat, NEW high \in Nat, low <= high,
           Ascends(q, low, high), NEW msg \in ToClient, msg.last = high
    PROVE  Put(q, msg) \in Seq(ToClient) /\ Ascends(Put(q, msg), low, high)
  <1>1. CASE Len(q) < MaxInFlight
    BY <1>1, AppendAscends DEF Put
  <1>2. CASE ~(Len(q) < MaxInFlight)
    <2>1. q # <<>>
      BY <1>2, MessageAssumption
    <2>2. Tail(q) \in Seq(ToClient) /\ Ascends(Tail(q), low, high)
      BY <2>1, TailAscends
    <2> QED
      BY <1>2, <2>2, AppendAscends DEF Put
  <1> QED
    BY <1>1, <1>2

\* Packets are of an older gamestate now; what they confirm is the same.
LEMMA OlderAscends ==
    ASSUME NEW q \in Seq(ToClient), NEW low \in Nat, NEW high \in Nat, Ascends(q, low, high)
    PROVE  Older(q) \in Seq(ToClient) /\ Ascends(Older(q), low, high)
  <1>1. /\ DOMAIN q = 1..Len(q) /\ Len(q) \in Nat /\ DOMAIN Older(q) = DOMAIN q
        /\ \A k \in DOMAIN q : q[k] \in ToClient
    BY DEF Older
  <1>2. \A m \in ToClient : [m EXCEPT !.rank = -1] \in ToClient
                            /\ [m EXCEPT !.rank = -1].last = m.last
    BY DEF ToClient, Rank
  <1>3. \A k \in DOMAIN q : Older(q)[k] = [q[k] EXCEPT !.rank = -1]
    BY DEF Older
  <1>4. \A k \in DOMAIN q : Older(q)[k] \in ToClient /\ Older(q)[k].last = q[k].last
    BY <1>1, <1>2, <1>3, Zenon
  <1>5. Older(q) \in Seq(ToClient)
    <2>1. Older(q) = [k \in 1..Len(q) |-> Older(q)[k]]
      BY <1>1 DEF Older
    <2>2. Older(q) \in [1..Len(q) -> ToClient]
      BY <1>1, <1>4, <2>1
    <2> QED
      BY <1>1, <2>2, SeqDef
  <1> QED
    BY <1>1, <1>4, <1>5 DEF Ascends

\* Taking a packet off the link to the server.
LEMMA TailRepeats ==
    ASSUME NEW q \in Seq(ToServer), q # <<>>, NEW reached, NEW issued,
           Repeats(q, reached, issued)
    PROVE  /\ Head(q) \in ToServer /\ Tail(q) \in Seq(ToServer)
           /\ 1 <= Head(q).from /\ Head(q).from <= reached + 1 /\ Head(q).to <= issued
           /\ Repeats(Tail(q), reached, issued)
  <1>1. /\ Head(q) \in ToServer /\ Tail(q) \in Seq(ToServer) /\ Head(q) = q[1]
        /\ Len(q) \in Nat \ {0} /\ DOMAIN q = 1..Len(q) /\ DOMAIN Tail(q) = 1..(Len(q) - 1)
        /\ \A k \in 1..(Len(q) - 1) : Tail(q)[k] = q[k + 1]
    OBVIOUS
  <1>2. 1 \in DOMAIN q /\ \A k \in DOMAIN Tail(q) : k + 1 \in DOMAIN q
    BY <1>1
  <1> QED
    BY <1>1, <1>2 DEF Repeats

\* Packets are of an older gamestate now; what they repeat is the same.
LEMMA OlderRepeats ==
    ASSUME NEW q \in Seq(ToServer), NEW reached, NEW issued, Repeats(q, reached, issued)
    PROVE  Older(q) \in Seq(ToServer) /\ Repeats(Older(q), reached, issued)
  <1>1. /\ DOMAIN q = 1..Len(q) /\ Len(q) \in Nat /\ DOMAIN Older(q) = DOMAIN q
        /\ \A k \in DOMAIN q : q[k] \in ToServer
    BY DEF Older
  <1>2. \A m \in ToServer : [m EXCEPT !.rank = -1] \in ToServer
                            /\ [m EXCEPT !.rank = -1].from = m.from
                            /\ [m EXCEPT !.rank = -1].to = m.to
    BY DEF ToServer, Rank
  <1>3. \A k \in DOMAIN q : Older(q)[k] = [q[k] EXCEPT !.rank = -1]
    BY DEF Older
  <1>4. \A k \in DOMAIN q : /\ Older(q)[k] \in ToServer
                            /\ Older(q)[k].from = q[k].from /\ Older(q)[k].to = q[k].to
    BY <1>1, <1>2, <1>3, Zenon
  <1>5. Older(q) \in Seq(ToServer)
    <2>1. Older(q) = [k \in 1..Len(q) |-> Older(q)[k]]
      BY <1>1 DEF Older
    <2>2. Older(q) \in [1..Len(q) -> ToServer]
      BY <1>1, <1>4, <2>1
    <2> QED
      BY <1>1, <2>2, SeqDef
  <1> QED
    BY <1>1, <1>4, <1>5 DEF Repeats

\* More commands reached or given.
LEMMA RepeatsLonger ==
    ASSUME NEW q \in Seq(ToServer), NEW reached \in Nat, NEW issued \in Nat,
           Repeats(q, reached, issued), NEW r \in Nat, NEW i \in Nat, reached <= r, issued <= i
    PROVE  Repeats(q, r, i)
  <1>1. \A k \in DOMAIN q : q[k].from \in Nat /\ q[k].to \in Nat
    <2>1. \A k \in DOMAIN q : q[k] \in ToServer
      OBVIOUS
    <2> QED
      BY <2>1 DEF ToServer
  <1> QED
    BY <1>1 DEF Repeats

\* What is confirmed on the link stays below a server that goes on.
LEMMA AscendsHigher ==
    ASSUME NEW q \in Seq(ToClient), NEW low \in Nat, NEW high \in Nat,
           Ascends(q, low, high), NEW h \in Nat, high <= h
    PROVE  Ascends(q, low, h)
  <1>1. \A k \in DOMAIN q : q[k].last \in Nat
    <2>1. \A k \in DOMAIN q : q[k] \in ToClient
      OBVIOUS
    <2> QED
      BY <2>1 DEF ToClient
  <1> QED
    BY <1>1 DEF Ascends

\* Sending a gamestate.
LEMMA SendGameStateKeeps ==
    ASSUME MessagesInv, toServer # <<>>, NEW c \in ClientRecord,
           c.lastClientCommand = cl.lastClientCommand, c.lost = cl.lost,
           SendGameState(c), UNCHANGED <<serverId, ran>>
    PROVE  MessagesInv'
  <1> DEFINE reached == cl.lastClientCommand
             msg == [type |-> "gamestate", rank |-> 0, serverId |-> serverId, last |-> reached]
  <1>1. reached \in Nat /\ player.confirmed \in Nat /\ player.issued \in Nat
    BY DEF MessagesInv, MessagesTypeOK, ClientRecord, PlayerRecord
  <1>2. /\ cl' \in ClientRecord /\ cl'.lastClientCommand = reached /\ cl'.lost = cl.lost
    <2> DEFINE c1 == [c EXCEPT !.state = CS_PRIMED]
               c2 == [c1 EXCEPT !.pureAuthentic = 0]
               c3 == [c2 EXCEPT !.ackRank = -1]
    <2>1. cl' = c3
      BY Zenon DEF SendGameState
    <2>2. c1 \in ClientRecord /\ c1.lastClientCommand = reached /\ c1.lost = cl.lost
      BY DEF ClientRecord, CS_ZOMBIE, CS_PRIMED, CS_ACTIVE
    <2> HIDE DEF c1
    <2>3. c2 \in ClientRecord /\ c2.lastClientCommand = reached /\ c2.lost = cl.lost
      BY <2>2 DEF ClientRecord
    <2> HIDE DEF c2
    <2>4. c3 \in ClientRecord /\ c3.lastClientCommand = reached /\ c3.lost = cl.lost
      BY <2>3 DEF ClientRecord, Rank
    <2> QED
      BY <2>1, <2>4, Zenon
  <1>3. /\ player' \in PlayerRecord /\ player'.confirmed = player.confirmed
        /\ player'.issued = player.issued
    BY DEF SendGameState, MessagesInv, MessagesTypeOK, PlayerRecord, Rank
  <1>4. toClient' \in Seq(ToClient) /\ Ascends(toClient', player.confirmed, reached)
    <2>1. toClient' = Put(Older(toClient), msg)
      BY Zenon DEF SendGameState
    <2>2. msg \in ToClient /\ msg.last = reached
      BY <1>1 DEF MessagesInv, MessagesTypeOK, ToClient, Rank
    <2>3. Older(toClient) \in Seq(ToClient) /\ Ascends(Older(toClient), player.confirmed, reached)
      BY <1>1, OlderAscends DEF MessagesInv, MessagesTypeOK
    <2> HIDE DEF msg
    <2> QED
      BY <1>1, <2>1, <2>2, <2>3, PutAscends DEF MessagesInv
  <1>5. toServer' \in Seq(ToServer) /\ Repeats(toServer', reached, player.issued)
    <2>1. Tail(toServer) \in Seq(ToServer) /\ Repeats(Tail(toServer), reached, player.issued)
      BY TailRepeats DEF MessagesInv, MessagesTypeOK
    <2> QED
      BY <2>1, OlderRepeats DEF SendGameState
  <1> QED
    BY <1>2, <1>3, <1>4, <1>5 DEF MessagesInv, MessagesTypeOK

------------------------------------------------------------------------------
(* The commands of a message *)

\* Of the commands of a message those are taken that are new, without a gap.
LEMMA TakenMeans ==
    ASSUME NEW c \in ClientRecord, NEW from \in Nat, NEW to \in Nat,
           1 <= from, from <= c.lastClientCommand + 1
    PROVE  /\ Taken(c, from, to) \in SUBSET (0..to)
           /\ \A n \in Taken(c, from, to) : n > c.lastClientCommand
           /\ Taken(c, from, to) # {} =>
                /\ Max(Taken(c, from, to)) \in (c.lastClientCommand + 1)..to
                /\ (c.lastClientCommand + 1)..Max(Taken(c, from, to)) = Taken(c, from, to)
  <1> DEFINE taken == Taken(c, from, to)
  <1>1. c.lastClientCommand \in Nat
    BY DEF ClientRecord
  <1>2. \A n \in taken : n \in from..to /\ n > c.lastClientCommand
    BY DEF Taken, New
  <1>3. taken \in SUBSET (0..to)
    BY <1>2
  <1>4. ASSUME taken # {}
        PROVE  /\ Max(taken) \in (c.lastClientCommand + 1)..to
               /\ (c.lastClientCommand + 1)..Max(taken) = taken
    <2>1. taken \in SUBSET Nat /\ \A n \in taken : n <= to
      BY <1>2
    <2> HIDE DEF taken
    <2>2. Max(taken) \in taken /\ \A n \in taken : n <= Max(taken)
      BY <1>4, <2>1, GreatestOf
    <2> DEFINE m == Max(taken)
    <2>3. m \in (c.lastClientCommand + 1)..to /\ m \in from..to
      BY <1>1, <1>2, <2>2
    <2>4. \A k \in from..(m - 1) : New(c, k) => KindOf[k] # "disconnect"
      BY <2>2 DEF taken, Taken
    <2> HIDE DEF m
    <2>5. ASSUME NEW n \in (c.lastClientCommand + 1)..m PROVE n \in taken
      <3>1. n \in from..to /\ New(c, n)
        BY <1>1, <2>3, <2>5 DEF New
      <3>2. \A k \in from..(n - 1) : k \in from..(m - 1)
        BY <1>1, <2>3, <2>5
      <3> QED
        BY <2>4, <3>1, <3>2 DEF taken, Taken
    <2>6. \A n \in taken : n \in (c.lastClientCommand + 1)..m
      BY <1>1, <1>2, <2>1, <2>2, <2>3 DEF m
    <2>7. (c.lastClientCommand + 1)..m = taken
      BY <2>5, <2>6
    <2> QED
      BY <2>3, <2>7 DEF m
  <1> QED
    BY <1>2, <1>3, <1>4

\* Running the commands of one packet, those not refused, in order.
LEMMA RanKeeps ==
    ASSUME NEW seq \in Seq(Nat), NEW reached \in Nat, NEW m \in Nat, reached < m,
           Ran(seq, reached), NEW S \in SUBSET ((reached + 1)..m),
           \A n \in (reached + 1)..m : Exempt(n) \/ Ucmd(n) => n \in S
    PROVE  seq \o InOrder(S) \in Seq(Nat) /\ Ran(seq \o InOrder(S), m)
  <1> DEFINE s == InOrder(S)
             both == seq \o s
  <1>1. s \in Seq(Nat) /\ Enumerates(s, S)
    <2>1. S \in SUBSET (0..m)
      OBVIOUS
    <2>2. s \in Seq(S) /\ Enumerates(s, S)
      BY <2>1, InOrderEnumerates
    <2> QED
      <3>1. S \subseteq Nat
        OBVIOUS
      <3> QED
        BY <2>2, <3>1, SeqMonotonic
  <1> HIDE DEF s
  <1>2. /\ both \in Seq(Nat) /\ Len(both) = Len(seq) + Len(s)
        /\ \A i \in 1..(Len(seq) + Len(s)) :
                both[i] = IF i <= Len(seq) THEN seq[i] ELSE s[i - Len(seq)]
        /\ Len(seq) \in Nat /\ Len(s) \in Nat
    BY <1>1, ConcatProperties
  <1>3. /\ DOMAIN both = 1..(Len(seq) + Len(s)) /\ DOMAIN seq = 1..Len(seq)
        /\ DOMAIN s = 1..Len(s)
    BY <1>1, <1>2
  <1> HIDE DEF both
  <1>4. /\ \A i \in DOMAIN seq : i \in DOMAIN both /\ both[i] = seq[i]
        /\ \A i \in DOMAIN s : i + Len(seq) \in DOMAIN both /\ both[i + Len(seq)] = s[i]
        /\ \A i \in DOMAIN both : i \in DOMAIN seq \/ i - Len(seq) \in DOMAIN s
    BY <1>2, <1>3
  <1>5. \A i \in DOMAIN s : s[i] \in S
    BY <1>1, <1>3 DEF Enumerates, ToSet
  <1>6. \A i \in DOMAIN both :
            \/ i <= Len(seq) /\ i \in DOMAIN seq /\ both[i] = seq[i] /\ both[i] <= reached
            \/ /\ i > Len(seq) /\ i - Len(seq) \in DOMAIN s /\ both[i] = s[i - Len(seq)]
               /\ both[i] \in (reached + 1)..m
    <2> SUFFICES ASSUME NEW i \in DOMAIN both
                 PROVE  \/ i <= Len(seq) /\ i \in DOMAIN seq /\ both[i] = seq[i]
                           /\ both[i] <= reached
                        \/ /\ i > Len(seq) /\ i - Len(seq) \in DOMAIN s
                           /\ both[i] = s[i - Len(seq)] /\ both[i] \in (reached + 1)..m
      OBVIOUS
    <2>1. CASE i <= Len(seq)
      <3>1. i \in DOMAIN seq /\ both[i] = seq[i]
        BY <1>2, <1>3, <2>1
      <3> QED
        BY <2>1, <3>1 DEF Ran
    <2>2. CASE i > Len(seq)
      <3>1. i - Len(seq) \in DOMAIN s /\ both[i] = s[i - Len(seq)]
        BY <1>2, <1>3, <2>2
      <3>2. both[i] \in S
        BY <1>5, <3>1
      <3> QED
        BY <2>2, <3>1, <3>2
    <2> QED
      BY <1>2, <1>3, <2>1, <2>2
  <1>7. \A a, b \in DOMAIN both : a < b => both[a] < both[b]
    <2> SUFFICES ASSUME NEW a \in DOMAIN both, NEW b \in DOMAIN both, a < b
                 PROVE  both[a] < both[b]
      OBVIOUS
    <2>1. both[a] \in Nat /\ both[b] \in Nat /\ a \in Nat /\ b \in Nat
      BY <1>2, <1>3
    <2>2. CASE b <= Len(seq)
      <3>1. a \in DOMAIN seq /\ b \in DOMAIN seq /\ both[a] = seq[a] /\ both[b] = seq[b]
        BY <1>2, <1>3, <1>4, <2>1, <2>2
      <3> QED
        BY <3>1 DEF Ran
    <2>3. CASE a <= Len(seq) /\ b > Len(seq)
      <3>1. both[a] <= reached
        BY <1>2, <1>6, <2>1, <2>3
      <3>2. both[b] \in (reached + 1)..m
        BY <1>2, <1>6, <2>1, <2>3
      <3> QED
        BY <2>1, <3>1, <3>2
    <2>4. CASE a > Len(seq)
      <3>1. /\ a - Len(seq) \in DOMAIN s /\ both[a] = s[a - Len(seq)]
            /\ b - Len(seq) \in DOMAIN s /\ both[b] = s[b - Len(seq)]
        BY <1>2, <1>6, <2>1, <2>4
      <3>2. a - Len(seq) < b - Len(seq)
        BY <1>2, <2>1
      <3> QED
        BY <1>1, <3>1, <3>2 DEF Enumerates
    <2> QED
      BY <1>2, <2>1, <2>2, <2>3, <2>4
  <1>8. \A a \in DOMAIN both : both[a] <= m
    BY <1>2, <1>3, <1>6
  <1>9. ASSUME NEW n \in 1..m, Exempt(n) \/ Ucmd(n) PROVE n \in ToSet(both)
    <2>1. CASE n <= reached
      <3>1. n \in ToSet(seq)
        BY <1>9, <2>1 DEF Ran
      <3> QED
        BY <1>4, <3>1 DEF ToSet
    <2>2. CASE n > reached
      <3>1. n \in ToSet(s)
        BY <1>1, <1>9, <2>2 DEF Enumerates
      <3> QED
        BY <1>4, <3>1 DEF ToSet
    <2> QED
      BY <2>1, <2>2
  <1> QED
    BY <1>2, <1>7, <1>8, <1>9 DEF Ran, both, s

\* What running commands does to the record of the client.
LEMMA AfterCommandsMeans ==
    ASSUME NEW c \in ClientRecord, NEW taken \in SUBSET Nat, taken # {} => Max(taken) \in Nat
    PROVE  /\ AfterCommands(c, taken) \in ClientRecord
           /\ AfterCommands(c, taken).lost = c.lost
           /\ AfterCommands(c, taken).lastClientCommand =
                IF taken = {} THEN c.lastClientCommand ELSE Max(taken)
  <1>1. CASE taken = {}
    BY <1>1 DEF AfterCommands
  <1>2. CASE taken # {}
    <2> DEFINE s == IF \E n \in taken : KindOf[n] = "disconnect" THEN CS_ZOMBIE ELSE c.state
               c1 == [c EXCEPT !.lastClientCommand = Max(taken)]
               c2 == [c1 EXCEPT !.state = s]
    <2>1. s \in CS_ZOMBIE..CS_ACTIVE
      BY DEF ClientRecord, CS_ZOMBIE, CS_ACTIVE
    <2>2. /\ c1 \in ClientRecord /\ c1.lost = c.lost /\ c1.lastClientCommand = Max(taken)
          /\ c1.state = c.state
      BY <1>2 DEF ClientRecord
    <2>3. AfterCommands(c, taken) = c2
      <3>1. AfterCommands(c, taken) = [c EXCEPT !.lastClientCommand = Max(taken), !.state = s]
        BY <1>2, Zenon DEF AfterCommands
      <3> QED
        BY <3>1, Zenon
    <2> HIDE DEF c1, s
    <2>4. c2 \in ClientRecord /\ c2.lost = c.lost /\ c2.lastClientCommand = Max(taken)
      BY <2>1, <2>2 DEF ClientRecord
    <2> QED
      BY <1>2, <2>3, <2>4, Zenon
  <1> QED
    BY <1>1, <1>2

\* A change of its state.
LEMMA StateMeans ==
    ASSUME NEW c \in ClientRecord, NEW s \in CS_ZOMBIE..CS_ACTIVE
    PROVE  /\ [c EXCEPT !.state = s] \in ClientRecord
           /\ [c EXCEPT !.state = s].lastClientCommand = c.lastClientCommand
           /\ [c EXCEPT !.state = s].lost = c.lost
  BY DEF ClientRecord

\* A move, which may bring the client into the game.
LEMMA AfterMoveMeans ==
    ASSUME NEW c \in ClientRecord, NEW msg
    PROVE  /\ AfterMove(c, msg) \in ClientRecord /\ AfterMove(c, msg).lost = c.lost
           /\ AfterMove(c, msg).lastClientCommand = c.lastClientCommand
  <1>1. CS_ACTIVE \in CS_ZOMBIE..CS_ACTIVE
    BY DEF CS_ZOMBIE, CS_ACTIVE
  <1> QED
    BY <1>1, StateMeans DEF AfterMove

\* A snapshot confirms the last command.
LEMMA SnapshotMeans ==
    ASSUME NEW c \in ClientRecord, serverId \in ServerIds
    PROVE  Snapshot(c) \in ToClient /\ Snapshot(c).last = c.lastClientCommand
  BY DEF Snapshot, ToClient, Rank, ClientRecord

\* A message that is executed: its commands, and the move.
LEMMA RunMessageKeeps ==
    ASSUME MessagesInv, toServer # <<>>, NEW c \in ClientRecord,
           c.lastClientCommand = cl.lastClientCommand, c.lost = cl.lost,
           RunMessage(c, Head(toServer)), UNCHANGED serverId
    PROVE  MessagesInv'
  <1> DEFINE msg == Head(toServer)
             taken == Taken(c, msg.from, msg.to)
             done == AfterCommands(c, taken)
             before == cl.lastClientCommand
             reached == IF taken = {} THEN before ELSE Max(taken)
  <1>1. before \in Nat /\ player.confirmed \in Nat /\ player.issued \in Nat
    BY DEF MessagesInv, MessagesTypeOK, ClientRecord, PlayerRecord
  <1>2. /\ msg \in ToServer /\ Tail(toServer) \in Seq(ToServer)
        /\ 1 <= msg.from /\ msg.from <= before + 1 /\ msg.to <= player.issued
        /\ Repeats(Tail(toServer), before, player.issued)
    BY TailRepeats DEF MessagesInv, MessagesTypeOK
  <1>3. msg.from \in Nat /\ msg.to \in Nat
    BY <1>2 DEF ToServer
  <1> HIDE DEF msg
  <1>4. /\ taken \in SUBSET (0..msg.to)
        /\ \A n \in taken : n > before
        /\ taken # {} => /\ Max(taken) \in (before + 1)..msg.to
                         /\ (before + 1)..Max(taken) = taken
    BY <1>2, <1>3, TakenMeans
  <1> HIDE DEF taken
  <1>5. reached \in Nat /\ before <= reached /\ reached <= player.issued
    BY <1>1, <1>2, <1>3, <1>4 DEF MessagesInv
  <1>6. done \in ClientRecord /\ done.lost = cl.lost /\ done.lastClientCommand = reached
    <2>1. taken \in SUBSET Nat /\ (taken # {} => Max(taken) \in Nat)
      BY <1>1, <1>3, <1>4
    <2> QED
      BY <2>1, AfterCommandsMeans
  <1> HIDE DEF done, reached
  <1>7. PICK refused \in SUBSET {n \in taken : MayRefuse(c, n)} :
            /\ ran' = ran \o RanBy(taken, refused)
            /\ toServer' = Tail(toServer)
            /\ \/ cl' = done /\ UNCHANGED toClient
               \/ /\ cl' = AfterMove(AfterImpure(done), msg)
                  /\ toClient' = Put(toClient, Snapshot([done EXCEPT !.state = CS_ACTIVE]))
               \/ cl' = AfterMove(done, msg) /\ UNCHANGED toClient
            /\ UNCHANGED player
    BY Zenon DEF RunMessage, done, taken, msg
  <1>8. cl' \in ClientRecord /\ cl'.lost = cl.lost /\ cl'.lastClientCommand = reached
    <2>1. /\ AfterImpure(done) \in ClientRecord /\ AfterImpure(done).lost = cl.lost
          /\ AfterImpure(done).lastClientCommand = reached
      <3>1. CS_ZOMBIE \in CS_ZOMBIE..CS_ACTIVE
        BY DEF CS_ZOMBIE, CS_ACTIVE
      <3> QED
        BY <1>6, <3>1, StateMeans DEF AfterImpure
    <2> QED
      BY <1>6, <1>7, <2>1, AfterMoveMeans
  <1>9. toClient' \in Seq(ToClient) /\ Ascends(toClient', player.confirmed, reached)
    <2>1. Ascends(toClient, player.confirmed, reached)
      BY <1>1, <1>5, AscendsHigher DEF MessagesInv, MessagesTypeOK
    <2>2. player.confirmed <= reached
      BY <1>1, <1>5 DEF MessagesInv
    <2>3. /\ Snapshot([done EXCEPT !.state = CS_ACTIVE]) \in ToClient
          /\ Snapshot([done EXCEPT !.state = CS_ACTIVE]).last = reached
      <3>1. CS_ACTIVE \in CS_ZOMBIE..CS_ACTIVE
        BY DEF CS_ZOMBIE, CS_ACTIVE
      <3>2. /\ [done EXCEPT !.state = CS_ACTIVE] \in ClientRecord
            /\ [done EXCEPT !.state = CS_ACTIVE].lastClientCommand = reached
        BY <1>6, <3>1, StateMeans
      <3> QED
        BY <3>2, SnapshotMeans DEF MessagesInv, MessagesTypeOK
    <2>4. toClient \in Seq(ToClient)
      BY DEF MessagesInv, MessagesTypeOK
    <2>5. CASE UNCHANGED toClient
      BY <2>1, <2>4, <2>5
    <2>6. CASE toClient' = Put(toClient, Snapshot([done EXCEPT !.state = CS_ACTIVE]))
      BY <1>1, <1>5, <2>1, <2>2, <2>3, <2>4, <2>6, PutAscends
    <2> QED
      BY <1>7, <2>5, <2>6, Zenon
  <1>10. toServer' \in Seq(ToServer) /\ Repeats(toServer', reached, player.issued)
    <2>1. player.issued <= player.issued
      BY <1>1
    <2>2. Repeats(Tail(toServer), reached, player.issued)
      BY <1>1, <1>2, <1>5, <2>1, RepeatsLonger
    <2> QED
      BY <1>2, <1>7, <2>2, Zenon
  <1>11. ran' \in Seq(Nat) /\ Ran(ran', reached)
    <2> DEFINE S == {n \in taken : Runs(n, n \in refused)}
    <2>1. ran' = ran \o InOrder(S)
      BY <1>7, Zenon DEF RanBy
    <2>2. ASSUME NEW n \in taken, Exempt(n) \/ Ucmd(n) PROVE n \in S
      <3>1. CASE Ucmd(n)
        BY <3>1 DEF Runs
      <3>2. CASE Exempt(n)
        BY <1>7, <3>2 DEF Runs, MayRefuse, Exempt, Skipped
      <3> QED
        BY <2>2, <3>1, <3>2
    <2>3. ran \in Seq(Nat) /\ Ran(ran, before)
      BY DEF MessagesInv, MessagesTypeOK
    <2> HIDE DEF S
    <2>4. CASE taken = {}
      <3>1. S \in SUBSET (0..0) /\ S = {}
        BY <2>4 DEF S
      <3>2. InOrder(S) \in Seq(S) /\ Enumerates(InOrder(S), S)
        BY <3>1, InOrderEnumerates
      <3>3. InOrder(S) = <<>>
        BY <3>1, <3>2 DEF Enumerates, ToSet
      <3> QED
        BY <2>1, <2>3, <2>4, <3>3, ConcatEmptySeq DEF reached
    <2>5. CASE taken # {}
      <3>1. reached = Max(taken) /\ before < reached /\ S \in SUBSET ((before + 1)..reached)
        BY <1>1, <1>4, <2>5 DEF reached, S
      <3>2. \A n \in (before + 1)..reached : Exempt(n) \/ Ucmd(n) => n \in S
        BY <1>4, <2>2, <2>5, <3>1
      <3> QED
        BY <1>1, <1>5, <2>1, <2>3, <3>1, <3>2, RanKeeps
    <2> QED
      BY <2>4, <2>5
  <1>12. player.confirmed <= reached
    BY <1>1, <1>5 DEF MessagesInv
  <1> QED
    BY <1>5, <1>7, <1>8, <1>9, <1>10, <1>11, <1>12 DEF MessagesInv, MessagesTypeOK

\* A message that is ignored.
LEMMA IgnoreKeeps ==
    ASSUME MessagesInv, toServer # <<>>, NEW c \in ClientRecord,
           c.lastClientCommand = cl.lastClientCommand, c.lost = cl.lost,
           Ignore(c), UNCHANGED <<serverId, ran>>
    PROVE  MessagesInv'
  <1>1. /\ Tail(toServer) \in Seq(ToServer)
        /\ Repeats(Tail(toServer), cl.lastClientCommand, player.issued)
    BY TailRepeats DEF MessagesInv, MessagesTypeOK
  <1> QED
    BY <1>1 DEF Ignore, MessagesInv, MessagesTypeOK

\* Whatever the server does with a message.
LEMMA ExecuteKeeps ==
    ASSUME MessagesInv, ExecuteClientMessage
    PROVE  MessagesInv'
  <1> DEFINE msg == Head(toServer)
             c == [cl EXCEPT !.ackRank = msg.rank]
  <1>1. toServer # <<>> /\ UNCHANGED serverId
    BY DEF ExecuteClientMessage
  <1>2. msg \in ToServer /\ msg.from <= cl.lastClientCommand + 1
    BY <1>1, TailRepeats DEF MessagesInv, MessagesTypeOK
  <1>3. /\ c \in ClientRecord /\ c.lastClientCommand = cl.lastClientCommand
        /\ c.lost = cl.lost
    <2>1. msg.rank \in Rank
      BY <1>2 DEF ToServer
    <2> HIDE DEF msg
    <2> QED
      BY <2>1 DEF MessagesInv, MessagesTypeOK, ClientRecord
  <1>4. ~Lost(c, msg)
    <2>1. msg.from \in Nat /\ cl.lastClientCommand \in Nat
      BY <1>2 DEF ToServer, MessagesInv, MessagesTypeOK, ClientRecord
    <2> HIDE DEF msg, c
    <2> QED
      BY <1>2, <1>3, <2>1 DEF Lost
  <1>5. \/ RunMessage(c, msg)
        \/ SendGameState(c) /\ UNCHANGED ran
        \/ Ignore(c) /\ UNCHANGED ran
    BY <1>4, Zenon DEF ExecuteClientMessage
  <1> HIDE DEF c
  <1>6. CASE RunMessage(c, msg)
    BY <1>1, <1>3, <1>6, RunMessageKeeps
  <1>7. CASE SendGameState(c) /\ UNCHANGED ran
    BY <1>1, <1>3, <1>7, SendGameStateKeeps
  <1>8. CASE Ignore(c) /\ UNCHANGED ran
    BY <1>1, <1>3, <1>8, IgnoreKeeps
  <1> QED
    BY <1>5, <1>6, <1>7, <1>8

\* Another state of the client, and no message.
LEMMA OtherClientKeeps ==
    ASSUME MessagesInv, cl' \in ClientRecord, cl'.lost = cl.lost,
           cl'.lastClientCommand = cl.lastClientCommand, serverId' \in ServerIds,
           player' \in PlayerRecord, player'.confirmed = player.confirmed,
           player'.issued = player.issued, UNCHANGED <<toServer, toClient, ran>>
    PROVE  MessagesInv'
  BY DEF MessagesInv, MessagesTypeOK

\* What the server does of its own accord.
LEMMA ServerStepsKeep ==
    ASSUME MessagesInv, ChangeMap \/ RestartMap \/ VerifyPaks \/ StartDownload \/ EndDownload
    PROVE  MessagesInv'
  <1>1. cl \in ClientRecord /\ player \in PlayerRecord /\ serverId \in ServerIds
    BY DEF MessagesInv, MessagesTypeOK
  <1>2. CS_CONNECTED \in CS_ZOMBIE..CS_ACTIVE
    BY DEF CS_ZOMBIE, CS_CONNECTED, CS_ACTIVE
  <1>3. CASE ChangeMap
    <2>1. serverId' \in ServerIds
      BY <1>1, <1>3, MessageAssumption DEF ChangeMap, ServerIds
    <2>2. cl' \in {cl, [cl EXCEPT !.state = CS_CONNECTED]}
          /\ UNCHANGED <<player, toServer, toClient, ran>>
      BY <1>3, Zenon DEF ChangeMap
    <2> QED
      BY <1>1, <1>2, <2>1, <2>2, StateMeans, OtherClientKeeps
  <1>4. CASE RestartMap
    <2>1. serverId' \in ServerIds
      BY <1>1, <1>4, MessageAssumption DEF RestartMap, ServerIds
    <2> QED
      BY <1>1, <1>4, <2>1, OtherClientKeeps DEF RestartMap
  <1>5. CASE VerifyPaks
    <2>1. PICK v \in {1, 2} : cl' = [cl EXCEPT !.pureAuthentic = v]
      BY <1>5, Zenon DEF VerifyPaks
    <2>2. /\ cl' \in ClientRecord /\ cl'.lost = cl.lost
          /\ cl'.lastClientCommand = cl.lastClientCommand
      BY <1>1, <2>1 DEF ClientRecord
    <2> QED
      BY <1>1, <1>5, <2>2, OtherClientKeeps DEF VerifyPaks
  <1>6. CASE StartDownload
    <2> DEFINE c1 == [cl EXCEPT !.state = CS_CONNECTED]
               c2 == [c1 EXCEPT !.downloading = TRUE]
    <2>1. cl' = c2 /\ player' = [player EXCEPT !.loaded = FALSE]
          /\ UNCHANGED <<serverId, toServer, toClient, ran>>
      BY <1>6, Zenon DEF StartDownload
    <2>2. /\ c1 \in ClientRecord /\ c1.lost = cl.lost
          /\ c1.lastClientCommand = cl.lastClientCommand
      BY <1>1, <1>2, StateMeans
    <2> HIDE DEF c1
    <2>3. /\ c2 \in ClientRecord /\ c2.lost = cl.lost
          /\ c2.lastClientCommand = cl.lastClientCommand
      BY <2>2 DEF ClientRecord
    <2> HIDE DEF c2
    <2>4. /\ player' \in PlayerRecord /\ player'.confirmed = player.confirmed
          /\ player'.issued = player.issued
      BY <1>1, <2>1 DEF PlayerRecord
    <2> QED
      BY <1>1, <2>1, <2>3, <2>4, OtherClientKeeps
  <1>7. CASE EndDownload
    <2> DEFINE c1 == [cl EXCEPT !.downloading = FALSE]
               c2 == [c1 EXCEPT !.downloaded = TRUE]
    <2>1. toServer # <<>> /\ SendGameState(c2) /\ UNCHANGED <<serverId, ran>>
      BY <1>7, Zenon DEF EndDownload
    <2>2. /\ c1 \in ClientRecord /\ c1.lost = cl.lost
          /\ c1.lastClientCommand = cl.lastClientCommand
      BY <1>1 DEF ClientRecord
    <2> HIDE DEF c1
    <2>3. /\ c2 \in ClientRecord /\ c2.lost = cl.lost
          /\ c2.lastClientCommand = cl.lastClientCommand
      BY <2>2 DEF ClientRecord
    <2> HIDE DEF c2
    <2> QED
      BY <2>1, <2>3, SendGameStateKeeps
  <1> QED
    BY <1>3, <1>4, <1>5, <1>6, <1>7

\* What the client does, the snapshots, and the losses of the links.
LEMMA ClientStepsKeep ==
    ASSUME MessagesInv, SendSnapshot \/ IssueCommand \/ SendPacket \/ Receive
                        \/ LoseToServer \/ LoseToClient
    PROVE  MessagesInv'
  <1>1. /\ cl \in ClientRecord /\ player \in PlayerRecord /\ serverId \in ServerIds
        /\ toServer \in Seq(ToServer) /\ toClient \in Seq(ToClient)
        /\ Ascends(toClient, player.confirmed, cl.lastClientCommand)
        /\ Repeats(toServer, cl.lastClientCommand, player.issued)
    BY DEF MessagesInv, MessagesTypeOK
  <1>2. /\ cl.lastClientCommand \in Nat /\ player.confirmed \in Nat /\ player.issued \in Nat
        /\ player.confirmed <= cl.lastClientCommand /\ cl.lastClientCommand <= player.issued
    BY <1>1 DEF ClientRecord, PlayerRecord, MessagesInv
  <1>3. CASE SendSnapshot
    <2>1. Snapshot(cl) \in ToClient /\ Snapshot(cl).last = cl.lastClientCommand
      BY <1>1, SnapshotMeans
    <2>2. /\ Append(toClient, Snapshot(cl)) \in Seq(ToClient)
          /\ Ascends(Append(toClient, Snapshot(cl)), player.confirmed, cl.lastClientCommand)
      BY <1>1, <1>2, <2>1, AppendAscends
    <2> QED
      BY <1>3, <2>2 DEF SendSnapshot, MessagesInv, MessagesTypeOK
  <1>4. CASE IssueCommand
    <2>1. /\ player' \in PlayerRecord /\ player'.confirmed = player.confirmed
          /\ player'.issued = player.issued + 1 /\ player'.issued <= Len(KindOf)
      BY <1>1, <1>2, <1>4, KindOfAll DEF IssueCommand, PlayerRecord
    <2>2. Repeats(toServer, cl.lastClientCommand, player.issued + 1)
      BY <1>1, <1>2, RepeatsLonger
    <2>3. cl.lastClientCommand <= player.issued + 1
      BY <1>2
    <2> QED
      BY <1>4, <2>1, <2>2, <2>3 DEF IssueCommand, MessagesInv, MessagesTypeOK
  <1>5. CASE SendPacket
    <2> DEFINE msg == [serverId |-> player.serverId, rank |-> player.rank,
                       from |-> player.confirmed + 1, to |-> player.issued,
                       move |-> player.loaded]
    <2>1. msg \in ToServer /\ msg.from = player.confirmed + 1 /\ msg.to = player.issued
      BY <1>1, <1>2 DEF ToServer, PlayerRecord
    <2>2. toServer' = Append(toServer, msg) /\ UNCHANGED <<serverId, cl, player, toClient, ran>>
      BY <1>5, Zenon DEF SendPacket
    <2> HIDE DEF msg
    <2>3. toServer' \in Seq(ToServer) /\ Repeats(toServer', cl.lastClientCommand, player.issued)
      <3>1. /\ toServer' \in Seq(ToServer)
            /\ DOMAIN toServer = 1..Len(toServer) /\ DOMAIN toServer' = 1..(Len(toServer) + 1)
            /\ \A k \in 1..Len(toServer) : toServer'[k] = toServer[k]
            /\ toServer'[Len(toServer) + 1] = msg /\ Len(toServer) \in Nat
        BY <1>1, <2>1, <2>2
      <3>2. \A k \in DOMAIN toServer' : k \in DOMAIN toServer \/ k = Len(toServer) + 1
        BY <3>1
      <3>3. /\ 1 <= msg.from /\ msg.from <= cl.lastClientCommand + 1
            /\ msg.to <= player.issued
        BY <1>2, <2>1
      <3> QED
        BY <1>1, <3>1, <3>2, <3>3 DEF Repeats
    <2> QED
      BY <2>2, <2>3 DEF MessagesInv, MessagesTypeOK
  <1>6. CASE Receive
    <2> DEFINE msg == Head(toClient)
               p1 == [player EXCEPT !.rank = msg.rank]
               p2 == [p1 EXCEPT !.confirmed = msg.last]
               p3 == [p2 EXCEPT !.loaded = p2.loaded \/ msg.type = "gamestate"]
               p4 == [p3 EXCEPT !.serverId =
                        IF msg.type = "message" THEN p3.serverId ELSE msg.serverId]
    <2>1. /\ toClient # <<>> /\ toClient' = Tail(toClient)
          /\ UNCHANGED <<serverId, cl, toServer, ran>>
      BY <1>6 DEF Receive
    <2>2. player' = p4
      BY <1>6, Zenon DEF Receive
    <2>3. /\ msg \in ToClient /\ toClient' \in Seq(ToClient)
          /\ msg.last <= cl.lastClientCommand
          /\ Ascends(toClient', msg.last, cl.lastClientCommand)
      BY <1>1, <1>2, <2>1, TailAscends
    <2> HIDE DEF msg
    <2>4. msg.rank \in Rank /\ msg.last \in Nat /\ msg.serverId \in ServerIds
      BY <2>3 DEF ToClient
    <2>5. p1 \in PlayerRecord /\ p1.issued = player.issued
      BY <1>1, <2>4 DEF PlayerRecord
    <2> HIDE DEF p1
    <2>6. p2 \in PlayerRecord /\ p2.issued = player.issued /\ p2.confirmed = msg.last
      BY <2>4, <2>5 DEF PlayerRecord
    <2> HIDE DEF p2
    <2>7. p3 \in PlayerRecord /\ p3.issued = player.issued /\ p3.confirmed = msg.last
      <3>1. (p2.loaded \/ msg.type = "gamestate") \in BOOLEAN
        OBVIOUS
      <3> QED
        BY <2>6, <3>1 DEF PlayerRecord
    <2> HIDE DEF p3
    <2>8. p4 \in PlayerRecord /\ p4.issued = player.issued /\ p4.confirmed = msg.last
      BY <2>4, <2>7 DEF PlayerRecord
    <2> HIDE DEF p4
    <2> QED
      BY <2>1, <2>2, <2>3, <2>8 DEF MessagesInv, MessagesTypeOK
  <1>7. CASE LoseToServer
    <2>1. toServer # <<>> /\ toServer' = Tail(toServer)
          /\ UNCHANGED <<serverId, cl, player, toClient, ran>>
      BY <1>7 DEF LoseToServer
    <2>2. /\ Tail(toServer) \in Seq(ToServer)
          /\ Repeats(Tail(toServer), cl.lastClientCommand, player.issued)
      BY <1>1, <2>1, TailRepeats
    <2> QED
      BY <2>1, <2>2 DEF MessagesInv, MessagesTypeOK
  <1>8. CASE LoseToClient
    <2>1. toClient # <<>> /\ toClient' = Tail(toClient)
          /\ UNCHANGED <<serverId, cl, player, toServer, ran>>
      BY <1>8 DEF LoseToClient
    <2>2. /\ Tail(toClient) \in Seq(ToClient)
          /\ Ascends(Tail(toClient), player.confirmed, cl.lastClientCommand)
      BY <1>1, <1>2, <2>1, TailAscends
    <2> QED
      BY <2>1, <2>2 DEF MessagesInv, MessagesTypeOK
  <1> QED
    BY <1>3, <1>4, <1>5, <1>6, <1>7, <1>8

\* Every step keeps the invariant.
LEMMA MessagesNext == MessagesInv /\ [Next]_vars => MessagesInv'
  <1>1. MessagesInv /\ UNCHANGED vars => MessagesInv'
    BY DEF vars, MessagesInv, MessagesTypeOK, Ascends, Repeats, Ran
  <1> QED
    BY <1>1, ExecuteKeeps, ServerStepsKeep, ClientStepsKeep DEF Next

\* The invariant always holds.
LEMMA MessagesSafe == Spec => []MessagesInv
  BY MessagesInit, MessagesNext, PTL DEF Spec

\* SV_ClientCommand never takes a client that repeats its commands for one that
\* has lost some, whatever packets get lost, however maps change and restart.
THEOREM CommandsNotLost == Spec => []NeverLost
  <1>1. MessagesInv => NeverLost
    BY DEF MessagesInv, NeverLost
  <1> QED
    BY <1>1, MessagesSafe, PTL

\* Every command runs at most once and in its turn, and none that is exempt from
\* the flood test or is a ucmd is counted without having run.
THEOREM CommandsRunOnce == Spec => []RunsOnceInOrder
  <1>1. MessagesInv => RunsOnceInOrder
    BY DEF MessagesInv, Ran, RunsOnceInOrder
  <1> QED
    BY <1>1, MessagesSafe, PTL
=============================================================================
