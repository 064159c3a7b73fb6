----------------------- MODULE SnapshotScheduleProofs -----------------------
(***************************************************************************)
(* Theorems about SnapshotSchedule, for every length of a second, size of  *)
(* messages and packets, rate and frame time.                              *)
(***************************************************************************)
EXTENDS SnapshotSchedule, TLAPS

------------------------------------------------------------------------------
(* Types *)

Client == [state : {CS_FREE, CS_ZOMBIE, CS_CONNECTED, CS_ACTIVE},
           rate : MinRate..MaxRate, snapshotMsec : 0..Second, wait : Int,
           rateDelayed : BOOLEAN, unsent : Nat, downloadName : BOOLEAN,
           download : BOOLEAN, dropReason : BOOLEAN]

Pace == [lead : Nat, rate : MinRate..MaxRate, slowAge : 0..Second, burst : Nat]

\* Who has left does not download.
Gone(c) == c.state \in {CS_ZOMBIE, CS_FREE}

Sound(c) ==
    /\ c \in Client
    /\ c.download => c.downloadName
    /\ Gone(c) => ~c.downloadName

TypeInv ==
    /\ Sound(cl) /\ cl.wait >= -1
    /\ pace \in Pace
    /\ sv_maxRate \in Int /\ sv_fastDownload \in BOOLEAN /\ isLocal \in BOOLEAN
    /\ frame \in BOOLEAN

\* What the pacing rests on: the wait covers what is ahead of the rate, and the
\* rest of the second in which a loading client has had its message; only who
\* has left has had a burst.
PaceInv ==
    /\ pace.lead <= FRAGMENT_SIZE * Second
    /\ pace.lead > 0 => cl.wait > 0 /\ pace.lead <= pace.rate * cl.wait
    /\ pace.slowAge < Second => cl.wait >= Second - pace.slowAge
    /\ pace.burst > 0 => Gone(cl)

------------------------------------------------------------------------------
(* Arithmetic *)

\* A quotient rounded down, multiplied back, misses less than the divisor.
LEMMA Quotient ==
    ASSUME NEW x \in Nat, NEW r \in Nat \ {0}
    PROVE  /\ x \div r \in Nat /\ x \div r <= x
           /\ r * (x \div r) > x - r
  BY Z3

\* Rates and intervals between snapshots stay in their ranges, whatever a
\* player asks for.
LEMMA UserinfoType ==
    ASSUME NEW rate \in AskedRate \cup {Unset}, NEW snaps \in AskedSnaps \cup {Unset}
    PROVE  Rate(rate) \in MinRate..MaxRate /\ SnapshotMsec(snaps) \in 0..Second
  <1>1. Rate(rate) \in MinRate..MaxRate
    BY ScheduleAssumption DEF Rate, Clamp, Least, Greatest, Unset
  <1>2. CASE snaps = Unset
    BY <1>1, <1>2, ScheduleAssumption DEF SnapshotMsec
  <1>3. CASE snaps # Unset
    <2>1. Clamp(1, snaps, MaxSnaps) \in Nat \ {0}
      BY <1>3, ScheduleAssumption DEF Clamp, Least, Greatest
    <2>2. Second \in Nat
      BY ScheduleAssumption
    <2>3. /\ Second \div Clamp(1, snaps, MaxSnaps) \in Nat
          /\ Second \div Clamp(1, snaps, MaxSnaps) <= Second
      BY <2>1, <2>2, Quotient
    <2>4. SnapshotMsec(snaps) = Second \div Clamp(1, snaps, MaxSnaps)
      BY <1>3 DEF SnapshotMsec
    <2>5. QED
      BY <1>1, <2>2, <2>3, <2>4
  <1>4. QED
    BY <1>2, <1>3

\* Whatever sv_maxRate is, the rate that is used is one a client can have.
LEMMA EffectiveRateType ==
    ASSUME NEW c \in Client, sv_maxRate \in Int
    PROVE  EffectiveRate(c) \in MinRate..MaxRate
  BY ScheduleAssumption DEF EffectiveRate, Client, Least, Greatest

\* What goes out at once is at most a packet, and no more than there is.
LEMMA PieceType ==
    ASSUME NEW size \in Nat
    PROVE  /\ Piece(size) \in Nat /\ Piece(size) <= FRAGMENT_SIZE
           /\ size - Piece(size) \in Nat
  BY ScheduleAssumption DEF Piece, Least

\* The time a message takes at the client's rate is enough to pay for its first
\* piece, if the header makes up for the rounding.
LEMMA RateMsecPays ==
    ASSUME NEW c \in Client, sv_maxRate \in Int, NEW size \in Nat
    PROVE  /\ RateMsec(c, size) \in Nat
           /\ EffectiveRate(c) <= HEADER_RATE_BYTES * Second
                => Piece(size) * Second <= EffectiveRate(c) * RateMsec(c, size)
  <1> DEFINE r == EffectiveRate(c)
             counted == Least(size, MaxCounted)
             x == (counted + HEADER_RATE_BYTES) * Second
  <1>1. r \in Nat \ {0}
    BY EffectiveRateType, ScheduleAssumption
  <1>2. counted \in Nat /\ Piece(size) \in Nat /\ Piece(size) <= counted
    BY ScheduleAssumption DEF Least, Piece
  <1>3. HEADER_RATE_BYTES \in Nat /\ Second \in Nat \ {0}
    BY ScheduleAssumption
  <1>4. RateMsec(c, size) = x \div r
    BY DEF RateMsec
  <1> HIDE DEF r, counted
  <1>5. x \in Nat /\ x = counted * Second + HEADER_RATE_BYTES * Second
    BY <1>2, <1>3, Z3
  <1>6. Piece(size) * Second <= counted * Second
    BY <1>2, <1>3, Z3
  <1> HIDE DEF x
  <1>7. x \div r \in Nat /\ r * (x \div r) > x - r
    BY <1>1, <1>5, Quotient
  <1>8. /\ Piece(size) * Second \in Nat /\ counted * Second \in Nat
        /\ HEADER_RATE_BYTES * Second \in Nat /\ r * (x \div r) \in Nat
    BY <1>1, <1>2, <1>3, <1>7, Z3
  <1>9. ASSUME r <= HEADER_RATE_BYTES * Second
        PROVE  Piece(size) * Second <= r * (x \div r)
    BY <1>1, <1>5, <1>6, <1>7, <1>8, <1>9
  <1>10. QED
    BY <1>4, <1>7, <1>9 DEF r

------------------------------------------------------------------------------
(* Messages *)

\* A client stays a client when it is dropped or is writing a download, and who
\* has left stays out.
LEMMA DropType ==
    ASSUME NEW c, Sound(c), NEW opens \in BOOLEAN
    PROVE  /\ Sound(AfterDrop(c)) /\ Sound(Downloading(c, opens))
           /\ Gone(c) => Gone(AfterDrop(c)) /\ Downloading(c, opens) = c
           /\ AfterDrop(c).state # c.state => AfterDrop(c).state = CS_ZOMBIE
  <1>1. Sound(AfterDrop(c)) /\ (Gone(c) => Gone(AfterDrop(c)))
    BY DEF AfterDrop, Sound, Gone, Client, CS_ZOMBIE, CS_FREE, CS_CONNECTED, CS_ACTIVE
  <1>2. DownloadRate \in MinRate..MaxRate /\ DefaultMsec \in 0..Second
    BY ScheduleAssumption
  <1>3. Sound(Downloading(c, opens))
    <2>1. CASE ~c.downloadName
      BY <2>1 DEF Downloading
    <2>2. CASE c.downloadName
      <3> DEFINE d == Downloading(c, opens)
                 more == c.download \/ opens
      <3>1. d = [c EXCEPT !.state = CS_CONNECTED, !.rate = DownloadRate,
                          !.snapshotMsec = DefaultMsec, !.download = more,
                          !.downloadName = more]
        BY <2>2 DEF Downloading
      <3>2. more \in BOOLEAN /\ c \in Client
        BY Zenon DEF Sound
      <3> HIDE DEF d, more
      <3>3. d \in Client /\ d.download = more /\ d.downloadName = more
        BY <1>2, <3>1, <3>2 DEF Client
      <3>4. d.state = CS_CONNECTED
        BY <3>1, <3>2 DEF Client
      <3>5. ~Gone(d)
        BY <3>4 DEF Gone, CS_ZOMBIE, CS_FREE, CS_CONNECTED
      <3>6. Sound(d)
        BY <3>3, <3>5 DEF Sound
      <3> QED
        BY <3>6, Zenon DEF d
    <2> QED
      BY <2>1, <2>2
  <1>4. Gone(c) => Downloading(c, opens) = c
    BY DEF Sound, Downloading
  <1>5. AfterDrop(c).state # c.state => AfterDrop(c).state = CS_ZOMBIE
    BY DEF AfterDrop, Sound, Client
  <1> QED
    BY <1>1, <1>3, <1>4, <1>5

\* After a message the client waits as long as the message takes at its rate,
\* and a second if it is loading, unless it is exempt from the limits.
LEMMA MessageWaits ==
    ASSUME NEW c, Sound(c), NEW size \in Nat,
           sv_maxRate \in Int, isLocal \in BOOLEAN, sv_fastDownload \in BOOLEAN
    PROVE  LET d == AfterMessage(c, size)
           IN  /\ Sound(d) /\ d.wait >= -1
               /\ d.state = AfterDrop(c).state
               /\ Exempt(d) = Exempt(AfterDrop(c))
               /\ ~Exempt(d) => d.wait >= RateMsec(d, size) /\ d.wait >= 0
               /\ ~Exempt(d) /\ d.state # CS_ACTIVE /\ ~d.downloadName
                    => d.wait >= Second
  <1> DEFINE e == AfterDrop(c)
             d == AfterMessage(c, size)
  <1>1. e \in Client /\ Sound(e)
    BY DropType, Zenon DEF Sound
  <1>2. RateMsec(e, size) \in Nat /\ size - Piece(size) \in Nat
    BY <1>1, RateMsecPays, PieceType
  <1> DEFINE wait == IF Exempt(e) THEN -1 ELSE NextWait(e, size)
             delayed == IF Exempt(e) THEN e.rateDelayed
                        ELSE RateMsec(e, size) >= e.snapshotMsec
  <1>3. d = [e EXCEPT !.unsent = size - Piece(size), !.wait = wait,
                      !.rateDelayed = delayed]
    BY DEF AfterMessage
  <1> HIDE DEF e, d
  <1>4. /\ NextWait(e, size) \in Nat
        /\ NextWait(e, size) >= RateMsec(e, size)
        /\ e.state # CS_ACTIVE /\ ~e.downloadName => NextWait(e, size) >= Second
    <2>1. e.snapshotMsec \in Nat /\ Second \in Nat
      BY <1>1, ScheduleAssumption DEF Client
    <2>2. QED
      BY <1>2, <2>1 DEF NextWait, Slow, Greatest
  <1>5. wait \in Int /\ delayed \in BOOLEAN
    <2>1. wait \in Int
      BY <1>4
    <2>2. e.rateDelayed \in BOOLEAN
      BY <1>1 DEF Client
    <2>3. (RateMsec(e, size) >= e.snapshotMsec) \in BOOLEAN
      OBVIOUS
    <2>4. delayed \in BOOLEAN
      BY <2>2, <2>3, Zenon
    <2>5. QED
      BY <2>1, <2>4
  <1>6. d \in Client
    <2> HIDE DEF wait, delayed
    <2>1. QED
      BY <1>1, <1>2, <1>3, <1>5 DEF Client
  <1>7. /\ d.wait = wait
        /\ d.rate = e.rate /\ d.state = e.state
        /\ d.download = e.download /\ d.downloadName = e.downloadName
    BY <1>1, <1>3 DEF Client
  <1>8. Exempt(d) = Exempt(e) /\ RateMsec(d, size) = RateMsec(e, size)
    BY <1>7 DEF Exempt, RateMsec, EffectiveRate
  <1>9. d.wait >= -1 /\ (~Exempt(d) => d.wait >= RateMsec(d, size) /\ d.wait >= 0)
    BY <1>2, <1>4, <1>7, <1>8
  <1>10. ~Exempt(d) /\ d.state # CS_ACTIVE /\ ~d.downloadName => d.wait >= Second
    BY <1>4, <1>7, <1>8
  <1>11. Sound(d)
    BY <1>1, <1>6, <1>7 DEF Sound, Gone
  <1> HIDE DEF Exempt, RateMsec
  <1>12. QED
    BY <1>7, <1>8, <1>9, <1>10, <1>11 DEF d, e

\* Sending a message that is due keeps the types and the pacing.
LEMMA SendMessageKeeps ==
    ASSUME TypeInv, PaceInv, NEW c, Sound(c), pace.lead = 0, NEW size \in Nat,
           NEW burst \in Nat, burst > 0 => Gone(AfterDrop(c)),
           cl' = AfterMessage(c, size), pace' = [AfterPacing(size) EXCEPT !.burst = burst],
           UNCHANGED <<sv_maxRate, sv_fastDownload, isLocal>>, frame' \in BOOLEAN
    PROVE  TypeInv' /\ PaceInv'
  <1> DEFINE b == Piece(size)
             r == EffectiveRate(cl')
  <1>2. /\ sv_maxRate \in Int /\ isLocal \in BOOLEAN /\ sv_fastDownload \in BOOLEAN
        /\ pace \in Pace
    BY DEF TypeInv
  <1>3. /\ cl' \in Client /\ Sound(cl') /\ cl'.wait >= -1
        /\ cl'.state = AfterDrop(c).state
        /\ ~Exempt(cl') => cl'.wait >= RateMsec(cl', size) /\ cl'.wait >= 0
        /\ ~Exempt(cl') /\ cl'.state # CS_ACTIVE /\ ~cl'.downloadName
             => cl'.wait >= Second
    BY <1>2, MessageWaits, Zenon DEF Sound
  <1>4. r \in MinRate..MaxRate /\ r \in Nat \ {0}
    BY <1>2, <1>3, EffectiveRateType, ScheduleAssumption
  <1>5. b \in Nat /\ b <= FRAGMENT_SIZE /\ Second \in Nat \ {0} /\ FRAGMENT_SIZE \in Nat
    BY PieceType, ScheduleAssumption
  <1>6. b * Second \in Nat /\ b * Second <= FRAGMENT_SIZE * Second
    BY <1>5, Z3
  <1>7. /\ RateMsec(cl', size) \in Nat
        /\ r <= HEADER_RATE_BYTES * Second => b * Second <= r * RateMsec(cl', size)
    BY <1>2, <1>3, RateMsecPays
  <1> DEFINE counted == ~(Exempt(cl') \/ r > HEADER_RATE_BYTES * Second)
             slow == ~Exempt(cl') /\ cl'.state # CS_ACTIVE /\ ~cl'.downloadName
             lead == IF Exempt(cl') \/ r > HEADER_RATE_BYTES * Second
                     THEN 0 ELSE pace.lead + b * Second
             age == IF slow THEN 0 ELSE Second
  <1>8. pace' = [[[pace EXCEPT !.lead = lead, !.rate = r] EXCEPT !.slowAge = age]
                    EXCEPT !.burst = burst]
    <2>1. pace' = [[Paced(cl', Piece(size)) EXCEPT !.slowAge = age] EXCEPT !.burst = burst]
      BY DEF AfterPacing
    <2>2. Paced(cl', Piece(size)) = [pace EXCEPT !.lead = lead, !.rate = r]
      BY DEF Paced
    <2>3. QED
      BY <2>1, <2>2
  <1>9. counted => b * Second <= r * cl'.wait /\ (b * Second > 0 => cl'.wait > 0)
    <2> SUFFICES ASSUME counted
                 PROVE  b * Second <= r * cl'.wait /\ (b * Second > 0 => cl'.wait > 0)
      OBVIOUS
    <2>1. HEADER_RATE_BYTES * Second \in Nat
      BY <1>5, ScheduleAssumption, Z3
    <2>2. b * Second <= r * RateMsec(cl', size) /\ cl'.wait >= RateMsec(cl', size)
      BY <1>3, <1>4, <1>7, <2>1
    <2>3. cl'.wait \in Nat
      BY <1>3 DEF Client
    <2> DEFINE m == RateMsec(cl', size)
               w == cl'.wait
               x == b * Second
    <2>4. r \in Nat /\ m \in Nat /\ w \in Nat /\ x \in Nat /\ x <= r * m /\ m <= w
      BY <1>4, <1>6, <1>7, <2>2, <2>3
    <2> HIDE DEF r, m, w, x
    <2>5. x <= r * w /\ (x > 0 => w > 0)
      BY <2>4, Z3
    <2>6. QED
      BY <2>5 DEF r, w, x
  <1> HIDE DEF b, r
  <1>lead. lead = (IF counted THEN b * Second ELSE 0) /\ lead \in Nat /\ age \in 0..Second
    BY <1>5, <1>6
  <1> HIDE DEF counted, slow, lead, age
  <1>10. /\ pace' \in Pace
         /\ pace'.lead = (IF counted THEN b * Second ELSE 0)
         /\ pace'.rate = r
         /\ pace'.slowAge = age
         /\ pace'.burst = burst
    BY <1>2, <1>4, <1>8, <1>lead DEF Pace
  <1>11. TypeInv'
    BY <1>2, <1>3, <1>10 DEF TypeInv
  <1>12. pace'.lead <= FRAGMENT_SIZE * Second
    <2>1. FRAGMENT_SIZE * Second \in Nat
      BY <1>5, Z3
    <2>2. QED
      BY <1>6, <1>10, <2>1
  <1>13. pace'.lead > 0 => cl'.wait > 0 /\ pace'.lead <= pace'.rate * cl'.wait
    BY <1>6, <1>9, <1>10, <1>lead
  <1>14. pace'.slowAge < Second => cl'.wait >= Second - pace'.slowAge
    BY <1>3, <1>5, <1>10 DEF age, slow, Client
  <1>15. pace'.burst > 0 => Gone(cl')
    BY <1>3, <1>10 DEF Gone
  <1>16. QED
    BY <1>11, <1>12, <1>13, <1>14, <1>15 DEF PaceInv

\* Sending a piece of a message that is due keeps them too.
LEMMA SendFragmentKeeps ==
    ASSUME TypeInv, PaceInv, pace.lead = 0, pace.slowAge = Second, SendFragment(cl),
           UNCHANGED <<sv_maxRate, sv_fastDownload, isLocal>>, frame' \in BOOLEAN
    PROVE  TypeInv' /\ PaceInv'
  <1> DEFINE b == Piece(cl.unsent)
             r == EffectiveRate(cl)
             m == RateMsec(cl, cl.unsent)
  <1>1. /\ sv_maxRate \in Int /\ isLocal \in BOOLEAN /\ sv_fastDownload \in BOOLEAN
        /\ pace \in Pace /\ cl \in Client /\ cl.unsent \in Nat
        /\ Sound(cl)
    BY DEF TypeInv, Sound, Client
  <1>2. r \in MinRate..MaxRate /\ r \in Nat \ {0}
    BY <1>1, EffectiveRateType, ScheduleAssumption
  <1>3. /\ b \in Nat /\ b <= FRAGMENT_SIZE /\ cl.unsent - b \in Nat
        /\ Second \in Nat \ {0} /\ FRAGMENT_SIZE \in Nat
    BY <1>1, PieceType, ScheduleAssumption
  <1>4. b * Second \in Nat /\ b * Second <= FRAGMENT_SIZE * Second
        /\ FRAGMENT_SIZE * Second \in Nat /\ HEADER_RATE_BYTES * Second \in Nat
    BY <1>3, ScheduleAssumption, Z3
  <1>5. m \in Nat /\ (r <= HEADER_RATE_BYTES * Second => b * Second <= r * m)
    BY <1>1, RateMsecPays
  <1>6. cl' = [cl EXCEPT !.wait = m, !.unsent = cl.unsent - b]
    BY DEF SendFragment, AfterFragment
  <1> DEFINE counted == ~(Exempt(cl) \/ r > HEADER_RATE_BYTES * Second)
             lead == IF Exempt(cl) \/ r > HEADER_RATE_BYTES * Second
                     THEN 0 ELSE pace.lead + b * Second
  <1>7. pace' = [pace EXCEPT !.lead = lead, !.rate = r]
    BY DEF SendFragment, Paced
  <1>8. counted => b * Second <= r * m
    BY <1>2, <1>4, <1>5
  <1> HIDE DEF b, r, m
  <1>lead. lead = (IF counted THEN b * Second ELSE 0) /\ lead \in Nat
    BY <1>4
  <1> HIDE DEF counted, lead
  <1>9. /\ pace' \in Pace
        /\ pace'.lead = (IF counted THEN b * Second ELSE 0)
        /\ pace'.rate = r /\ pace'.slowAge = Second /\ pace'.burst = pace.burst
    BY <1>1, <1>2, <1>7, <1>lead DEF Pace
  <1>10. Sound(cl') /\ cl'.wait = m /\ Gone(cl') = Gone(cl)
    <2> DEFINE rest == cl.unsent - b
    <2>0. cl' = [cl EXCEPT !.wait = m, !.unsent = rest]
      BY <1>6
    <2>1. cl' \in Client /\ cl'.wait = m
      <3>1. rest \in Nat /\ m \in Int
        BY <1>3, <1>5
      <3> HIDE DEF rest
      <3>2. QED
        BY <1>1, <2>0, <3>1 DEF Client
    <2>2. /\ cl'.download = cl.download /\ cl'.downloadName = cl.downloadName
          /\ cl'.state = cl.state
      BY <1>1, <1>6 DEF Client
    <2>3. QED
      BY <1>1, <2>1, <2>2 DEF Sound, Gone
  <1>11. TypeInv'
    BY <1>1, <1>5, <1>9, <1>10 DEF TypeInv
  <1>12. counted /\ b * Second > 0 => m > 0
    <2> DEFINE x == b * Second
    <2>1. x \in Nat
      BY <1>4
    <2>2. counted => x <= r * m
      BY <1>8
    <2> HIDE DEF x
    <2>3. counted /\ x > 0 => m > 0
      BY <2>1, <2>2, <1>2, <1>5, Z3
    <2>4. QED
      BY <2>3 DEF x
  <1>13. QED
    BY <1>3, <1>4, <1>8, <1>9, <1>10, <1>11, <1>12 DEF PaceInv

------------------------------------------------------------------------------
(* The invariant *)

IInv == TypeInv /\ PaceInv

\* A client that is due has paid for what it got, and its second is over.
LEMMA DueIsPaid ==
    ASSUME IInv, Due(cl)
    PROVE  pace.lead = 0 /\ pace.slowAge = Second
  <1>1. /\ pace.lead \in Nat /\ pace.slowAge \in 0..Second /\ cl.wait \in Int
        /\ cl.wait <= 0 /\ Second \in Nat
    BY ScheduleAssumption DEF IInv, TypeInv, Sound, Pace, Client, Due
  <1>2. QED
    BY <1>1 DEF IInv, PaceInv

\* Time pays off as much as it takes from the wait.
LEMMA PaidOff ==
    ASSUME NEW lead \in Nat, NEW rate \in Nat \ {0}, NEW wait \in Nat, NEW dt \in Nat,
           lead <= rate * wait, lead - rate * dt > 0
    PROVE  dt < wait /\ lead - rate * dt <= rate * (wait - dt)
  BY Z3

\* The initial state satisfies the invariant.
LEMMA InitIInv == Init => IInv
  <1> SUFFICES ASSUME Init PROVE IInv
    OBVIOUS
  <1>1. /\ MinRate \in MinRate..MaxRate /\ DefaultMsec \in 0..Second
        /\ Second \in 0..Second /\ Second \in Nat
    BY ScheduleAssumption
  <1>2. TypeInv
    <2>1. cl \in Client /\ pace \in Pace
      BY <1>1 DEF Init, Client, Pace
    <2>2. cl.wait >= -1 /\ sv_maxRate \in Int
      BY DEF Init
    <2>3. /\ sv_fastDownload \in BOOLEAN /\ isLocal \in BOOLEAN /\ frame \in BOOLEAN
      BY Zenon DEF Init
    <2>4. ~cl.download /\ ~cl.downloadName
      BY DEF Init
    <2>5. QED
      BY <2>1, <2>2, <2>3, <2>4 DEF TypeInv, Sound
  <1>3. FRAGMENT_SIZE * Second >= 0
    BY ScheduleAssumption, Z3
  <1>4. PaceInv
    BY <1>1, <1>3 DEF Init, PaceInv
  <1>5. QED
    BY <1>2, <1>4 DEF IInv

\* Sending what a frame has to send keeps the invariant.
LEMMA SendKeepsIInv ==
    ASSUME IInv, SendClientMessages
    PROVE  IInv'
  <1>1. /\ frame' = FALSE /\ UNCHANGED <<sv_maxRate, sv_fastDownload, isLocal>>
        /\ TypeInv /\ PaceInv /\ Sound(cl) /\ pace \in Pace
    BY DEF SendClientMessages, IInv, TypeInv
  <1>2. ASSUME Due(cl), sv_fastDownload, cl.download, NEW fps \in Fps, NEW size \in Size,
               SendFast(cl, MessagesAtOnce(fps), size)
        PROVE  IInv'
    <2> DEFINE n == MessagesAtOnce(fps)
               flushed == [cl EXCEPT !.unsent = 0]
               c == Downloading(flushed, TRUE)
               over == n > 1 /\ ~Exempt(AfterDrop(c))
               burst == IF over THEN n - 1 ELSE pace.burst
    <2>1. cl' = AfterMessage(c, size) /\ pace' = [AfterPacing(size) EXCEPT !.burst = burst]
      <3>1. burst = IF over THEN n - 1 ELSE pace.burst
        OBVIOUS
      <3>2. AfterPacing(size).burst = pace.burst
        BY <1>1 DEF AfterPacing, Paced, Pace
      <3> QED
        BY <1>2, <3>2, Zenon DEF SendFast
    <2>2. Sound(flushed) /\ flushed.download /\ flushed.downloadName
      BY <1>1, <1>2 DEF Client, Sound, Gone
    <2>3. Sound(c) /\ c.download
      <3>1. Sound(c)
        BY <2>2, DropType
      <3>2. c.download
        BY <2>2 DEF Downloading, Sound, Client
      <3> QED
        BY <3>1, <3>2
    <2>4. n \in Nat
      <3>1. fps \div 20 \in Nat
        BY ScheduleAssumption
      <3>2. MAX_DOWNLOAD_WINDOW \in Nat
        BY ScheduleAssumption
      <3> DEFINE k == fps \div 20
      <3> HIDE DEF k
      <3>3. k \in Nat => 1 + k * MAX_DOWNLOAD_WINDOW \in Nat
        BY <3>2, Z3
      <3> QED
        BY <3>1, <3>3 DEF MessagesAtOnce, k
    <2>5. burst \in Nat
      <3> HIDE DEF n, over
      <3>1. over => n > 1
        BY DEF over
      <3> QED
        BY <1>1, <2>4, <3>1 DEF Pace
    <2>6. over => Gone(AfterDrop(c))
      <3>1. CASE c.dropReason
        <4>1. AfterDrop(c).state = CS_ZOMBIE
          BY <2>3, <3>1 DEF AfterDrop, Sound, Client
        <4> QED
          BY <4>1 DEF Gone
      <3>2. CASE ~c.dropReason
        <4>1. AfterDrop(c) = c
          BY <3>2, Zenon DEF AfterDrop
        <4>2. Exempt(AfterDrop(c))
          BY <1>2, <2>3, <4>1, Zenon DEF Exempt
        <4> QED
          BY <4>2, Zenon
      <3> QED
        BY <3>1, <3>2, Zenon
    <2>7. Gone(cl) => FALSE
      BY <1>1, <1>2 DEF Sound
    <2>8. burst > 0 => Gone(AfterDrop(c))
      <3>1. pace.burst > 0 => FALSE
        BY <1>1, <2>7 DEF PaceInv
      <3> HIDE DEF over, n, c
      <3> QED
        BY <2>6, <3>1
    <2>9. size \in Nat /\ frame' \in BOOLEAN /\ pace.lead = 0
      BY <1>1, <1>2, DueIsPaid, ScheduleAssumption
    <2> HIDE DEF c, burst
    <2> QED
      BY <1>1, <2>1, <2>3, <2>5, <2>8, <2>9, SendMessageKeeps DEF IInv
  <1>3. CASE Due(cl) /\ SendFragment(cl)
    BY <1>1, <1>3, DueIsPaid, SendFragmentKeeps DEF IInv
  <1>4. ASSUME Due(cl), NEW opens \in BOOLEAN, NEW size \in Size,
               SendMessage(Downloading(cl, opens), size)
        PROVE  IInv'
    <2> DEFINE c == Downloading(cl, opens)
               burst == pace.burst
    <2>1. cl' = AfterMessage(c, size) /\ pace' = [AfterPacing(size) EXCEPT !.burst = burst]
      <3>1. AfterPacing(size) = [AfterPacing(size) EXCEPT !.burst = burst]
        BY <1>1 DEF AfterPacing, Paced, Pace
      <3> QED
        BY <1>4, <3>1, Zenon DEF SendMessage
    <2>2. Sound(c) /\ (Gone(cl) => Gone(AfterDrop(c)))
      BY <1>1, DropType
    <2>3. burst \in Nat /\ (burst > 0 => Gone(AfterDrop(c)))
      BY <1>1, <2>2 DEF Pace, PaceInv
    <2>4. size \in Nat /\ frame' \in BOOLEAN /\ pace.lead = 0
      BY <1>1, <1>4, DueIsPaid, ScheduleAssumption
    <2> HIDE DEF c, burst
    <2> QED
      BY <1>1, <2>1, <2>2, <2>3, <2>4, SendMessageKeeps DEF IInv
  <1>5. CASE UNCHANGED <<cl, pace>>
    BY <1>1, <1>5 DEF IInv, TypeInv, PaceInv
  <1>6. QED
    BY <1>2, <1>3, <1>4, <1>5 DEF SendClientMessages

\* Time keeps it.
LEMMA TickKeepsIInv ==
    ASSUME IInv, NEW dt \in FrameTime, Tick(dt)
    PROVE  IInv'
  <1>1. /\ cl \in Client /\ pace \in Pace /\ cl.wait >= -1 /\ cl.wait \in Int
        /\ pace.lead \in Nat /\ pace.rate \in MinRate..MaxRate
        /\ pace.slowAge \in 0..Second /\ Sound(cl)
    BY DEF IInv, TypeInv, Pace, Sound, Client
  <1>2. /\ dt \in Nat \ {0} /\ Second \in Nat \ {0} /\ MinRate \in Nat \ {0}
        /\ MaxRate \in Nat /\ FRAGMENT_SIZE \in Nat
    BY ScheduleAssumption
  <1>3. pace.rate \in Nat \ {0}
    BY <1>1, <1>2
  <1> DEFINE wait == Greatest(cl.wait - dt, -1)
             lead == Greatest(pace.lead - pace.rate * dt, 0)
             age == Least(pace.slowAge + dt, Second)
  <1>4. pace.rate * dt \in Nat /\ FRAGMENT_SIZE * Second \in Nat
    BY <1>2, <1>3, Z3
  <1>5. wait \in Int /\ wait >= -1 /\ wait >= cl.wait - dt
    BY <1>1, <1>2 DEF Greatest
  <1>6. lead \in Nat /\ lead <= pace.lead
    BY <1>1, <1>4 DEF Greatest
  <1>7. age \in 0..Second
    BY <1>1, <1>2 DEF Least
  <1>8. /\ cl' = [cl EXCEPT !.wait = wait]
        /\ pace' = [pace EXCEPT !.lead = lead, !.slowAge = age]
        /\ frame' = TRUE /\ UNCHANGED <<sv_maxRate, sv_fastDownload, isLocal>>
    BY DEF Tick
  <1>9. lead > 0 => wait > 0 /\ lead <= pace.rate * wait
    <2> SUFFICES ASSUME lead > 0 PROVE wait > 0 /\ lead <= pace.rate * wait
      OBVIOUS
    <2>1. lead = pace.lead - pace.rate * dt /\ pace.lead > 0
      BY <1>1, <1>4 DEF Greatest
    <2>2. cl.wait > 0 /\ pace.lead <= pace.rate * cl.wait
      BY <2>1 DEF IInv, PaceInv
    <2>3. cl.wait \in Nat
      BY <1>1, <2>2
    <2>4. dt < cl.wait /\ pace.lead - pace.rate * dt <= pace.rate * (cl.wait - dt)
      BY <1>1, <1>2, <1>3, <2>1, <2>2, <2>3, PaidOff
    <2>5. wait = cl.wait - dt
      BY <1>1, <1>2, <2>4 DEF Greatest
    <2>6. QED
      BY <1>1, <1>2, <2>1, <2>4, <2>5
  <1>10. age < Second => wait >= Second - age
    <2> SUFFICES ASSUME age < Second PROVE wait >= Second - age
      OBVIOUS
    <2>1. age = pace.slowAge + dt /\ pace.slowAge < Second
      BY <1>1, <1>2 DEF Least
    <2>2. cl.wait >= Second - pace.slowAge
      BY <2>1 DEF IInv, PaceInv
    <2> HIDE DEF wait, age
    <2>3. QED
      BY <1>1, <1>2, <1>5, <1>7, <2>1, <2>2
  <1> HIDE DEF wait, lead, age
  <1>11. Sound(cl') /\ cl'.wait = wait /\ Gone(cl') = Gone(cl)
    <2>1. /\ cl' \in Client /\ cl'.wait = wait /\ cl'.state = cl.state
          /\ cl'.download = cl.download /\ cl'.downloadName = cl.downloadName
      BY <1>1, <1>5, <1>8 DEF Client
    <2> QED
      BY <1>1, <2>1 DEF Sound, Gone
  <1>12. /\ pace' \in Pace /\ pace'.lead = lead /\ pace'.rate = pace.rate
         /\ pace'.slowAge = age /\ pace'.burst = pace.burst
    BY <1>1, <1>6, <1>7, <1>8 DEF Pace
  <1>13. TypeInv'
    BY <1>1, <1>5, <1>8, <1>11, <1>12 DEF IInv, TypeInv
  <1>14. lead <= FRAGMENT_SIZE * Second
    BY <1>1, <1>4, <1>6 DEF IInv, PaceInv
  <1>15. PaceInv'
    BY <1>9, <1>10, <1>11, <1>12, <1>14 DEF IInv, PaceInv
  <1>16. QED
    BY <1>13, <1>15 DEF IInv

\* A step that leaves the wait alone, or starts a new stretch, keeps the pacing.
LEMMA OtherKeepsPace ==
    ASSUME IInv, cl' \in Client, cl'.wait >= -1,
           \/ cl'.wait = cl.wait /\ UNCHANGED pace /\ (Gone(cl) => Gone(cl'))
           \/ pace' = [pace EXCEPT !.lead = 0, !.slowAge = Second] /\ (Gone(cl) => Gone(cl'))
           \/ pace' = [lead |-> 0, rate |-> MinRate, slowAge |-> Second, burst |-> 0]
    PROVE  pace' \in Pace /\ PaceInv'
  <1>1. /\ Second \in 0..Second /\ Second \in Nat /\ MinRate \in MinRate..MaxRate
        /\ FRAGMENT_SIZE \in Nat
    BY ScheduleAssumption
  <1>2. FRAGMENT_SIZE * Second >= 0
    BY <1>1, Z3
  <1>3. pace \in Pace /\ PaceInv
    BY DEF IInv, TypeInv
  <1>4. CASE cl'.wait = cl.wait /\ UNCHANGED pace /\ (Gone(cl) => Gone(cl'))
    BY <1>3, <1>4 DEF PaceInv
  <1>5. ASSUME \/ pace' = [pace EXCEPT !.lead = 0, !.slowAge = Second] /\ (Gone(cl) => Gone(cl'))
               \/ pace' = [lead |-> 0, rate |-> MinRate, slowAge |-> Second, burst |-> 0]
        PROVE  pace' \in Pace /\ PaceInv'
    <2>1. /\ pace' \in Pace /\ pace'.lead = 0 /\ pace'.slowAge = Second
          /\ pace'.burst > 0 => Gone(cl')
      <3>1. CASE pace' = [pace EXCEPT !.lead = 0, !.slowAge = Second] /\ (Gone(cl) => Gone(cl'))
        BY <1>1, <1>3, <3>1 DEF Pace, PaceInv
      <3>2. CASE pace' = [lead |-> 0, rate |-> MinRate, slowAge |-> Second, burst |-> 0]
        BY <1>1, <3>2 DEF Pace
      <3>3. QED
        BY <1>5, <3>1, <3>2
    <2>2. QED
      BY <1>1, <1>2, <2>1 DEF PaceInv
  <1>6. QED
    BY <1>4, <1>5

\* Whatever players, downloads and cvars do keeps the invariant.
LEMMA ChangesKeepIInv ==
    ASSUME IInv,
           \/ \E rate \in AskedRate \cup {Unset}, snaps \in AskedSnaps \cup {Unset} :
                    Connect(rate, snaps) \/ UserinfoChanged(rate, snaps)
           \/ \E size \in Size : SendGameState(size)
           \/ EnterWorld
           \/ BeginDownload \/ EndDownload \/ SetDropReason \/ FreeZombie
           \/ SetCvars
    PROVE  IInv'
  <1>1. /\ cl \in Client /\ cl.wait >= -1 /\ Sound(cl)
        /\ sv_maxRate \in Int /\ sv_fastDownload \in BOOLEAN /\ isLocal \in BOOLEAN
        /\ frame \in BOOLEAN
    BY DEF IInv, TypeInv, Sound
  <1>2. ASSUME NEW rate \in AskedRate \cup {Unset}, NEW snaps \in AskedSnaps \cup {Unset},
               Connect(rate, snaps)
        PROVE  IInv'
    <2>1. cl' \in Client /\ cl'.wait = 0 /\ Sound(cl')
      <3>1. /\ cl' \in Client /\ cl'.wait = 0 /\ cl'.download = FALSE
            /\ cl'.state = CS_CONNECTED
        BY <1>2, UserinfoType DEF Connect, Client
      <3> QED
        BY <3>1 DEF Sound, Gone, CS_ZOMBIE, CS_FREE, CS_CONNECTED
    <2>2. isLocal' \in BOOLEAN /\ UNCHANGED <<sv_maxRate, sv_fastDownload, frame>>
          /\ pace' = [lead |-> 0, rate |-> MinRate, slowAge |-> Second, burst |-> 0]
      BY <1>2 DEF Connect
    <2>3. pace' \in Pace /\ PaceInv'
      BY <2>1, <2>2, OtherKeepsPace
    <2>4. QED
      BY <1>1, <2>1, <2>2, <2>3 DEF IInv, TypeInv
  <1>3. ASSUME NEW rate \in AskedRate \cup {Unset}, NEW snaps \in AskedSnaps \cup {Unset},
               UserinfoChanged(rate, snaps)
        PROVE  IInv'
    <2>1. cl' = [cl EXCEPT !.rate = Rate(rate), !.snapshotMsec = SnapshotMsec(snaps)]
          /\ UNCHANGED <<sv_maxRate, sv_fastDownload, isLocal, frame, pace>>
      BY <1>3 DEF UserinfoChanged
    <2>2. /\ cl' \in Client /\ cl'.wait = cl.wait /\ Sound(cl') /\ Gone(cl') = Gone(cl)
      <3>1. /\ cl' \in Client /\ cl'.wait = cl.wait /\ cl'.state = cl.state
            /\ cl'.download = cl.download /\ cl'.downloadName = cl.downloadName
        BY <1>1, <2>1, UserinfoType DEF Client
      <3> QED
        BY <1>1, <3>1 DEF Sound, Gone
    <2>3. pace' \in Pace /\ PaceInv'
      BY <1>1, <2>1, <2>2, OtherKeepsPace
    <2>4. QED
      BY <1>1, <2>1, <2>2, <2>3 DEF IInv, TypeInv
  <1>4. ASSUME NEW size \in Size, SendGameState(size)
        PROVE  IInv'
    <2>1. /\ cl' = AfterMessage(cl, size) /\ cl.state = CS_CONNECTED
          /\ UNCHANGED <<sv_maxRate, sv_fastDownload, isLocal, frame>>
          /\ pace' = [pace EXCEPT !.lead = 0, !.slowAge = Second]
      BY <1>4 DEF SendGameState
    <2>2. size \in Nat
      BY ScheduleAssumption
    <2>3. Sound(cl') /\ cl'.wait >= -1
      BY <1>1, <2>1, <2>2, MessageWaits, Zenon
    <2>4. pace' \in Pace /\ PaceInv'
      <3>1. ~Gone(cl)
        BY <2>1 DEF Gone, CS_ZOMBIE, CS_FREE, CS_CONNECTED
      <3>2. cl' \in Client
        BY <2>3 DEF Sound
      <3> QED
        BY <2>1, <2>3, <3>1, <3>2, OtherKeepsPace
    <2>5. QED
      BY <1>1, <2>1, <2>3, <2>4 DEF IInv, TypeInv
  <1>5. CASE EnterWorld
    <2>1. cl' = [cl EXCEPT !.state = CS_ACTIVE, !.wait = 0] /\ cl.state = CS_CONNECTED
          /\ UNCHANGED <<sv_maxRate, sv_fastDownload, isLocal, frame>>
          /\ pace' = [pace EXCEPT !.lead = 0, !.slowAge = Second]
      BY <1>5 DEF EnterWorld
    <2>2. cl' \in Client /\ cl'.wait = 0 /\ Sound(cl') /\ ~Gone(cl)
      <3>1. cl' \in Client
        <4> DEFINE entered == [cl EXCEPT !.state = CS_ACTIVE]
        <4>1. cl' = [entered EXCEPT !.wait = 0]
          BY <2>1
        <4>2. entered \in Client
          BY <1>1 DEF Client
        <4> HIDE DEF entered
        <4>3. QED
          BY <4>1, <4>2 DEF Client
      <3>2. cl'.wait = 0
        BY <1>1, <2>1 DEF Client
      <3>3. /\ cl'.download = cl.download /\ cl'.downloadName = cl.downloadName
            /\ cl'.state = CS_ACTIVE
        BY <1>1, <2>1 DEF Client
      <3>4. ~Gone(cl) /\ ~Gone(cl')
        BY <2>1, <3>3 DEF Gone, CS_ZOMBIE, CS_FREE, CS_CONNECTED, CS_ACTIVE
      <3>5. QED
        BY <1>1, <3>1, <3>2, <3>3, <3>4 DEF Sound
    <2>3. pace' \in Pace /\ PaceInv'
      BY <2>1, <2>2, OtherKeepsPace
    <2>4. QED
      BY <1>1, <2>1, <2>2, <2>3 DEF IInv, TypeInv
  <1>6. CASE BeginDownload \/ EndDownload \/ SetDropReason \/ FreeZombie
    <2>1. /\ \/ /\ cl.state \in {CS_CONNECTED, CS_ACTIVE}
                /\ \/ cl' = [cl EXCEPT !.downloadName = TRUE, !.download = FALSE]
                   \/ cl' = [cl EXCEPT !.downloadName = FALSE, !.download = FALSE]
                   \/ cl' = [cl EXCEPT !.dropReason = TRUE]
             \/ cl' = [cl EXCEPT !.state = CS_FREE] /\ cl.state = CS_ZOMBIE
          /\ UNCHANGED <<sv_maxRate, sv_fastDownload, isLocal, frame, pace>>
      BY <1>6 DEF BeginDownload, EndDownload, SetDropReason, FreeZombie, Change
    <2>2. cl' \in Client /\ cl'.wait = cl.wait
      BY <1>1, <2>1 DEF Client
    <2>3. Sound(cl') /\ (Gone(cl) => Gone(cl'))
      <3>1. \/ /\ cl'.state = cl.state /\ ~Gone(cl)
               /\ \/ cl'.download = FALSE
                  \/ cl'.download = cl.download /\ cl'.downloadName = cl.downloadName
            \/ /\ cl'.state = CS_FREE /\ Gone(cl)
               /\ cl'.download = cl.download /\ cl'.downloadName = cl.downloadName
        <4>1. CASE cl' = [cl EXCEPT !.state = CS_FREE] /\ cl.state = CS_ZOMBIE
          BY <1>1, <4>1 DEF Client, Gone
        <4>2. CASE /\ cl.state \in {CS_CONNECTED, CS_ACTIVE}
                   /\ \/ cl' = [cl EXCEPT !.downloadName = TRUE, !.download = FALSE]
                      \/ cl' = [cl EXCEPT !.downloadName = FALSE, !.download = FALSE]
                      \/ cl' = [cl EXCEPT !.dropReason = TRUE]
          <5>1. ~Gone(cl)
            BY <4>2 DEF Gone, CS_ZOMBIE, CS_FREE, CS_CONNECTED, CS_ACTIVE
          <5> QED
            BY <1>1, <4>2, <5>1 DEF Client
        <4> QED
          BY <2>1, <4>1, <4>2
      <3> QED
        BY <1>1, <2>2, <3>1 DEF Sound, Gone, CS_FREE
    <2>4. pace' \in Pace /\ PaceInv'
      BY <1>1, <2>1, <2>2, <2>3, OtherKeepsPace
    <2>5. QED
      BY <1>1, <2>1, <2>2, <2>3, <2>4 DEF IInv, TypeInv
  <1>7. CASE SetCvars
    <2>1. sv_maxRate' \in Int /\ sv_fastDownload' \in BOOLEAN
          /\ UNCHANGED <<cl, isLocal, frame, pace>>
      BY <1>7, ScheduleAssumption DEF SetCvars
    <2>2. pace' \in Pace /\ PaceInv'
      BY <1>1, <2>1, OtherKeepsPace
    <2>3. QED
      BY <1>1, <2>1, <2>2 DEF IInv, TypeInv
  <1>8. QED
    BY <1>2, <1>3, <1>4, <1>5, <1>6, <1>7

\* Every step keeps the invariant.
LEMMA NextKeepsIInv == IInv /\ [Next]_vars => IInv'
  <1> SUFFICES ASSUME IInv, [Next]_vars PROVE IInv'
    OBVIOUS
  <1>1. CASE UNCHANGED vars
    BY <1>1 DEF vars, IInv, TypeInv, PaceInv
  <1>2. CASE Next
    BY <1>2, SendKeepsIInv, TickKeepsIInv, ChangesKeepIInv DEF Next
  <1>3. QED
    BY <1>1, <1>2

------------------------------------------------------------------------------
(* Theorems *)

\* The fields of a client keep their types: whatever a player or an
\* administrator asks for, rates and intervals stay in range and no division is
\* by zero.
THEOREM ScheduleTypes == Spec => []TypeOK
  <1>1. IInv => TypeOK
    <2> SUFFICES ASSUME IInv PROVE TypeOK
      OBVIOUS
    <2>1. cl \in Client /\ pace \in Pace /\ cl.wait >= -1 /\ (cl.download => cl.downloadName)
      BY DEF IInv, TypeInv, Sound
    <2>2. QED
      BY <2>1 DEF TypeOK, Client, Pace
  <1>2. QED
    BY InitIInv, NextKeepsIInv, <1>1, PTL DEF Spec

\* Over any stretch of time a remote client gets no more than its rate and one
\* packet, whatever the sizes of messages, the rates and the frame times; and only
\* who has been dropped has had the messages of a fast download beside that
\* (sv_client.c:1399-1407).
THEOREM RateIsKept == Spec => []RateKept
  <1>1. IInv => RateKept
    BY DEF IInv, PaceInv, RateKept, Gone
  <1>2. QED
    BY InitIInv, NextKeepsIInv, <1>1, PTL DEF Spec

\* A client is due only when the second of a slow message is over, and gets a burst
\* only in the frame in which it is dropped.
LEMMA SendsAreSlow ==
    ASSUME IInv, SendClientMessages
    PROVE  /\ event' \in {"message", "burst"} => pace.slowAge >= Second
           /\ event' = "burst" => cl.state # CS_ZOMBIE /\ cl'.state = CS_ZOMBIE
  <1>1. event' \in {"message", "burst"} => Due(cl)
    BY DEF SendClientMessages, SendFragment
  <1>2. event' \in {"message", "burst"} => pace.slowAge >= Second
    BY <1>1, DueIsPaid, ScheduleAssumption
  <1>3. ASSUME event' = "burst"
        PROVE  cl.state # CS_ZOMBIE /\ cl'.state = CS_ZOMBIE
    <2>1. PICK fps \in Fps, size \in Size :
                SendFast(cl, MessagesAtOnce(fps), size) /\ cl.download /\ sv_fastDownload
      BY <1>3 DEF SendClientMessages, SendFragment, SendMessage
    <2> DEFINE flushed == [cl EXCEPT !.unsent = 0]
               c == Downloading(flushed, TRUE)
    <2>2. /\ Sound(cl) /\ sv_maxRate \in Int
          /\ sv_fastDownload \in BOOLEAN /\ isLocal \in BOOLEAN
      BY DEF IInv, TypeInv
    <2>3. Sound(flushed) /\ flushed.download
      BY <2>1, <2>2 DEF Client, Sound, Gone
    <2>4. Sound(c)
      BY <2>3, DropType
    <2>5. c.download
      BY <2>3 DEF Downloading, Sound, Client
    <2>6. cl' = AfterMessage(c, size) /\ ~Exempt(AfterDrop(c))
      BY <1>3, <2>1, Zenon DEF SendFast
    <2> HIDE DEF c
    <2>7. size \in Nat
      BY ScheduleAssumption
    <2>8. cl'.state = AfterDrop(c).state
      BY <2>2, <2>4, <2>6, <2>7, MessageWaits, Zenon
    <2>9. c.dropReason
      <3> SUFFICES ASSUME ~c.dropReason PROVE FALSE
        OBVIOUS
      <3>1. AfterDrop(c) = c
        BY Zenon DEF AfterDrop
      <3> QED
        BY <2>1, <2>5, <2>6, <3>1, Zenon DEF Exempt
    <2>10. AfterDrop(c).state = CS_ZOMBIE
      BY <2>4, <2>9 DEF AfterDrop, Sound, Client
    <2> QED
      BY <2>1, <2>2, <2>8, <2>10 DEF Sound, Gone
  <1> QED
    BY <1>2, <1>3

\* A remote client that is neither in the game nor downloading gets a message in a
\* second at most, but for what is left of a fast download in the frame in which
\* the client is dropped (sv_client.c:1367-1373, 1399-1407).
THEOREM LoadingStaysSlow == Spec => LoadingIsSlow
  <1>1. IInv /\ [Next]_vars
            => [/\ event' \in {"message", "burst"} => pace.slowAge >= Second
                /\ event' = "burst" => cl.state # CS_ZOMBIE /\ cl'.state = CS_ZOMBIE
               ]_<<event, cl, frame>>
    <2> SUFFICES ASSUME IInv, Next, event' \in {"message", "burst"}
                 PROVE  /\ pace.slowAge >= Second
                        /\ event' = "burst" => cl.state # CS_ZOMBIE /\ cl'.state = CS_ZOMBIE
      BY DEF vars
    <2>1. CASE SendClientMessages
      BY <2>1, SendsAreSlow
    <2>2. CASE \E dt \in FrameTime : Tick(dt)
      BY <2>2 DEF Tick
    <2>3. CASE \E rate \in AskedRate \cup {Unset}, snaps \in AskedSnaps \cup {Unset} :
                    Connect(rate, snaps) \/ UserinfoChanged(rate, snaps)
      BY <2>3 DEF Connect, UserinfoChanged
    <2>4. CASE \E size \in Size : SendGameState(size)
      BY <2>4 DEF SendGameState
    <2>5. CASE EnterWorld \/ BeginDownload \/ EndDownload \/ SetDropReason
               \/ FreeZombie \/ SetCvars
      BY <2>5 DEF EnterWorld, BeginDownload, EndDownload, SetDropReason, FreeZombie,
                  SetCvars, Change
    <2>6. QED
      BY <2>1, <2>2, <2>3, <2>4, <2>5 DEF Next
  <1>2. QED
    BY InitIInv, NextKeepsIInv, <1>1, PTL DEF Spec, LoadingIsSlow
=============================================================================
