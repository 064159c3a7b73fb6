--------------------------- MODULE DownloadProofs ---------------------------
(***************************************************************************)
(* A client's download over a lossy link: what arrives is the file, piece  *)
(* by piece, and a client that keeps to the protocol is not dropped.       *)
(* The theorems are about one download (MaxRequests = 1).  Packets of one   *)
(* download carry no more than a block number, so that a packet sent again  *)
(* in the first download can pass for a block of the second.                *)
(***************************************************************************)
EXTENDS Download, TLAPS, FiniteSetTheorems

------------------------------------------------------------------------------
(* Types *)

FileOrNone == File \cup {NoFile}
Piece == [file: FileOrNone, from: Nat, size: Nat]
Pieces == Seq(Piece)

Downloads == [downloadName: FileOrNone, download: BOOLEAN, downloadSize: Nat,
              downloadCount: Nat, downloadClientBlock: Nat,
              downloadCurrentBlock: Nat, downloadXmitBlock: Nat,
              downloadEOF: BOOLEAN, downloadSendAge: Nat, dropped: BOOLEAN]

DownloadTypeOK ==
    /\ cl \in Downloads
    /\ blocks \in [Window -> Piece]
    /\ player \in [file: FileOrNone, block: Nat, got: Pieces,
                   done: Seq([file: FileOrNone, got: Pieces])]
    /\ toClient \in Seq([block: Int, data: Piece])
    /\ toServer \in Seq([cmd: {"download"}, arg: File]
                        \cup [cmd: {"nextdl", "retransdl"}, arg: Nat])

------------------------------------------------------------------------------
(* The inductive invariant: one of the stages of a download *)

\* Before the file is opened: nothing has been sent.
Untouched ==
    /\ ~cl.download
    /\ cl.downloadClientBlock = 0
    /\ toClient = <<>> /\ readFailed = {}
    /\ player.block = 0 /\ player.got = <<>>

Idle == 
    /\ Untouched /\ ~cl.dropped /\ cl.downloadName = NoFile
    /\ toServer = <<>> /\ player.file = NoFile /\ asked = {}

Requested ==
    /\ Untouched /\ ~cl.dropped /\ cl.downloadName = NoFile
    /\ player.file \in File /\ asked = {player.file}
    /\ toServer = <<Command("download", player.file)>>

Named ==
    /\ Untouched /\ ~cl.dropped /\ cl.downloadName \in File
    /\ player.file = cl.downloadName /\ asked = {cl.downloadName}
    /\ toServer = <<>>

\* The server gives no such file: it drops the client, or says nothing.
Refused ==
    /\ Untouched /\ cl.downloadName = NoFile
    /\ cl.dropped => player.file \notin Dotted
    /\ player.file \in File \ Allowed /\ asked = {player.file}
    /\ toServer = <<>>

\* The block that a bs holds under this number.
BlockIn(bs, b) == bs[Slot(b)]

\* The blocks of data that have been read: not the one that marks the end.
DataBlocks(c) == IF c.downloadEOF THEN c.downloadCurrentBlock - 1
                 ELSE c.downloadCurrentBlock

EndOf(piece) == piece.from + piece.size

GotEnd == IF player.got = <<>> THEN 0 ELSE EndOf(Last(player.got))

\* Where block b begins, or the next one to be read.
StartOf(bs, b) == IF b = player.block THEN GotEnd ELSE EndOf(BlockIn(bs, b - 1))

\* The block numbers of both sides.
CountersOK(c) ==
    /\ c.downloadClientBlock <= player.block
    /\ player.block <= c.downloadCurrentBlock
    /\ c.downloadCurrentBlock - c.downloadClientBlock <= MAX_DOWNLOAD_WINDOW
    /\ c.downloadXmitBlock <= c.downloadCurrentBlock
    /\ c.downloadClientBlock <= DataBlocks(c)
    /\ player.file = c.downloadName => player.block <= DataBlocks(c)
    /\ player.file # c.downloadName =>
            /\ player.file = NoFile /\ c.downloadEOF
            /\ player.block = c.downloadCurrentBlock

FileOK(c, failed) ==
    /\ c.download /\ ~c.dropped
    /\ c.downloadName \in File /\ c.downloadSize = SizeOf[c.downloadName]
    /\ c.downloadCount <= c.downloadSize
    /\ c.downloadEOF \/ c.downloadName \in failed => c.downloadCount = c.downloadSize
    /\ asked = {c.downloadName}

\* What the window holds from the client's block on: pieces of data, the file's
\* next ones, and the end.
WindowOK(c, bs, failed) ==
    /\ \A b \in c.downloadClientBlock..(DataBlocks(c) - 1) : BlockIn(bs, b).size > 0
    /\ \A b \in player.block..(DataBlocks(c) - 1) :
            /\ BlockIn(bs, b).file = c.downloadName
            /\ BlockIn(bs, b).from = StartOf(bs, b)
    /\ player.file = c.downloadName /\ c.downloadName \notin failed =>
            StartOf(bs, DataBlocks(c)) = c.downloadCount
    /\ c.downloadEOF => BlockIn(bs, c.downloadCurrentBlock - 1).size = 0

\* A packet is old, or what the window holds.
PacketsOK(c, bs, packets) ==
    \A i \in DOMAIN packets :
        /\ packets[i].block >= 0
        /\ packets[i].block >= player.block =>
                /\ packets[i].block < c.downloadCurrentBlock
                /\ packets[i].data = BlockIn(bs, packets[i].block)

\* The client's block after this command.
Acknowledged(command) ==
    IF command.cmd = "nextdl" THEN command.arg + 1 ELSE command.arg

\* The client's commands count up from the server's block to its own.
CommandsOK(c, commands) ==
    /\ commands = <<>> => c.downloadClientBlock = player.block
    /\ commands # <<>> =>
            /\ commands[1].arg = c.downloadClientBlock
            /\ Acknowledged(commands[Len(commands)]) = player.block
    /\ \A i \in 1..(Len(commands) - 1) :
            commands[i + 1].arg = Acknowledged(commands[i])
    /\ \A i \in DOMAIN commands :
            /\ commands[i].cmd \in {"nextdl", "retransdl"}
            /\ Acknowledged(commands[i]) <= player.block
            /\ c.downloadEOF => commands[i].arg < c.downloadCurrentBlock

Under(c, bs, failed, packets) ==
    /\ FileOK(c, failed)
    /\ CountersOK(c)
    /\ WindowOK(c, bs, failed)
    /\ PacketsOK(c, bs, packets)
    /\ CommandsOK(c, toServer)
    /\ Prefix(c.downloadName, player.got)

UnderWay == Under(cl, blocks, readFailed, toClient)

\* The server is through with the file, or has refused it.
Over ==
    /\ ~cl.download /\ ~cl.dropped /\ cl.downloadName = NoFile
    /\ toServer = <<>>
    /\ \E f \in File : asked = {f}
    /\ player.file # NoFile =>
            /\ player.got = <<>>
            /\ \A i \in DOMAIN toClient : toClient[i].block = -1

Stages == Idle \/ Requested \/ Named \/ Refused \/ UnderWay \/ Over

DownloadInv == DownloadTypeOK /\ Stages /\ WholeFile

------------------------------------------------------------------------------
(* Arithmetic of the window *)

\* Every block has a buffer in the window.
LEMMA SlotIsInWindow ==
    ASSUME NEW b \in Nat
    PROVE  Slot(b) \in Window
  BY DownloadAssumption DEF Slot, Window

\* As many blocks in a row as the window is long have slots of their own.
LEMMA SlotsDiffer ==
    ASSUME NEW a \in Nat, NEW b \in Nat, a < b, b < a + MAX_DOWNLOAD_WINDOW
    PROVE  Slot(a) # Slot(b)
  <1> DEFINE w == MAX_DOWNLOAD_WINDOW
  <1>0. w \in Nat /\ w > 0
    BY DownloadAssumption
  <1> HIDE DEF w
  <1>1. a = w * (a \div w) + (a % w) /\ a \div w \in Int /\ a % w \in Int
    BY <1>0
  <1>2. b = w * (b \div w) + (b % w) /\ b \div w \in Int /\ b % w \in Int
    BY <1>0
  <1>3. SUFFICES ASSUME a % w = b % w
                 PROVE  FALSE
    BY DEF Slot, w
  <1> DEFINE d == (b \div w) - (a \div w)
  <1>4. d \in Int /\ b - a = w * d
    BY <1>0, <1>1, <1>2, <1>3
  <1> HIDE DEF d
  <1>5. 0 < b - a /\ b - a < w
    BY <1>0 DEF w
  <1>6. CASE d <= 0
    <2>1. w * d <= 0
      BY <1>0, <1>4, <1>6
    <2> QED
      BY <1>4, <1>5, <2>1
  <1>7. CASE d >= 1
    <2>1. w * d >= w
      BY <1>0, <1>4, <1>7
    <2> QED
      BY <1>0, <1>4, <1>5, <2>1
  <1> QED
    BY <1>4, <1>6, <1>7

\* A read that is due has something left to read.
LEMMA UnitsToRead ==
    ASSUME NEW x \in Nat, NEW units \in Nat \ {0}, NEW k \in Nat,
           k < (x + units - 1) \div units
    PROVE  k * units < x
  <1> DEFINE d == (x + units - 1) \div units
  <1>1. d \in Int /\ units * d <= x + units - 1
    BY SMT
  <1> HIDE DEF d
  <1>2. d >= k + 1
    BY <1>1 DEF d
  <1>3. units * d >= units * (k + 1)
    BY <1>1, <1>2
  <1>4. units * (k + 1) = k * units + units
    OBVIOUS
  <1>5. k * units \in Int
    OBVIOUS
  <1> QED
    BY <1>1, <1>3, <1>4, <1>5

------------------------------------------------------------------------------
(* Reading blocks into the window *)

\* Elements of a sequence.
LEMMA SeqElements ==
    ASSUME NEW S, NEW q \in Seq(S), NEW i \in DOMAIN q
    PROVE  q[i] \in S
  OBVIOUS

\* The types of a download's fields.
LEMMA DownloadFields ==
    ASSUME NEW c \in Downloads
    PROVE  /\ c.downloadName \in FileOrNone /\ c.download \in BOOLEAN
           /\ c.downloadSize \in Nat /\ c.downloadCount \in Nat
           /\ c.downloadClientBlock \in Nat /\ c.downloadCurrentBlock \in Nat
           /\ c.downloadXmitBlock \in Nat /\ c.downloadEOF \in BOOLEAN
           /\ c.downloadSendAge \in Nat /\ c.dropped \in BOOLEAN
  BY DEF Downloads

\* Where the block read after k others begins, and how long it is.
ReadFrom(c, units, k) == c.downloadCount + k * units
ReadSize(c, units, k) == Least(units, c.downloadSize - ReadFrom(c, units, k))

\* A read ends a block further on, or at the end of the file.
LEMMA LeastPiece ==
    ASSUME NEW total \in Nat, NEW from \in Nat, NEW y \in Nat, NEW units \in Nat \ {0},
           from + y < total
    PROVE  /\ from + y \in Nat
           /\ Least(units, total - (from + y)) \in Nat \ {0}
           /\ (from + y) + Least(units, total - (from + y)) = Least(total, from + (y + units))
           /\ from + (y + units) < total =>
                (from + y) + Least(units, total - (from + y)) = from + (y + units)
  BY DEF Least

\* Reads of one frame begin where the one before has ended.
LEMMA ReadsFollow ==
    ASSUME NEW c \in Downloads, c.downloadCount <= c.downloadSize,
           NEW units \in Nat \ {0}, NEW reads \in 0..BlocksToRead(c, units),
           NEW k \in 0..(reads - 1)
    PROVE  /\ ReadFrom(c, units, k) \in Nat /\ ReadSize(c, units, k) \in Nat \ {0}
           /\ ReadFrom(c, units, k) + ReadSize(c, units, k)
                = Least(c.downloadSize, c.downloadCount + (k + 1) * units)
           /\ k + 1 < reads => ReadFrom(c, units, k) + ReadSize(c, units, k)
                                = ReadFrom(c, units, k + 1)
  <1> DEFINE x == c.downloadSize - c.downloadCount
             d == (x + units - 1) \div units
  <1>1. c.downloadSize \in Nat /\ c.downloadCount \in Nat /\ x \in Nat
    BY DownloadFields
  <1>2. d \in Int /\ d \in Nat
    BY <1>1
  <1>3. MAX_DOWNLOAD_WINDOW \in Nat /\ c.downloadCurrentBlock \in Nat
        /\ c.downloadClientBlock \in Nat
    BY DownloadFields, DownloadAssumption
  <1>4. reads \in Int /\ reads <= d
    <2>1. reads \in 0..Least(Room(c), d)
      BY DEF BlocksToRead
    <2>2. Room(c) \in Int
      BY <1>3 DEF Room
    <2> HIDE DEF d
    <2> QED
      BY <1>2, <2>1, <2>2 DEF Least
  <1>5. k \in Nat /\ k < reads
    BY <1>4
  <1>6. k * units < x
    <2>1. k < d
      BY <1>2, <1>4, <1>5
    <2> QED
      BY <1>1, <1>5, <2>1, UnitsToRead
  <1>7. k + 1 < reads => (k + 1) * units < x
    <2>1. k + 1 < reads => k + 1 < d
      BY <1>2, <1>4, <1>5
    <2> QED
      BY <1>1, <1>5, <2>1, UnitsToRead
  <1>8. /\ k * units \in Nat /\ (k + 1) * units = k * units + units
    BY <1>5
  <1> DEFINE y == k * units
             z == (k + 1) * units
  <1> HIDE DEF y, z, d
  <1>9. /\ y \in Nat /\ z = y + units /\ y < x
        /\ k + 1 < reads => z < x
    BY <1>6, <1>7, <1>8 DEF y, z
  <1>10. /\ ReadFrom(c, units, k) = c.downloadCount + y
         /\ ReadFrom(c, units, k + 1) = c.downloadCount + z
         /\ c.downloadCount + (k + 1) * units = c.downloadCount + z
    BY DEF ReadFrom, y, z
  <1>11. ReadSize(c, units, k) = Least(units, c.downloadSize - (c.downloadCount + y))
    BY <1>10, Zenon DEF ReadSize
  <1>12. /\ c.downloadCount + y \in Nat
         /\ Least(units, c.downloadSize - (c.downloadCount + y)) \in Nat \ {0}
         /\ (c.downloadCount + y) + Least(units, c.downloadSize - (c.downloadCount + y))
                = Least(c.downloadSize, c.downloadCount + z)
         /\ k + 1 < reads =>
                (c.downloadCount + y) + Least(units, c.downloadSize - (c.downloadCount + y))
                    = c.downloadCount + z
    <2>1. c.downloadCount + y < c.downloadSize
      BY <1>1, <1>9
    <2>2. k + 1 < reads => c.downloadCount + z < c.downloadSize
      BY <1>1, <1>4, <1>5, <1>9
    <2> QED
      BY <1>1, <1>9, <2>1, <2>2, LeastPiece
  <1> QED
    BY <1>10, <1>11, <1>12, Zenon

\* They fill no more than the window, and there are none at the end of the file.
LEMMA ReadsFit ==
    ASSUME NEW c \in Downloads, c.downloadCount <= c.downloadSize,
           c.downloadClientBlock <= c.downloadCurrentBlock,
           c.downloadCurrentBlock - c.downloadClientBlock <= MAX_DOWNLOAD_WINDOW,
           NEW units \in Nat \ {0}, NEW reads \in 0..BlocksToRead(c, units)
    PROVE  /\ reads \in Nat
           /\ c.downloadCurrentBlock + reads - c.downloadClientBlock
                <= MAX_DOWNLOAD_WINDOW
           /\ c.downloadCount = c.downloadSize => BlocksToRead(c, units) = 0
  <1> DEFINE x == c.downloadSize - c.downloadCount
             d == (x + units - 1) \div units
  <1>1. x \in Nat /\ d \in Nat
    BY DownloadFields
  <1>2. x = 0 => d = 0
    BY <1>1
  <1>3. /\ MAX_DOWNLOAD_WINDOW \in Nat /\ c.downloadCurrentBlock \in Nat
        /\ c.downloadClientBlock \in Nat
    BY DownloadFields, DownloadAssumption
  <1>4. Room(c) \in Nat
    BY <1>3 DEF Room
  <1>5. BlocksToRead(c, units) = Least(Room(c), d)
    BY DEF BlocksToRead
  <1>6. c.downloadCount = c.downloadSize => x = 0
    BY DownloadFields
  <1> HIDE DEF x, d
  <1>7. reads \in Nat /\ reads <= Room(c)
    BY <1>1, <1>4, <1>5 DEF Least
  <1>8. c.downloadCount = c.downloadSize => BlocksToRead(c, units) = 0
    BY <1>2, <1>4, <1>5, <1>6 DEF Least
  <1> QED
    BY <1>3, <1>7, <1>8 DEF Room

\* They go into buffers of their own, and leave those that are still needed.
LEMMA ReadBlocks ==
    ASSUME NEW c \in Downloads, c.downloadCount <= c.downloadSize,
           c.downloadClientBlock <= c.downloadCurrentBlock,
           c.downloadCurrentBlock - c.downloadClientBlock <= MAX_DOWNLOAD_WINDOW,
           NEW units \in Nat \ {0}, NEW reads \in 0..BlocksToRead(c, units),
           blocks \in [Window -> Piece]
    PROVE  LET bs == BlocksAfterReads(c, units, reads)
           IN  /\ bs \in [Window -> Piece]
               /\ \A k \in 0..(reads - 1) :
                    BlockIn(bs, c.downloadCurrentBlock + k)
                        = [file |-> c.downloadName, from |-> ReadFrom(c, units, k),
                           size |-> ReadSize(c, units, k)]
               /\ \A b \in c.downloadClientBlock..(c.downloadCurrentBlock - 1) :
                    BlockIn(bs, b) = BlockIn(blocks, b)
  <1> DEFINE bs == BlocksAfterReads(c, units, reads)
             n == c.downloadCurrentBlock
             fresh(s) == {k \in 0..(reads - 1) : Slot(n + k) = s}
             read(k) == [file |-> c.downloadName, from |-> ReadFrom(c, units, k),
                         size |-> ReadSize(c, units, k)]
             latest(s) == CHOOSE k \in fresh(s) : \A l \in fresh(s) : l <= k
  <1>1. bs = [s \in Window |-> IF fresh(s) = {} THEN blocks[s] ELSE read(latest(s))]
    BY Zenon DEF BlocksAfterReads, ReadFrom, ReadSize
  <1>2. /\ reads \in Nat /\ n + reads - c.downloadClientBlock <= MAX_DOWNLOAD_WINDOW
        /\ n \in Nat /\ c.downloadClientBlock \in Nat /\ MAX_DOWNLOAD_WINDOW \in Nat
    BY ReadsFit, DownloadFields, DownloadAssumption
  <1>3. ASSUME NEW k \in 0..(reads - 1)
        PROVE  /\ Slot(n + k) \in Window /\ fresh(Slot(n + k)) = {k}
               /\ latest(Slot(n + k)) = k
    <2>1. n + k \in Nat /\ k \in Nat
      BY <1>2
    <2>2. Slot(n + k) \in Window
      BY <2>1, SlotIsInWindow
    <2>3. ASSUME NEW l \in 0..(reads - 1), Slot(n + l) = Slot(n + k)
          PROVE  l = k
      <3>1. l \in Nat /\ n + l \in Nat
        BY <1>2
      <3>2. CASE l < k
        <4>1. n + l < n + k /\ n + k < n + l + MAX_DOWNLOAD_WINDOW
          BY <1>2, <2>1, <3>1, <3>2
        <4> QED
          BY <2>1, <2>3, <3>1, <4>1, SlotsDiffer
      <3>3. CASE k < l
        <4>1. n + k < n + l /\ n + l < n + k + MAX_DOWNLOAD_WINDOW
          BY <1>2, <2>1, <3>1, <3>3
        <4> QED
          BY <2>1, <2>3, <3>1, <4>1, SlotsDiffer
      <3> QED
        BY <2>1, <3>1, <3>2, <3>3
    <2>4. fresh(Slot(n + k)) = {k}
      BY <2>3
    <2>5. latest(Slot(n + k)) = k
      <3> HIDE DEF fresh
      <3>1. \A l \in {k} : l <= k
        BY <2>1
      <3> QED
        BY <2>4, <3>1
    <2> QED
      BY <2>2, <2>4, <2>5
  <1>4. ASSUME NEW k \in 0..(reads - 1)
        PROVE  read(k) \in Piece
    BY <1>4, ReadsFollow, DownloadFields DEF Piece
  <1>5. ASSUME NEW b \in c.downloadClientBlock..(n - 1)
        PROVE  Slot(b) \in Window /\ fresh(Slot(b)) = {}
    <2>1. b \in Nat
      BY <1>2
    <2>2. ASSUME NEW k \in 0..(reads - 1)
          PROVE  Slot(n + k) # Slot(b)
      <3>1. n + k \in Nat /\ b < n + k /\ n + k < b + MAX_DOWNLOAD_WINDOW
        BY <1>2, <2>1
      <3> QED
        BY <2>1, <3>1, SlotsDiffer
    <2> QED
      BY <2>1, <2>2, SlotIsInWindow
  <1>6. bs \in [Window -> Piece]
    <2>1. ASSUME NEW s \in Window, fresh(s) # {}
          PROVE  read(latest(s)) \in Piece
      <3>1. PICK k \in 0..(reads - 1) : Slot(n + k) = s
        BY <2>1
      <3>2. latest(s) = k
        BY <1>3, <3>1
      <3> HIDE DEF latest, read
      <3> QED
        BY <1>4, <3>2
    <2> HIDE DEF fresh, latest, read, bs
    <2> QED
      BY <1>1, <2>1
  <1>7. ASSUME NEW k \in 0..(reads - 1)
        PROVE  BlockIn(bs, n + k) = read(k)
    <2>1. Slot(n + k) \in Window /\ fresh(Slot(n + k)) # {} /\ latest(Slot(n + k)) = k
      BY <1>3
    <2> HIDE DEF fresh, latest, read, bs
    <2> QED
      BY <1>1, <2>1 DEF BlockIn
  <1>8. ASSUME NEW b \in c.downloadClientBlock..(n - 1)
        PROVE  BlockIn(bs, b) = BlockIn(blocks, b)
    <2>1. Slot(b) \in Window /\ fresh(Slot(b)) = {}
      BY <1>5
    <2> HIDE DEF fresh, latest, read, bs
    <2> QED
      BY <1>1, <2>1 DEF BlockIn
  <1> HIDE DEF bs
  <1> QED
    BY <1>6, <1>7, <1>8 DEF bs, read

\* What the reads of a frame do to the download.
LEMMA AfterReadsFields ==
    ASSUME NEW c \in Downloads, NEW units \in Nat, NEW reads \in Nat, NEW fails \in BOOLEAN
    PROVE  LET c2 == AfterReads(c, units, reads, fails)
           IN  /\ c2 \in Downloads
               /\ c2.downloadName = c.downloadName /\ c2.download = c.download
               /\ c2.downloadSize = c.downloadSize
               /\ c2.downloadCount = IF fails THEN c.downloadSize
                        ELSE Least(c.downloadSize, c.downloadCount + reads * units)
               /\ c2.downloadClientBlock = c.downloadClientBlock
               /\ c2.downloadCurrentBlock = c.downloadCurrentBlock + reads
               /\ c2.downloadXmitBlock = c.downloadXmitBlock
               /\ c2.downloadEOF = c.downloadEOF
               /\ c2.downloadSendAge = c.downloadSendAge /\ c2.dropped = c.dropped
  <1> DEFINE total == IF fails THEN c.downloadSize
                      ELSE Least(c.downloadSize, c.downloadCount + reads * units)
             current == c.downloadCurrentBlock + reads
  <1>1. total \in Nat /\ current \in Nat
    <2>1. reads * units \in Nat
      OBVIOUS
    <2> QED
      BY <2>1, DownloadFields DEF Least
  <1>2. AfterReads(c, units, reads, fails)
            = [c EXCEPT !.downloadCurrentBlock = current, !.downloadCount = total]
    BY Zenon DEF AfterReads
  <1> HIDE DEF total, current
  <1>3. LET c2 == [c EXCEPT !.downloadCurrentBlock = current, !.downloadCount = total]
        IN  /\ c2 \in Downloads
            /\ c2.downloadName = c.downloadName /\ c2.download = c.download
            /\ c2.downloadSize = c.downloadSize /\ c2.downloadCount = total
            /\ c2.downloadClientBlock = c.downloadClientBlock
            /\ c2.downloadCurrentBlock = current
            /\ c2.downloadXmitBlock = c.downloadXmitBlock
            /\ c2.downloadEOF = c.downloadEOF
            /\ c2.downloadSendAge = c.downloadSendAge /\ c2.dropped = c.dropped
    BY <1>1 DEF Downloads
  <1> QED
    BY <1>2, <1>3, Zenon DEF total, current

\* What an open download and a window of it have to do with each other does not
\* change when the window is read on and the old blocks stay.
LEMMA ReadKeeps ==
    ASSUME DownloadTypeOK,
           NEW c \in Downloads, NEW failed, NEW packets,
           packets \in Seq([block: Int, data: Piece]),
           Under(c, blocks, failed, packets),
           NEW units \in Nat \ {0}, NEW reads \in 0..BlocksToRead(c, units),
           NEW failed2,
           c.downloadName \in failed2
                <=> c.downloadName \in failed \/ reads < BlocksToRead(c, units)
    PROVE  LET c2 == AfterReads(c, units, reads, reads < BlocksToRead(c, units))
               bs == BlocksAfterReads(c, units, reads)
           IN  c2 \in Downloads /\ bs \in [Window -> Piece] /\ Under(c2, bs, failed2, packets)
  <1> DEFINE fails == reads < BlocksToRead(c, units)
             c2 == AfterReads(c, units, reads, fails)
             bs == BlocksAfterReads(c, units, reads)
             n == c.downloadCurrentBlock
             m == c.downloadClientBlock
  <1>1. /\ FileOK(c, failed) /\ CountersOK(c) /\ WindowOK(c, blocks, failed)
        /\ PacketsOK(c, blocks, packets) /\ CommandsOK(c, toServer)
        /\ Prefix(c.downloadName, player.got)
    BY Zenon DEF Under
  <1>2. /\ c.downloadName \in FileOrNone
        /\ c.downloadSize \in Nat /\ c.downloadCount \in Nat
        /\ m \in Nat /\ n \in Nat
        /\ c.downloadXmitBlock \in Nat /\ c.downloadEOF \in BOOLEAN
    BY DownloadFields
  <1>3. /\ player.block \in Nat /\ player.file \in FileOrNone
        /\ blocks \in [Window -> Piece]
    BY DEF DownloadTypeOK
  <1>4. /\ c.downloadCount <= c.downloadSize
        /\ c.downloadEOF \/ c.downloadName \in failed => c.downloadCount = c.downloadSize
    BY <1>1, Zenon DEF FileOK
  <1>5. /\ m <= player.block /\ player.block <= n /\ n - m <= MAX_DOWNLOAD_WINDOW
        /\ m <= DataBlocks(c)
    BY <1>1, Zenon DEF CountersOK
  <1>6. m <= n
    BY <1>2, <1>3, <1>5
  <1>7. /\ reads \in Nat /\ n + reads - m <= MAX_DOWNLOAD_WINDOW
        /\ c.downloadCount = c.downloadSize => reads = 0 /\ ~fails
    <2>1. /\ reads \in Nat /\ n + reads - m <= MAX_DOWNLOAD_WINDOW
          /\ c.downloadCount = c.downloadSize => BlocksToRead(c, units) = 0
      BY <1>4, <1>5, <1>6, ReadsFit
    <2> QED
      BY <2>1
  <1>8. /\ bs \in [Window -> Piece]
        /\ \A k \in 0..(reads - 1) :
             BlockIn(bs, n + k) = [file |-> c.downloadName, from |-> ReadFrom(c, units, k),
                                   size |-> ReadSize(c, units, k)]
        /\ \A b \in m..(n - 1) : BlockIn(bs, b) = BlockIn(blocks, b)
    BY <1>3, <1>4, <1>5, <1>6, ReadBlocks
  <1>9. fails \in BOOLEAN
    OBVIOUS
  <1>10. /\ c2 \in Downloads
         /\ c2.downloadName = c.downloadName /\ c2.download = c.download
         /\ c2.downloadSize = c.downloadSize
         /\ c2.downloadCount = IF fails THEN c.downloadSize
                  ELSE Least(c.downloadSize, c.downloadCount + reads * units)
         /\ c2.downloadClientBlock = m /\ c2.downloadCurrentBlock = n + reads
         /\ c2.downloadXmitBlock = c.downloadXmitBlock
         /\ c2.downloadEOF = c.downloadEOF /\ c2.dropped = c.dropped
    <2> HIDE DEF fails
    <2> QED
      BY <1>7, <1>9, AfterReadsFields
  <1>11. reads * units \in Nat /\ (reads = 0 => reads * units = 0)
    BY <1>7
  <1>12. /\ c2.downloadCount \in Nat /\ c2.downloadCount <= c.downloadSize
         /\ c.downloadCount = c.downloadSize => c2.downloadCount = c.downloadSize
         /\ fails => c2.downloadCount = c.downloadSize
         /\ ~fails => c2.downloadCount
                    = Least(c.downloadSize, c.downloadCount + reads * units)
    <2> DEFINE more == reads * units
    <2>1. c2.downloadCount = IF fails THEN c.downloadSize
                             ELSE Least(c.downloadSize, c.downloadCount + more)
      BY <1>10, Zenon
    <2>2. more \in Nat
      BY <1>11
    <2>3. ~fails => c2.downloadCount
                    = Least(c.downloadSize, c.downloadCount + reads * units)
      BY <1>10, Zenon
    <2> HIDE DEF fails, c2, more
    <2> QED
      BY <1>2, <1>4, <1>9, <2>1, <2>2, <2>3 DEF Least
  <1>13. FileOK(c2, failed2)
    <2> HIDE DEF fails, c2
    <2>1. c.downloadEOF \/ c.downloadName \in failed2 => c2.downloadCount = c.downloadSize
      BY <1>4, <1>12, Zenon DEF fails
    <2> QED
      BY <1>1, <1>10, <1>12, <2>1, Zenon DEF FileOK
  <1>14. DataBlocks(c2) = DataBlocks(c) + reads
    <2> HIDE DEF c2
    <2> QED
      BY <1>2, <1>7, <1>10 DEF DataBlocks
  <1>15. DataBlocks(c) \in Int /\ DataBlocks(c) <= n
    BY <1>2 DEF DataBlocks
  <1>16. CountersOK(c2)
    <2> HIDE DEF c2, fails, bs
    <2>1. /\ c.downloadXmitBlock <= n
          /\ player.file = c.downloadName => player.block <= DataBlocks(c)
          /\ player.file # c.downloadName =>
                player.file = NoFile /\ c.downloadEOF /\ player.block = n
      BY <1>1, Zenon DEF CountersOK
    <2>2. player.file # c.downloadName => player.block = n + reads
      BY <1>2, <1>4, <1>7, <2>1
    <2>3. /\ player.block <= n + reads
          /\ c.downloadXmitBlock <= n + reads
          /\ m <= DataBlocks(c) + reads
          /\ player.file = c.downloadName => player.block <= DataBlocks(c) + reads
      <3>1. reads \in Nat
        BY <1>7, Zenon
      <3>2. /\ m \in Int /\ n \in Int /\ player.block \in Int /\ DataBlocks(c) \in Int
            /\ c.downloadXmitBlock \in Int
        BY <1>2, <1>3, <1>15
      <3>3. player.block <= n /\ m <= DataBlocks(c)
        BY <1>5, Zenon
      <3> HIDE DEF n, m
      <3> QED
        BY <2>1, <3>1, <3>2, <3>3
    <2>4. /\ c2.downloadClientBlock <= player.block
          /\ player.block <= c2.downloadCurrentBlock
          /\ c2.downloadCurrentBlock - c2.downloadClientBlock <= MAX_DOWNLOAD_WINDOW
          /\ c2.downloadXmitBlock <= c2.downloadCurrentBlock
      <3>1. /\ c2.downloadClientBlock = m /\ c2.downloadCurrentBlock = n + reads
            /\ c2.downloadXmitBlock = c.downloadXmitBlock
            /\ n + reads - m <= MAX_DOWNLOAD_WINDOW
        BY <1>7, <1>10, Zenon
      <3> QED
        BY <1>2, <1>3, <1>5, <1>7, <2>3, <3>1
    <2>5. /\ c2.downloadClientBlock <= DataBlocks(c2)
          /\ player.file = c2.downloadName => player.block <= DataBlocks(c2)
      BY <1>10, <1>14, <2>3
    <2>6. player.file # c2.downloadName =>
                /\ player.file = NoFile /\ c2.downloadEOF
                /\ player.block = c2.downloadCurrentBlock
      BY <1>10, <2>1, <2>2
    <2> QED
      BY <2>4, <2>5, <2>6, Zenon DEF CountersOK
  <1>17. PacketsOK(c2, bs, packets)
    <2> HIDE DEF c2, fails, bs
    <2>1. SUFFICES ASSUME NEW i \in DOMAIN packets
                   PROVE  /\ packets[i].block >= 0
                          /\ packets[i].block >= player.block =>
                                /\ packets[i].block < c2.downloadCurrentBlock
                                /\ packets[i].data = BlockIn(bs, packets[i].block)
      BY Zenon DEF PacketsOK
    <2>2. packets[i] \in [block: Int, data: Piece]
      BY SeqElements, Zenon
    <2>3. packets[i].block \in Int
      BY <2>2
    <2>4. /\ packets[i].block >= 0
          /\ packets[i].block >= player.block =>
                /\ packets[i].block < n
                /\ packets[i].data = BlockIn(blocks, packets[i].block)
      BY <1>1, Zenon DEF PacketsOK
    <2>5. ASSUME packets[i].block >= player.block
          PROVE  /\ packets[i].block < c2.downloadCurrentBlock
                 /\ packets[i].data = BlockIn(bs, packets[i].block)
      <3>1. packets[i].block \in m..(n - 1)
        <4>1. /\ m \in Int /\ n \in Int /\ player.block \in Int /\ m <= player.block
              /\ packets[i].block < n
          BY <1>2, <1>3, <1>5, <2>4, <2>5
        <4> HIDE DEF n, m
        <4> QED
          BY <2>3, <2>5, <4>1
      <3>2. packets[i].block < c2.downloadCurrentBlock
        BY <1>2, <1>7, <1>10, <2>3, <2>4, <2>5
      <3> QED
        BY <1>8, <2>4, <2>5, <3>1, <3>2, Zenon
    <2> QED
      BY <2>4, <2>5, Zenon
  <1>18. CommandsOK(c2, toServer)
    <2> HIDE DEF c2, fails, bs
    <2>1. c.downloadEOF => c2.downloadCurrentBlock = n
      BY <1>2, <1>4, <1>7, <1>10
    <2> QED
      BY <1>1, <1>10, <2>1, Zenon DEF CommandsOK
  <1>19. WindowOK(c2, bs, failed2)
    <2> DEFINE d == DataBlocks(c)
               read(k) == [file |-> c.downloadName, from |-> ReadFrom(c, units, k),
                           size |-> ReadSize(c, units, k)]
    <2> HIDE DEF c2, fails, bs, d, read
    <2>1. /\ \A b \in m..(d - 1) : BlockIn(blocks, b).size > 0
          /\ \A b \in player.block..(d - 1) :
                /\ BlockIn(blocks, b).file = c.downloadName
                /\ BlockIn(blocks, b).from = StartOf(blocks, b)
          /\ player.file = c.downloadName /\ c.downloadName \notin failed =>
                StartOf(blocks, d) = c.downloadCount
          /\ c.downloadEOF => BlockIn(blocks, n - 1).size = 0
      BY <1>1, Zenon DEF WindowOK, d
    <2>2. \A b \in m..(n - 1) : BlockIn(bs, b) = BlockIn(blocks, b)
      BY <1>8, Zenon
    <2>3. ASSUME NEW b \in player.block..n
          PROVE  StartOf(bs, b) = StartOf(blocks, b)
      <3>1. b # player.block => b - 1 \in m..(n - 1)
        BY <1>2, <1>3, <1>5
      <3> QED
        BY <2>2, <3>1, Zenon DEF StartOf
    <2>4. d \in Int /\ d <= n /\ DataBlocks(c2) = d + reads
      BY <1>14, <1>15, Zenon DEF d
    <2>5. ASSUME reads = 0
          PROVE  WindowOK(c2, bs, failed2)
      <3>1. DataBlocks(c2) = d /\ c2.downloadCurrentBlock = n
        BY <1>2, <1>10, <2>4, <2>5
      <3>2. \A b \in m..(d - 1) : BlockIn(bs, b).size > 0
        <4>1. \A b \in m..(d - 1) : b \in m..(n - 1)
          BY <1>2, <2>4
        <4> QED
          BY <2>1, <2>2, <4>1, Zenon
      <3>3. \A b \in player.block..(d - 1) :
                /\ BlockIn(bs, b).file = c.downloadName
                /\ BlockIn(bs, b).from = StartOf(bs, b)
        <4>1. \A b \in player.block..(d - 1) : b \in m..(n - 1) /\ b \in player.block..n
          BY <1>2, <1>3, <1>5, <2>4
        <4> QED
          BY <2>1, <2>2, <2>3, <4>1, Zenon
      <3>4. ASSUME player.file = c.downloadName, c.downloadName \notin failed2
            PROVE  StartOf(bs, d) = c2.downloadCount
        <4>1. c.downloadName \notin failed /\ ~fails
          BY <3>4, Zenon DEF fails
        <4>2. c2.downloadCount = c.downloadCount
          <5>1. c2.downloadCount = Least(c.downloadSize, c.downloadCount + 0)
            BY <1>11, <1>12, <2>5, <4>1, Zenon
          <5> QED
            BY <1>2, <1>4, <5>1 DEF Least
        <4>3. d \in player.block..n
          BY <1>1, <1>2, <1>3, <2>4, <3>4 DEF CountersOK, d
        <4> QED
          BY <2>1, <2>3, <3>4, <4>1, <4>2, <4>3, Zenon
      <3>5. c.downloadEOF => BlockIn(bs, n - 1).size = 0
        <4>1. c.downloadEOF => n - 1 \in m..(n - 1)
          BY <1>2, <1>5, <2>4 DEF DataBlocks
        <4> QED
          BY <2>1, <2>2, <4>1, Zenon
      <3> QED
        BY <1>10, <3>1, <3>2, <3>3, <3>4, <3>5, Zenon DEF WindowOK
    <2>6. ASSUME reads # 0
          PROVE  WindowOK(c2, bs, failed2)
      <3>1. ~c.downloadEOF /\ c.downloadName \notin failed
        BY <1>4, <1>7, <2>6, Zenon
      <3>2. player.file = c.downloadName
        BY <1>1, <3>1, Zenon DEF CountersOK
      <3>3. d = n /\ DataBlocks(c2) = n + reads
        BY <1>2, <2>4, <3>1 DEF DataBlocks, d
      <3>4. \A k \in 0..(reads - 1) : BlockIn(bs, n + k) = read(k)
        BY <1>8, Zenon DEF read
      <3>5. \A k \in 0..(reads - 1) :
                /\ read(k).file = c.downloadName
                /\ read(k).from = ReadFrom(c, units, k)
                /\ read(k).size = ReadSize(c, units, k)
        BY DEF read
      <3>6. \A k \in 0..(reads - 1) :
                /\ ReadSize(c, units, k) > 0
                /\ ReadFrom(c, units, k) + ReadSize(c, units, k)
                        = Least(c.downloadSize, c.downloadCount + (k + 1) * units)
                /\ k + 1 < reads => ReadFrom(c, units, k) + ReadSize(c, units, k)
                                        = ReadFrom(c, units, k + 1)
        <4> SUFFICES ASSUME NEW k \in 0..(reads - 1)
                     PROVE  /\ ReadSize(c, units, k) > 0
                            /\ ReadFrom(c, units, k) + ReadSize(c, units, k)
                                = Least(c.downloadSize, c.downloadCount + (k + 1) * units)
                            /\ k + 1 < reads => ReadFrom(c, units, k) + ReadSize(c, units, k)
                                                    = ReadFrom(c, units, k + 1)
          OBVIOUS
        <4>1. /\ ReadSize(c, units, k) \in Nat \ {0}
              /\ ReadFrom(c, units, k) + ReadSize(c, units, k)
                    = Least(c.downloadSize, c.downloadCount + (k + 1) * units)
              /\ k + 1 < reads => ReadFrom(c, units, k) + ReadSize(c, units, k)
                                    = ReadFrom(c, units, k + 1)
          BY <1>4, ReadsFollow, Zenon
        <4>2. ReadSize(c, units, k) > 0
          BY <4>1
        <4> QED
          BY <4>1, <4>2, Zenon
      <3>7. \A b \in m..(n + reads - 1) : BlockIn(bs, b).size > 0
        <4> SUFFICES ASSUME NEW b \in m..(n + reads - 1)
                     PROVE  BlockIn(bs, b).size > 0
          OBVIOUS
        <4>1. CASE b < n
          <5>1. b \in m..(n - 1) /\ b \in m..(d - 1)
            BY <1>2, <1>7, <3>3, <4>1
          <5> QED
            BY <2>1, <2>2, <5>1, Zenon
        <4>2. CASE b >= n
          <5>1. PICK k \in 0..(reads - 1) : b = n + k
            <6>1. b - n \in 0..(reads - 1) /\ b = n + (b - n)
              BY <1>2, <1>7, <4>2
            <6> QED
              BY <6>1, Zenon
          <5> QED
            BY <3>4, <3>5, <3>6, <5>1, Zenon
        <4> QED
          BY <1>2, <1>7, <4>1, <4>2
      <3>8. ASSUME NEW k \in 0..(reads - 1)
            PROVE  StartOf(bs, n + k) = ReadFrom(c, units, k)
        <4>1. CASE k = 0
          <5>1. n + k = n /\ n \in player.block..n /\ k * units = 0
            BY <1>2, <1>3, <1>5, <4>1
          <5>2. StartOf(bs, n) = c.downloadCount
            BY <2>1, <2>3, <3>1, <3>2, <3>3, <5>1, Zenon
          <5>3. ReadFrom(c, units, k) = c.downloadCount
            BY <1>2, <5>1 DEF ReadFrom
          <5> QED
            BY <5>1, <5>2, <5>3, Zenon
        <4>2. CASE k # 0
          <5>1. /\ k - 1 \in 0..(reads - 1) /\ (k - 1) + 1 = k /\ (k - 1) + 1 < reads
                /\ n + k # player.block /\ (n + k) - 1 = n + (k - 1)
            BY <1>2, <1>3, <1>5, <1>7, <4>2
          <5>2. StartOf(bs, n + k) = EndOf(BlockIn(bs, n + (k - 1)))
            BY <5>1, Zenon DEF StartOf
          <5>3. EndOf(BlockIn(bs, n + (k - 1)))
                    = ReadFrom(c, units, k - 1) + ReadSize(c, units, k - 1)
            BY <3>4, <3>5, <5>1, Zenon DEF EndOf
          <5> QED
            BY <3>6, <5>1, <5>2, <5>3, Zenon
        <4> QED
          BY <4>1, <4>2
      <3>9. ASSUME NEW b \in player.block..(n + reads - 1)
            PROVE  /\ BlockIn(bs, b).file = c.downloadName
                   /\ BlockIn(bs, b).from = StartOf(bs, b)
        <4>1. CASE b < n
          <5>1. b \in m..(n - 1) /\ b \in player.block..(d - 1) /\ b \in player.block..n
            BY <1>2, <1>3, <1>5, <1>7, <3>3, <4>1
          <5> QED
            BY <2>1, <2>2, <2>3, <5>1, Zenon
        <4>2. CASE b >= n
          <5>1. PICK k \in 0..(reads - 1) : b = n + k
            <6>1. b - n \in 0..(reads - 1) /\ b = n + (b - n)
              BY <1>2, <1>3, <1>5, <1>7, <4>2
            <6> QED
              BY <6>1, Zenon
          <5> QED
            BY <3>4, <3>5, <3>8, <5>1, Zenon
        <4> QED
          BY <1>2, <1>3, <1>7, <4>1, <4>2
      <3>10. ASSUME c.downloadName \notin failed2
             PROVE  StartOf(bs, n + reads) = c2.downloadCount
        <4>1. ~fails
          BY <3>10, Zenon DEF fails
        <4>2. c2.downloadCount = Least(c.downloadSize, c.downloadCount + reads * units)
          BY <1>12, <4>1, Zenon
        <4>3. /\ reads - 1 \in 0..(reads - 1) /\ (reads - 1) + 1 = reads
              /\ (n + reads) - 1 = n + (reads - 1) /\ n + reads # player.block
          BY <1>2, <1>3, <1>5, <1>7, <2>6
        <4>4. StartOf(bs, n + reads) = EndOf(BlockIn(bs, n + (reads - 1)))
          BY <4>3, Zenon DEF StartOf
        <4>5. EndOf(BlockIn(bs, n + (reads - 1)))
                    = ReadFrom(c, units, reads - 1) + ReadSize(c, units, reads - 1)
          BY <3>4, <3>5, <4>3, Zenon DEF EndOf
        <4> QED
          BY <3>6, <4>2, <4>3, <4>4, <4>5, Zenon
      <3>11. c2.downloadClientBlock = m /\ c2.downloadName = c.downloadName /\ ~c2.downloadEOF
        BY <1>10, <3>1, Zenon
      <3>12. \A b \in c2.downloadClientBlock..(DataBlocks(c2) - 1) : BlockIn(bs, b).size > 0
        <4>1. \A b \in c2.downloadClientBlock..(DataBlocks(c2) - 1) : b \in m..(n + reads - 1)
          BY <1>2, <1>7, <3>3, <3>11
        <4> QED
          BY <3>7, <4>1, Zenon
      <3>13. \A b \in player.block..(DataBlocks(c2) - 1) :
                /\ BlockIn(bs, b).file = c2.downloadName
                /\ BlockIn(bs, b).from = StartOf(bs, b)
        <4>1. \A b \in player.block..(DataBlocks(c2) - 1) :
                    b \in player.block..(n + reads - 1)
          BY <1>2, <1>3, <1>7, <3>3
        <4> QED
          BY <3>9, <3>11, <4>1, Zenon
      <3>14. c2.downloadName \notin failed2 => StartOf(bs, DataBlocks(c2)) = c2.downloadCount
        BY <3>3, <3>10, <3>11, Zenon
      <3> QED
        BY <3>11, <3>12, <3>13, <3>14, Zenon DEF WindowOK
    <2> QED
      BY <2>5, <2>6, Zenon
  <1> HIDE DEF c2, fails, bs
  <1>20. Under(c2, bs, failed2, packets)
    BY <1>1, <1>10, <1>13, <1>16, <1>17, <1>18, <1>19, Zenon DEF Under
  <1> QED
    BY <1>8, <1>10, <1>20, Zenon DEF c2, bs, fails

------------------------------------------------------------------------------
(* The end of the file *)

\* What the block of size zero does to it.
LEMMA AfterEOFFields ==
    ASSUME NEW c \in Downloads, AddsEOF(c)
    PROVE  LET c2 == AfterEOF(c)
           IN  /\ c2 \in Downloads
               /\ c2.downloadName = c.downloadName /\ c2.download = c.download
               /\ c2.downloadSize = c.downloadSize
               /\ c2.downloadCount = c.downloadCount
               /\ c2.downloadClientBlock = c.downloadClientBlock
               /\ c2.downloadCurrentBlock = c.downloadCurrentBlock + 1
               /\ c2.downloadXmitBlock = c.downloadXmitBlock
               /\ c2.downloadEOF
               /\ c2.downloadSendAge = c.downloadSendAge /\ c2.dropped = c.dropped
  <1> DEFINE current == c.downloadCurrentBlock + 1
  <1>1. current \in Nat
    BY DownloadFields
  <1>2. AfterEOF(c) = [c EXCEPT !.downloadCurrentBlock = current, !.downloadEOF = TRUE]
    BY Zenon DEF AfterEOF
  <1> HIDE DEF current
  <1>3. ASSUME NEW e \in BOOLEAN
        PROVE LET c2 == [c EXCEPT !.downloadCurrentBlock = current, !.downloadEOF = e]
              IN  /\ c2 \in Downloads
                  /\ c2.downloadName = c.downloadName /\ c2.download = c.download
                  /\ c2.downloadSize = c.downloadSize
                  /\ c2.downloadCount = c.downloadCount
                  /\ c2.downloadClientBlock = c.downloadClientBlock
                  /\ c2.downloadCurrentBlock = current
                  /\ c2.downloadXmitBlock = c.downloadXmitBlock
                  /\ c2.downloadEOF = e
                  /\ c2.downloadSendAge = c.downloadSendAge /\ c2.dropped = c.dropped
    BY <1>1 DEF Downloads
  <1> QED
    BY <1>2, <1>3, Zenon DEF current

\* The end block goes where no block of the window is.
LEMMA EndBlock ==
    ASSUME NEW c \in Downloads, NEW bs \in [Window -> Piece], AddsEOF(c),
           c.downloadClientBlock <= c.downloadCurrentBlock
    PROVE  LET bs2 == BlocksAfterEOF(c, bs)
           IN  /\ bs2 \in [Window -> Piece]
               /\ BlockIn(bs2, c.downloadCurrentBlock).size = 0
               /\ \A b \in c.downloadClientBlock..(c.downloadCurrentBlock - 1) :
                        BlockIn(bs2, b) = BlockIn(bs, b)
  <1> DEFINE n == c.downloadCurrentBlock
             m == c.downloadClientBlock
             bs2 == BlocksAfterEOF(c, bs)
  <1>1. n \in Nat /\ m \in Nat /\ MAX_DOWNLOAD_WINDOW \in Nat
    BY DownloadFields, DownloadAssumption
  <1>2. n - m < MAX_DOWNLOAD_WINDOW
    BY <1>1 DEF AddsEOF, Room
  <1>3. Slot(n) \in Window
    BY <1>1, SlotIsInWindow
  <1>4. bs2 = [bs EXCEPT ![Slot(n)].size = 0]
    BY Zenon DEF BlocksAfterEOF
  <1>5. bs2 \in [Window -> Piece] /\ BlockIn(bs2, n).size = 0
    <2>1. bs[Slot(n)] \in Piece
      BY <1>3
    <2>2. [bs[Slot(n)] EXCEPT !.size = 0] \in Piece
          /\ [bs[Slot(n)] EXCEPT !.size = 0].size = 0
      BY <2>1 DEF Piece
    <2>3. bs2 = [bs EXCEPT ![Slot(n)] = [bs[Slot(n)] EXCEPT !.size = 0]]
      BY <1>4, Zenon
    <2> DEFINE new == [bs[Slot(n)] EXCEPT !.size = 0]
    <2> HIDE DEF new, bs2
    <2>4. bs2 = [bs EXCEPT ![Slot(n)] = new] /\ new \in Piece /\ new.size = 0
      BY <2>2, <2>3, Zenon DEF new
    <2>5. bs2 \in [Window -> Piece] /\ bs2[Slot(n)] = new
      BY <1>3, <2>4
    <2> QED
      BY <2>4, <2>5, Zenon DEF BlockIn
  <1>6. ASSUME NEW b \in m..(n - 1)
        PROVE  BlockIn(bs2, b) = BlockIn(bs, b)
    <2>1. b \in Nat /\ b < n /\ n < b + MAX_DOWNLOAD_WINDOW
      BY <1>1, <1>2
    <2>2. Slot(b) # Slot(n) /\ Slot(b) \in Window
      BY <1>1, <2>1, SlotsDiffer, SlotIsInWindow
    <2> HIDE DEF bs2
    <2> QED
      BY <1>4, <2>2, Zenon DEF BlockIn
  <1> HIDE DEF bs2
  <1> QED
    BY <1>5, <1>6, Zenon DEF bs2

\* The commands of a download carry block numbers.
LEMMA CommandFields ==
    ASSUME DownloadTypeOK, NEW c, CommandsOK(c, toServer), NEW i \in DOMAIN toServer
    PROVE  /\ toServer[i].arg \in Nat /\ toServer[i].cmd \in {"nextdl", "retransdl"}
           /\ Acknowledged(toServer[i]) \in Nat
           /\ toServer[i].arg <= Acknowledged(toServer[i])
  <1>1. toServer[i] \in [cmd: {"download"}, arg: File]
                        \cup [cmd: {"nextdl", "retransdl"}, arg: Nat]
    <2>1. toServer \in Seq([cmd: {"download"}, arg: File]
                           \cup [cmd: {"nextdl", "retransdl"}, arg: Nat])
      BY Zenon DEF DownloadTypeOK
    <2> QED
      BY <2>1, SeqElements, Zenon
  <1>2. toServer[i].cmd \in {"nextdl", "retransdl"}
    BY Zenon DEF CommandsOK
  <1>3. toServer[i] \notin [cmd: {"download"}, arg: File]
    BY <1>2
  <1>4. toServer[i].arg \in Nat
    BY <1>1, <1>3
  <1> QED
    BY <1>2, <1>4 DEF Acknowledged

\* The block of size zero follows the last one.
LEMMA EOFKeeps ==
    ASSUME DownloadTypeOK,
           NEW c \in Downloads, NEW bs \in [Window -> Piece], NEW failed, NEW packets,
           packets \in Seq([block: Int, data: Piece]),
           Under(c, bs, failed, packets)
    PROVE  /\ AfterEOF(c) \in Downloads
           /\ BlocksAfterEOF(c, bs) \in [Window -> Piece]
           /\ Under(AfterEOF(c), BlocksAfterEOF(c, bs), failed, packets)
  <1>1. CASE ~AddsEOF(c)
    <2>1. AfterEOF(c) = c /\ BlocksAfterEOF(c, bs) = bs
      BY <1>1, Zenon DEF AfterEOF, BlocksAfterEOF
    <2> QED
      BY <2>1, Zenon
  <1>2. CASE AddsEOF(c)
    <2> DEFINE c2 == AfterEOF(c)
               bs2 == BlocksAfterEOF(c, bs)
               n == c.downloadCurrentBlock
               m == c.downloadClientBlock
    <2>1. /\ FileOK(c, failed) /\ CountersOK(c) /\ WindowOK(c, bs, failed)
          /\ PacketsOK(c, bs, packets) /\ CommandsOK(c, toServer)
          /\ Prefix(c.downloadName, player.got)
      BY Zenon DEF Under
    <2>2. /\ c2 \in Downloads
          /\ c2.downloadName = c.downloadName /\ c2.download = c.download
          /\ c2.downloadSize = c.downloadSize /\ c2.downloadCount = c.downloadCount
          /\ c2.downloadClientBlock = m /\ c2.downloadCurrentBlock = n + 1
          /\ c2.downloadXmitBlock = c.downloadXmitBlock
          /\ c2.downloadEOF /\ c2.dropped = c.dropped
      BY <1>2, AfterEOFFields, Zenon
    <2>3. /\ n \in Nat /\ m \in Nat /\ c.downloadXmitBlock \in Nat
          /\ player.block \in Nat /\ MAX_DOWNLOAD_WINDOW \in Nat
      BY DownloadFields, DownloadAssumption DEF DownloadTypeOK
    <2>4. ~c.downloadEOF /\ c.downloadCount = c.downloadSize /\ n - m < MAX_DOWNLOAD_WINDOW
      BY <1>2, <2>3 DEF AddsEOF, Room
    <2>5. /\ DataBlocks(c) = n /\ player.file = c.downloadName
          /\ m <= player.block /\ player.block <= n /\ c.downloadXmitBlock <= n
      BY <2>1, <2>4, Zenon DEF DataBlocks, CountersOK
    <2>6. bs2 \in [Window -> Piece] /\ BlockIn(bs2, n).size = 0
      BY <1>2, <2>3, <2>5, EndBlock
    <2>7. \A b \in m..(n - 1) : BlockIn(bs2, b) = BlockIn(bs, b)
      <3>1. m <= n
        BY <2>3, <2>5
      <3> QED
        BY <1>2, <3>1, EndBlock, Zenon
    <2> HIDE DEF c2, bs2
    <2>8. DataBlocks(c2) = n
      BY <2>2, <2>3 DEF DataBlocks
    <2>9. FileOK(c2, failed)
      BY <2>1, <2>2, <2>4, Zenon DEF FileOK
    <2>10. CountersOK(c2)
      <3>1. /\ c2.downloadClientBlock <= player.block
            /\ player.block <= c2.downloadCurrentBlock
            /\ c2.downloadCurrentBlock - c2.downloadClientBlock <= MAX_DOWNLOAD_WINDOW
            /\ c2.downloadXmitBlock <= c2.downloadCurrentBlock
            /\ c2.downloadClientBlock <= DataBlocks(c2)
            /\ player.block <= DataBlocks(c2)
        BY <2>2, <2>3, <2>4, <2>5, <2>8
      <3> QED
        BY <2>2, <2>5, <3>1, Zenon DEF CountersOK
    <2>11. WindowOK(c2, bs2, failed)
      <3>1. /\ \A b \in m..(n - 1) : BlockIn(bs, b).size > 0
            /\ \A b \in player.block..(n - 1) :
                  /\ BlockIn(bs, b).file = c.downloadName
                  /\ BlockIn(bs, b).from = StartOf(bs, b)
            /\ c.downloadName \notin failed => StartOf(bs, n) = c.downloadCount
        BY <2>1, <2>5, Zenon DEF WindowOK
      <3>2. ASSUME NEW b \in player.block..n
            PROVE  StartOf(bs2, b) = StartOf(bs, b)
        <4>1. b # player.block => b - 1 \in m..(n - 1)
          BY <2>3, <2>5
        <4> QED
          BY <2>7, <4>1, Zenon DEF StartOf
      <3>3. /\ n \in player.block..n
            /\ \A b \in player.block..(n - 1) : b \in player.block..n /\ b \in m..(n - 1)
        BY <2>3, <2>5
      <3>4. \A b \in m..(n - 1) : BlockIn(bs2, b).size > 0
        BY <2>7, <3>1, Zenon
      <3>5. \A b \in player.block..(n - 1) :
                  /\ BlockIn(bs2, b).file = c.downloadName
                  /\ BlockIn(bs2, b).from = StartOf(bs2, b)
        BY <2>7, <3>1, <3>2, <3>3, Zenon
      <3>6. c.downloadName \notin failed => StartOf(bs2, n) = c.downloadCount
        BY <3>1, <3>2, <3>3, Zenon
      <3>7. c2.downloadCurrentBlock - 1 = n
        BY <2>2, <2>3
      <3> QED
        BY <2>2, <2>6, <2>8, <3>4, <3>5, <3>6, <3>7, Zenon DEF WindowOK
    <2>12. PacketsOK(c2, bs2, packets)
      <3>1. SUFFICES ASSUME NEW i \in DOMAIN packets
                     PROVE  /\ packets[i].block >= 0
                            /\ packets[i].block >= player.block =>
                                  /\ packets[i].block < c2.downloadCurrentBlock
                                  /\ packets[i].data = BlockIn(bs2, packets[i].block)
        BY Zenon DEF PacketsOK
      <3>2. packets[i] \in [block: Int, data: Piece]
        BY SeqElements, Zenon
      <3>3. packets[i].block \in Int
        BY <3>2
      <3>4. /\ packets[i].block >= 0
            /\ packets[i].block >= player.block =>
                  /\ packets[i].block < n
                  /\ packets[i].data = BlockIn(bs, packets[i].block)
        BY <2>1, Zenon DEF PacketsOK
      <3>5. ASSUME packets[i].block >= player.block
            PROVE  /\ packets[i].block < c2.downloadCurrentBlock
                   /\ packets[i].data = BlockIn(bs2, packets[i].block)
        <4>1. packets[i].block \in m..(n - 1) /\ packets[i].block < c2.downloadCurrentBlock
          BY <2>2, <2>3, <2>5, <3>3, <3>4, <3>5
        <4> QED
          BY <2>7, <3>4, <3>5, <4>1, Zenon
      <3> QED
        BY <3>4, <3>5, Zenon
    <2>13. CommandsOK(c2, toServer)
      <3>1. ASSUME NEW i \in DOMAIN toServer
            PROVE  toServer[i].arg < c2.downloadCurrentBlock
        <4>1. /\ toServer[i].arg \in Nat /\ Acknowledged(toServer[i]) \in Nat
              /\ toServer[i].arg <= Acknowledged(toServer[i])
          BY <2>1, CommandFields, Zenon
        <4>2. Acknowledged(toServer[i]) <= player.block
          BY <2>1, Zenon DEF CommandsOK
        <4> QED
          BY <2>2, <2>3, <2>5, <4>1, <4>2
      <3> QED
        BY <2>1, <2>2, <3>1, Zenon DEF CommandsOK
    <2>14. Under(c2, bs2, failed, packets)
      BY <2>1, <2>2, <2>9, <2>10, <2>11, <2>12, <2>13, Zenon DEF Under
    <2> QED
      BY <2>2, <2>6, <2>14, Zenon DEF c2, bs2
  <1> QED
    BY <1>1, <1>2

------------------------------------------------------------------------------
(* Opening a file, sending a block *)

\* Two states of a download that differ in what is to be sent next, and when.
AlikeButXmit(c, c2) ==
    /\ c2.downloadName = c.downloadName /\ c2.download = c.download
    /\ c2.downloadSize = c.downloadSize /\ c2.downloadCount = c.downloadCount
    /\ c2.downloadClientBlock = c.downloadClientBlock
    /\ c2.downloadCurrentBlock = c.downloadCurrentBlock
    /\ c2.downloadEOF = c.downloadEOF /\ c2.dropped = c.dropped

\* Which block is sent next says nothing about what the blocks are.
LEMMA XmitKeeps ==
    ASSUME NEW c, NEW c2, NEW bs, NEW failed, NEW packets,
           Under(c, bs, failed, packets), AlikeButXmit(c, c2),
           c2.downloadXmitBlock <= c.downloadCurrentBlock
    PROVE  Under(c2, bs, failed, packets)
  <1>1. /\ FileOK(c, failed) /\ CountersOK(c) /\ WindowOK(c, bs, failed)
        /\ PacketsOK(c, bs, packets) /\ CommandsOK(c, toServer)
        /\ Prefix(c.downloadName, player.got)
    BY Zenon DEF Under
  <1>2. DataBlocks(c2) = DataBlocks(c)
    BY Zenon DEF AlikeButXmit, DataBlocks
  <1>3. FileOK(c2, failed)
    BY <1>1, Zenon DEF AlikeButXmit, FileOK
  <1>4. CountersOK(c2)
    BY <1>1, <1>2, Zenon DEF AlikeButXmit, CountersOK
  <1>5. WindowOK(c2, bs, failed)
    BY <1>1, <1>2, Zenon DEF AlikeButXmit, WindowOK
  <1>6. PacketsOK(c2, bs, packets)
    BY <1>1, Zenon DEF AlikeButXmit, PacketsOK
  <1>7. CommandsOK(c2, toServer)
    BY <1>1, Zenon DEF AlikeButXmit, CommandsOK
  <1> QED
    BY <1>1, <1>3, <1>4, <1>5, <1>6, <1>7, Zenon DEF AlikeButXmit, Under

\* A packet has what the window holds under its number.
LEMMA SendKeeps ==
    ASSUME DownloadTypeOK,
           NEW c \in Downloads, NEW bs \in [Window -> Piece], NEW failed,
           NEW packets \in Seq([block: Int, data: Piece]),
           Under(c, bs, failed, packets), HasBlockToSend(c)
    PROVE  LET packet == Packet(XmitBlock(c), bs[Slot(XmitBlock(c))])
           IN  /\ AfterSend(c) \in Downloads
               /\ Append(packets, packet) \in Seq([block: Int, data: Piece])
               /\ Under(AfterSend(c), bs, failed, Append(packets, packet))
  <1> DEFINE block == XmitBlock(c)
             n == c.downloadCurrentBlock
             c2 == AfterSend(c)
             packet == Packet(block, bs[Slot(block)])
             next == block + 1
  <1>1. /\ n \in Nat /\ c.downloadClientBlock \in Nat /\ c.downloadXmitBlock \in Nat
        /\ player.block \in Nat
    BY DownloadFields DEF DownloadTypeOK
  <1>2. /\ c.downloadClientBlock <= player.block /\ player.block <= n
        /\ c.downloadXmitBlock <= n
    BY Zenon DEF Under, CountersOK
  <1>3. block \in Nat /\ block < n
    <2>1. /\ c.downloadClientBlock # n
          /\ c.downloadXmitBlock # n \/ Resends(c)
      BY Zenon DEF HasBlockToSend
    <2>2. CASE Resends(c)
      <3>1. block = c.downloadClientBlock
        BY <2>2, Zenon DEF XmitBlock
      <3> HIDE DEF block
      <3> QED
        BY <1>1, <1>2, <2>1, <3>1
    <2>3. CASE ~Resends(c)
      <3>1. block = c.downloadXmitBlock
        BY <2>3, Zenon DEF XmitBlock
      <3> HIDE DEF block
      <3> QED
        BY <1>1, <1>2, <2>1, <2>3, <3>1
    <2> QED
      BY <2>2, <2>3
  <1> HIDE DEF block
  <1>4. c2 \in Downloads /\ AlikeButXmit(c, c2) /\ c2.downloadXmitBlock <= n
    <2>1. next \in Nat /\ next <= n
      BY <1>1, <1>3
    <2>2. c2 = [c EXCEPT !.downloadXmitBlock = next, !.downloadSendAge = 0]
      BY Zenon DEF AfterSend, block
    <2> HIDE DEF next, c2
    <2>3. c2.downloadXmitBlock = next /\ c2 \in Downloads /\ AlikeButXmit(c, c2)
      BY <2>1, <2>2 DEF Downloads, AlikeButXmit
    <2> QED
      BY <2>1, <2>3, Zenon
  <1>5. Slot(block) \in Window
    BY <1>3, SlotIsInWindow
  <1>6. /\ packet \in [block: Int, data: Piece]
        /\ packet.block = block /\ packet.data = BlockIn(bs, block)
    <2>1. bs[Slot(block)] \in Piece
      BY <1>5
    <2> QED
      BY <1>3, <2>1 DEF Packet, BlockIn
  <1> HIDE DEF packet
  <1>7. Append(packets, packet) \in Seq([block: Int, data: Piece])
    BY <1>6
  <1>8. PacketsOK(c, bs, Append(packets, packet))
    <2>1. PacketsOK(c, bs, packets)
      BY Zenon DEF Under
    <2>2. SUFFICES ASSUME NEW i \in DOMAIN Append(packets, packet)
                   PROVE  /\ Append(packets, packet)[i].block >= 0
                          /\ Append(packets, packet)[i].block >= player.block =>
                                /\ Append(packets, packet)[i].block < n
                                /\ Append(packets, packet)[i].data
                                     = BlockIn(bs, Append(packets, packet)[i].block)
      BY Zenon DEF PacketsOK
    <2>3. \/ i \in DOMAIN packets /\ Append(packets, packet)[i] = packets[i]
          \/ Append(packets, packet)[i] = packet
      OBVIOUS
    <2>4. packet.block >= 0 /\ packet.block < n
      BY <1>1, <1>3, <1>6
    <2> QED
      BY <1>6, <2>1, <2>3, <2>4, Zenon DEF PacketsOK
  <1>9. Under(c, bs, failed, Append(packets, packet))
    BY <1>8, Zenon DEF Under
  <1>10. Under(c2, bs, failed, Append(packets, packet))
    <2> HIDE DEF c2
    <2> QED
      BY <1>4, <1>9, XmitKeeps, Zenon
  <1> HIDE DEF c2
  <1> QED
    BY <1>4, <1>7, <1>10, Zenon DEF c2, packet, block

\* A file that is opened is at its beginning.
LEMMA OpenedFields ==
    ASSUME cl \in Downloads, cl.downloadName \in File, ~cl.download
    PROVE  /\ Opened \in Downloads
           /\ Opened.downloadName = cl.downloadName /\ Opened.download
           /\ Opened.downloadSize = SizeOf[cl.downloadName]
           /\ Opened.downloadCount = 0 /\ Opened.downloadClientBlock = 0
           /\ Opened.downloadCurrentBlock = 0 /\ Opened.downloadXmitBlock = 0
           /\ ~Opened.downloadEOF /\ Opened.dropped = cl.dropped
  <1> DEFINE size == SizeOf[cl.downloadName]
  <1>1. size \in Nat
    BY DownloadAssumption
  <1> HIDE DEF size
  <1>2. ASSUME NEW t \in BOOLEAN, NEW f \in BOOLEAN
        PROVE LET c2 == [cl EXCEPT !.download = t, !.downloadSize = size,
                            !.downloadCurrentBlock = 0, !.downloadClientBlock = 0,
                            !.downloadXmitBlock = 0, !.downloadCount = 0,
                            !.downloadEOF = f]
              IN  /\ c2 \in Downloads
                  /\ c2.downloadName = cl.downloadName /\ c2.download = t
                  /\ c2.downloadSize = size
                  /\ c2.downloadCount = 0 /\ c2.downloadClientBlock = 0
                  /\ c2.downloadCurrentBlock = 0 /\ c2.downloadXmitBlock = 0
                  /\ c2.downloadEOF = f /\ c2.dropped = cl.dropped
    BY <1>1 DEF Downloads
  <1>3. Opened = [cl EXCEPT !.download = TRUE, !.downloadSize = size,
                            !.downloadCurrentBlock = 0, !.downloadClientBlock = 0,
                            !.downloadXmitBlock = 0, !.downloadCount = 0,
                            !.downloadEOF = FALSE]
    BY Zenon DEF Opened, size
  <1> QED
    BY <1>2, <1>3, Zenon DEF size

\* A download that is named or under way is under way once it is open.
LEMMA OpenedIsUnder ==
    ASSUME DownloadTypeOK, Named \/ UnderWay
    PROVE  /\ Opened \in Downloads
           /\ Under(Opened, blocks, readFailed, toClient)
           /\ Opened.downloadName = cl.downloadName
  <1>1. CASE UnderWay
    <2>1. Opened = cl
      BY <1>1, Zenon DEF UnderWay, Under, FileOK, Opened
    <2> QED
      BY <1>1, <2>1, Zenon DEF UnderWay, DownloadTypeOK
  <1>2. CASE Named
    <2> DEFINE c == Opened
    <2>1. /\ ~cl.download /\ toClient = <<>> /\ readFailed = {} /\ player.block = 0
          /\ player.got = <<>> /\ ~cl.dropped /\ cl.downloadName \in File
          /\ player.file = cl.downloadName /\ asked = {cl.downloadName} /\ toServer = <<>>
      BY <1>2, Zenon DEF Named, Untouched
    <2>2. /\ c \in Downloads
          /\ c.downloadName = cl.downloadName /\ c.download
          /\ c.downloadSize = SizeOf[cl.downloadName]
          /\ c.downloadCount = 0 /\ c.downloadClientBlock = 0
          /\ c.downloadCurrentBlock = 0 /\ c.downloadXmitBlock = 0
          /\ ~c.downloadEOF /\ c.dropped = cl.dropped
      BY <2>1, OpenedFields, Zenon DEF DownloadTypeOK
    <2> HIDE DEF c
    <2>3. SizeOf[cl.downloadName] \in Nat /\ MAX_DOWNLOAD_WINDOW \in Nat
      BY <2>1, DownloadAssumption
    <2>4. FileOK(c, readFailed)
      <3>1. c.downloadCount <= c.downloadSize
        BY <2>2, <2>3
      <3>2. c.downloadName \notin readFailed
        BY <2>1
      <3> QED
        BY <2>1, <2>2, <3>1, <3>2, Zenon DEF FileOK
    <2>5. DataBlocks(c) = 0
      BY <2>2 DEF DataBlocks
    <2>6. CountersOK(c)
      BY <2>1, <2>2, <2>3, <2>5 DEF CountersOK
    <2>7. WindowOK(c, blocks, readFailed)
      <3>1. StartOf(blocks, 0) = 0
        BY <2>1, Zenon DEF StartOf, GotEnd
      <3>2. \A b : b \notin 0..(0 - 1)
        OBVIOUS
      <3> QED
        BY <2>1, <2>2, <2>5, <3>1, <3>2, Zenon DEF WindowOK
    <2>8. PacketsOK(c, blocks, toClient)
      BY <2>1 DEF PacketsOK
    <2>9. CommandsOK(c, toServer)
      BY <2>1, <2>2 DEF CommandsOK
    <2>10. Prefix(c.downloadName, player.got)
      BY <2>1 DEF Prefix
    <2> QED
      BY <2>2, <2>4, <2>6, <2>7, <2>8, <2>9, <2>10, Zenon DEF Under, c
  <1> QED
    BY <1>1, <1>2

------------------------------------------------------------------------------
(* The steps of the server *)

\* What makes a download under way after a step.
LEMMA UnderPrimed ==
    ASSUME UNCHANGED <<player, asked>>,
           Under(cl', blocks', readFailed', toClient'), CommandsOK(cl', toServer')
    PROVE  UnderWay'
  <1>1. player' = player /\ asked' = asked
    OBVIOUS
  <1>2. /\ FileOK(cl', readFailed') /\ CountersOK(cl')
        /\ WindowOK(cl', blocks', readFailed')
        /\ PacketsOK(cl', blocks', toClient') /\ CommandsOK(cl', toServer')
        /\ Prefix(cl'.downloadName, player.got)
    BY Zenon DEF Under
  <1>3. FileOK(cl, readFailed)'
    BY <1>1, <1>2, Zenon DEF FileOK
  <1>4. CountersOK(cl)'
    BY <1>1, <1>2, Zenon DEF CountersOK, DataBlocks
  <1>5. WindowOK(cl, blocks, readFailed)'
    BY <1>1, <1>2, Zenon DEF WindowOK, DataBlocks, BlockIn, StartOf, GotEnd
  <1>6. PacketsOK(cl, blocks, toClient)'
    BY <1>1, <1>2, Zenon DEF PacketsOK, BlockIn
  <1>7. CommandsOK(cl, toServer)'
    BY <1>1, <1>2, Zenon DEF CommandsOK
  <1>8. Prefix(cl.downloadName, player.got)'
    BY <1>1, <1>2, Zenon DEF Prefix
  <1> QED
    BY <1>3, <1>4, <1>5, <1>6, <1>7, <1>8, Zenon DEF UnderWay, Under

\* A frame that reads and sends.
LEMMA BlockStep ==
    ASSUME DownloadTypeOK, Named \/ UnderWay,
           NEW fast \in BOOLEAN, NEW reads \in 0..BlocksToRead(Opened, Units(fast)),
           WriteBlock(fast, reads), UNCHANGED <<player, toServer, asked>>
    PROVE  DownloadTypeOK' /\ UnderWay' /\ readFailed \subseteq readFailed'
  <1> DEFINE units == Units(fast)
             fails == reads < BlocksToRead(Opened, units)
             read == AfterReads(Opened, units, reads, fails)
             bs == BlocksAfterReads(Opened, units, reads)
             loaded == AfterEOF(read)
             bs2 == BlocksAfterEOF(read, bs)
             failed2 == IF fails THEN readFailed \cup {cl.downloadName} ELSE readFailed
  <1>1. /\ blocks' = bs2 /\ readFailed' = failed2
        /\ IF HasBlockToSend(loaded)
           THEN /\ toClient' = Append(toClient,
                        Packet(XmitBlock(loaded), bs2[Slot(XmitBlock(loaded))]))
                /\ cl' = AfterSend(loaded)
           ELSE cl' = loaded /\ toClient' = toClient
    BY Zenon DEF WriteBlock
  <1>2. units \in Nat \ {0} /\ reads \in 0..BlocksToRead(Opened, units)
    BY DownloadAssumption DEF Units
  <1>3. /\ Opened \in Downloads /\ Under(Opened, blocks, readFailed, toClient)
        /\ Opened.downloadName = cl.downloadName
    BY OpenedIsUnder, Zenon
  <1>4. toClient \in Seq([block: Int, data: Piece])
    BY Zenon DEF DownloadTypeOK
  <1>5. /\ Opened.downloadName \in failed2
                <=> Opened.downloadName \in readFailed \/ fails
        /\ readFailed \subseteq failed2
    <2> HIDE DEF fails
    <2> QED
      BY <1>3
  <1> HIDE DEF units, failed2
  <1>6. /\ read \in Downloads /\ bs \in [Window -> Piece]
        /\ Under(read, bs, failed2, toClient)
    BY <1>2, <1>3, <1>4, <1>5, ReadKeeps, Zenon
  <1> HIDE DEF read, bs, fails
  <1>7. /\ loaded \in Downloads /\ bs2 \in [Window -> Piece]
        /\ Under(loaded, bs2, failed2, toClient)
    BY <1>4, <1>6, EOFKeeps, Zenon
  <1> HIDE DEF loaded, bs2
  <1>8. /\ cl' \in Downloads /\ toClient' \in Seq([block: Int, data: Piece])
        /\ Under(cl', blocks', readFailed', toClient')
    <2>1. CASE HasBlockToSend(loaded)
      BY <1>1, <1>4, <1>7, <2>1, SendKeeps, Zenon
    <2>2. CASE ~HasBlockToSend(loaded)
      BY <1>1, <1>4, <1>7, <2>2, Zenon
    <2> QED
      BY <2>1, <2>2, Zenon
  <1>9. UnderWay'
    <2>1. CommandsOK(cl', toServer')
      BY <1>8, Zenon DEF Under
    <2>2. UNCHANGED <<player, asked>>
      OBVIOUS
    <2> QED
      BY <1>8, <2>1, <2>2, UnderPrimed, Zenon
  <1>10. DownloadTypeOK'
    <2>1. player' = player /\ toServer' = toServer
      OBVIOUS
    <2> QED
      BY <1>1, <1>7, <1>8, <2>1, Zenon DEF DownloadTypeOK
  <1> QED
    BY <1>1, <1>5, <1>9, <1>10, Zenon

\* Downloads that are over stay as they were.
LEMMA WholeFileKept ==
    ASSUME WholeFile, player'.done = player.done, readFailed \subseteq readFailed'
    PROVE  WholeFile'
  BY Zenon DEF WholeFile

\* What closing a download leaves.
LEMMA ClosedFields ==
    ASSUME NEW c \in Downloads
    PROVE  /\ Closed(c) \in Downloads
           /\ Closed(c).downloadName = NoFile /\ ~Closed(c).download
           /\ Closed(c).downloadClientBlock = c.downloadClientBlock
           /\ Closed(c).dropped = c.dropped
  <1>1. NoFile \in FileOrNone
    BY DEF FileOrNone
  <1>2. ASSUME NEW f \in BOOLEAN, NEW name \in FileOrNone
        PROVE  LET c2 == [c EXCEPT !.downloadName = name, !.download = f]
               IN  /\ c2 \in Downloads /\ c2.downloadName = name /\ c2.download = f
                   /\ c2.downloadClientBlock = c.downloadClientBlock
                   /\ c2.dropped = c.dropped
    BY DEF Downloads
  <1> QED
    BY <1>1, <1>2, Zenon DEF Closed

\* A frame of the server.
LEMMA WriteStep ==
    ASSUME DownloadInv, NEW fast \in BOOLEAN, WriteDownloadToClient(fast)
    PROVE  DownloadInv'
  <1>1. DownloadTypeOK /\ Stages /\ WholeFile
    BY Zenon DEF DownloadInv
  <1>2. /\ ~cl.dropped /\ cl.downloadName # NoFile
        /\ player' = player /\ toServer' = toServer /\ asked' = asked
    BY Zenon DEF WriteDownloadToClient
  <1>3. Named \/ UnderWay
    BY <1>1, <1>2, Zenon DEF Stages, Idle, Requested, Refused, Over
  <1>4. CASE WriteDownloadError
    <2>1. /\ ~cl.download
          /\ toClient' = Append(toClient, ErrorPacket) /\ cl' = Closed(cl)
          /\ blocks' = blocks /\ readFailed' = readFailed
      BY <1>4, Zenon DEF WriteDownloadError
    <2>2. Named
      BY <1>3, <2>1, Zenon DEF UnderWay, Under, FileOK
    <2>3. /\ toClient = <<>> /\ player.got = <<>> /\ toServer = <<>>
          /\ \E f \in File : asked = {f}
      BY <2>2, Zenon DEF Named, Untouched
    <2>4. cl' \in Downloads /\ ~cl'.download /\ ~cl'.dropped /\ cl'.downloadName = NoFile
      BY <1>1, <1>2, <2>1, ClosedFields, Zenon DEF DownloadTypeOK
    <2>5. ErrorPacket \in [block: Int, data: Piece] /\ ErrorPacket.block = -1
      BY DEF ErrorPacket, NoData, Piece, FileOrNone
    <2>6. toClient' = <<ErrorPacket>>
      BY <2>1, <2>3
    <2>7. /\ toClient' \in Seq([block: Int, data: Piece])
          /\ \A i \in DOMAIN toClient' : toClient'[i].block = -1
      <3> DEFINE error == ErrorPacket
      <3> HIDE DEF error
      <3>1. error \in [block: Int, data: Piece] /\ error.block = -1 /\ toClient' = <<error>>
        BY <2>5, <2>6, Zenon DEF error
      <3> QED
        BY <3>1
    <2>8. Over'
      BY <1>2, <2>3, <2>4, <2>7, Zenon DEF Over
    <2>9. DownloadTypeOK'
      BY <1>1, <1>2, <2>1, <2>4, <2>7, Zenon DEF DownloadTypeOK
    <2>10. WholeFile'
      BY <1>1, <1>2, <2>1, WholeFileKept
    <2> QED
      BY <2>8, <2>9, <2>10, Zenon DEF DownloadInv, Stages
  <1>5. ASSUME NEW reads \in 0..BlocksToRead(Opened, Units(fast)), WriteBlock(fast, reads)
        PROVE  DownloadInv'
    <2>1. DownloadTypeOK' /\ UnderWay' /\ readFailed \subseteq readFailed'
      <3>1. UNCHANGED <<player, toServer, asked>>
        BY <1>2, Zenon
      <3> QED
        BY <1>1, <1>3, <1>5, <3>1, BlockStep, Zenon
    <2>2. WholeFile'
      BY <1>1, <1>2, <2>1, WholeFileKept, Zenon
    <2> QED
      BY <2>1, <2>2, Zenon DEF DownloadInv, Stages
  <1> QED
    BY <1>4, <1>5, Zenon DEF WriteDownloadToClient

\* A queue without its first element.
LEMMA TailFacts ==
    ASSUME NEW S, NEW q \in Seq(S), q # <<>>
    PROVE  /\ Tail(q) \in Seq(S) /\ Head(q) = q[1] /\ Len(q) \in Nat \ {0}
           /\ DOMAIN q = 1..Len(q) /\ Len(Tail(q)) = Len(q) - 1
           /\ DOMAIN Tail(q) = 1..(Len(q) - 1)
           /\ \A i \in 1..(Len(q) - 1) : Tail(q)[i] = q[i + 1]
           /\ Tail(q) = <<>> <=> Len(q) = 1
  <1>1. /\ Tail(q) \in Seq(S) /\ Head(q) = q[1] /\ Len(q) \in Nat \ {0}
        /\ DOMAIN q = 1..Len(q) /\ Len(Tail(q)) = Len(q) - 1
    OBVIOUS
  <1>2. \A i \in 1..(Len(q) - 1) : Tail(q)[i] = q[i + 1]
    OBVIOUS
  <1>3. DOMAIN Tail(q) = 1..(Len(q) - 1)
    BY <1>1
  <1>4. Tail(q) = <<>> <=> Len(q) = 1
    <2>1. ASSUME NEW q2 \in Seq(S)
          PROVE  q2 = <<>> <=> Len(q2) = 0
      OBVIOUS
    <2>2. Tail(q) = <<>> <=> Len(Tail(q)) = 0
      BY <1>1, <2>1, Zenon
    <2>3. Len(Tail(q)) = 0 <=> Len(q) = 1
      BY <1>1
    <2> QED
      BY <2>2, <2>3, Zenon
  <1> QED
    BY <1>1, <1>2, <1>3, <1>4, Zenon

\* The rest of the commands count on from the first one.
LEMMA CommandTaken ==
    ASSUME NEW S, toServer \in Seq(S), toServer # <<>>,
           NEW c, NEW c2, CommandsOK(c, toServer),
           c2.downloadClientBlock = Acknowledged(toServer[1]),
           c2.downloadEOF = c.downloadEOF,
           c2.downloadCurrentBlock = c.downloadCurrentBlock
    PROVE  CommandsOK(c2, Tail(toServer))
  <1> DEFINE q == Tail(toServer)
             l == Len(toServer)
  <1>1. /\ l \in Nat \ {0} /\ DOMAIN toServer = 1..l /\ Len(q) = l - 1
        /\ DOMAIN q = 1..(l - 1) /\ \A i \in 1..(l - 1) : q[i] = toServer[i + 1]
        /\ q = <<>> <=> l = 1
    BY TailFacts, Zenon
  <1>2. /\ Acknowledged(toServer[l]) = player.block
        /\ \A i \in 1..(l - 1) : toServer[i + 1].arg = Acknowledged(toServer[i])
        /\ \A i \in DOMAIN toServer :
              /\ toServer[i].cmd \in {"nextdl", "retransdl"}
              /\ Acknowledged(toServer[i]) <= player.block
              /\ c.downloadEOF => toServer[i].arg < c.downloadCurrentBlock
    BY Zenon DEF CommandsOK
  <1> HIDE DEF q, l
  <1>3. q = <<>> => c2.downloadClientBlock = player.block
    BY <1>1, <1>2, Zenon
  <1>4. ASSUME q # <<>>
        PROVE  /\ q[1].arg = c2.downloadClientBlock
               /\ Acknowledged(q[Len(q)]) = player.block
    <2>1. 1 \in 1..(l - 1) /\ l - 1 \in 1..(l - 1) /\ (l - 1) + 1 = l
      BY <1>1, <1>4
    <2>2. q[1] = toServer[1 + 1] /\ q[Len(q)] = toServer[l]
      BY <1>1, <2>1, Zenon
    <2> QED
      BY <1>2, <2>1, <2>2, Zenon
  <1>5. ASSUME NEW i \in 1..(Len(q) - 1)
        PROVE  q[i + 1].arg = Acknowledged(q[i])
    <2>1. i \in 1..(l - 1) /\ i + 1 \in 1..(l - 1)
      BY <1>1
    <2> QED
      BY <1>1, <1>2, <2>1, Zenon
  <1>6. ASSUME NEW i \in DOMAIN q
        PROVE  /\ q[i].cmd \in {"nextdl", "retransdl"}
               /\ Acknowledged(q[i]) <= player.block
               /\ c2.downloadEOF => q[i].arg < c2.downloadCurrentBlock
    <2>1. i \in 1..(l - 1) /\ i + 1 \in DOMAIN toServer
      BY <1>1
    <2> QED
      BY <1>1, <1>2, <2>1, Zenon
  <1> QED
    BY <1>3, <1>4, <1>5, <1>6, Zenon DEF CommandsOK, q

\* The commands under way without the first.
LEMMA ToServerTail ==
    ASSUME DownloadTypeOK, toServer # <<>>
    PROVE  Tail(toServer) \in Seq([cmd: {"download"}, arg: File]
                                  \cup [cmd: {"nextdl", "retransdl"}, arg: Nat])
  <1>1. toServer \in Seq([cmd: {"download"}, arg: File]
                         \cup [cmd: {"nextdl", "retransdl"}, arg: Nat])
    BY Zenon DEF DownloadTypeOK
  <1> QED
    BY <1>1, TailFacts, Zenon

\* The first command of a download under way is about the block the server has.
LEMMA FirstCommand ==
    ASSUME DownloadTypeOK, NEW c, CommandsOK(c, toServer), toServer # <<>>
    PROVE  /\ Head(toServer) = toServer[1] /\ 1 \in DOMAIN toServer
           /\ Head(toServer).arg = c.downloadClientBlock
           /\ Head(toServer).cmd \in {"nextdl", "retransdl"}
           /\ Acknowledged(toServer[1]) <= player.block
  <1>1. toServer \in Seq([cmd: {"download"}, arg: File]
                         \cup [cmd: {"nextdl", "retransdl"}, arg: Nat])
    BY Zenon DEF DownloadTypeOK
  <1>2. Head(toServer) = toServer[1] /\ 1 \in DOMAIN toServer
    BY <1>1
  <1> QED
    BY <1>2, Zenon DEF CommandsOK

\* The server takes the request of a download.
LEMMA BeginStep ==
    ASSUME DownloadInv, ClientCommand, Requested
    PROVE  DownloadInv'
  <1> DEFINE f == player.file
  <1>1. DownloadTypeOK /\ WholeFile
    BY Zenon DEF DownloadInv
  <1>2. /\ toServer = <<Command("download", f)>> /\ f \in File /\ asked = {f}
        /\ Untouched /\ ~cl.dropped
    BY Zenon DEF Requested
  <1>3. /\ Head(toServer) = Command("download", f) /\ Tail(toServer) = <<>>
    BY <1>2 DEF Command
  <1>4. Command("download", f).cmd = "download" /\ Command("download", f).arg = f
    BY DEF Command
  <1>5. BeginDownload(f)
    BY <1>3, <1>4 DEF ClientCommand
  <1>6. /\ toServer' = <<>> /\ player' = player /\ asked' = asked
        /\ readFailed' = readFailed /\ blocks' = blocks /\ toClient' = toClient
        /\ cl' = IF f \in Allowed THEN [Closed(cl) EXCEPT !.downloadName = f]
                 ELSE [Closed(cl) EXCEPT !.dropped = f \notin Dotted]
    BY <1>3, <1>5, Zenon DEF ClientCommand, BeginDownload
  <1>7. /\ Closed(cl) \in Downloads
        /\ Closed(cl).downloadName = NoFile /\ ~Closed(cl).download
        /\ Closed(cl).downloadClientBlock = cl.downloadClientBlock
        /\ Closed(cl).dropped = cl.dropped
    BY <1>1, ClosedFields, Zenon DEF DownloadTypeOK
  <1> DEFINE c == Closed(cl)
  <1> HIDE DEF c
  <1>8. /\ toClient' = <<>> /\ readFailed' = {} /\ player'.block = 0 /\ player'.got = <<>>
        /\ c \in Downloads /\ c.downloadName = NoFile /\ ~c.download
        /\ c.downloadClientBlock = 0 /\ ~c.dropped
    BY <1>2, <1>6, <1>7, Zenon DEF Untouched, c
  <1>9. CASE f \in Allowed
    <2>1. cl' = [c EXCEPT !.downloadName = f]
      BY <1>6, <1>9, Zenon DEF c
    <2>2. f \in FileOrNone
      BY <1>2 DEF FileOrNone
    <2>3. /\ cl' \in Downloads /\ cl'.downloadName = f /\ cl'.download = c.download
          /\ cl'.downloadClientBlock = c.downloadClientBlock /\ cl'.dropped = c.dropped
      BY <1>8, <2>1, <2>2 DEF Downloads
    <2>4. Named'
      BY <1>2, <1>6, <1>8, <2>3, Zenon DEF Named, Untouched
    <2>5. DownloadTypeOK'
      <3>1. <<>> \in Seq([cmd: {"download"}, arg: File]
                         \cup [cmd: {"nextdl", "retransdl"}, arg: Nat])
        OBVIOUS
      <3> QED
        BY <1>1, <1>6, <2>3, <3>1, Zenon DEF DownloadTypeOK
    <2>6. WholeFile'
      BY <1>1, <1>6, WholeFileKept
    <2> QED
      BY <2>4, <2>5, <2>6, Zenon DEF DownloadInv, Stages
  <1>10. CASE f \notin Allowed
    <2> DEFINE drops == f \notin Dotted
    <2>1. cl' = [c EXCEPT !.dropped = drops] /\ drops \in BOOLEAN
      BY <1>6, <1>10, Zenon DEF c
    <2>2. ASSUME NEW b \in BOOLEAN
          PROVE  LET c2 == [c EXCEPT !.dropped = b]
                 IN  /\ c2 \in Downloads /\ c2.downloadName = c.downloadName
                     /\ c2.download = c.download
                     /\ c2.downloadClientBlock = c.downloadClientBlock
                     /\ c2.dropped = b
      BY <1>8 DEF Downloads
    <2>3. /\ cl' \in Downloads /\ cl'.downloadName = NoFile /\ ~cl'.download
          /\ cl'.downloadClientBlock = 0 /\ cl'.dropped = drops
      BY <1>8, <2>1, <2>2, Zenon
    <2>4. Refused'
      <3>1. f \in File \ Allowed
        BY <1>2, <1>10
      <3> QED
        BY <1>2, <1>6, <1>8, <2>3, <3>1, Zenon DEF Refused, Untouched
    <2>5. DownloadTypeOK'
      <3>1. <<>> \in Seq([cmd: {"download"}, arg: File]
                         \cup [cmd: {"nextdl", "retransdl"}, arg: Nat])
        OBVIOUS
      <3> QED
        BY <1>1, <1>6, <2>3, <3>1, Zenon DEF DownloadTypeOK
    <2>6. WholeFile'
      BY <1>1, <1>6, WholeFileKept
    <2> QED
      BY <2>4, <2>5, <2>6, Zenon DEF DownloadInv, Stages
  <1> QED
    BY <1>9, <1>10

\* An acknowledged block, unless it is the end, is one of data.
LEMMA AcknowledgedBlock ==
    ASSUME DownloadTypeOK, UnderWay, toServer # <<>>, Head(toServer).cmd = "nextdl"
    PROVE  /\ Acknowledged(toServer[1]) = cl.downloadClientBlock + 1
           /\ cl.downloadClientBlock < player.block
           /\ \/ /\ BlockIn(blocks, cl.downloadClientBlock).size > 0
                 /\ cl.downloadClientBlock < DataBlocks(cl)
              \/ /\ BlockIn(blocks, cl.downloadClientBlock).size = 0
                 /\ player.file = NoFile /\ Tail(toServer) = <<>>
  <1> DEFINE m == cl.downloadClientBlock
             n == cl.downloadCurrentBlock
  <1>1. /\ FileOK(cl, readFailed) /\ CountersOK(cl) /\ WindowOK(cl, blocks, readFailed)
        /\ CommandsOK(cl, toServer)
    BY Zenon DEF UnderWay, Under
  <1>2. /\ Head(toServer) = toServer[1] /\ 1 \in DOMAIN toServer
        /\ toServer[1].arg = m /\ Acknowledged(toServer[1]) <= player.block
    BY <1>1, FirstCommand, Zenon
  <1>3. Acknowledged(toServer[1]) = m + 1
    BY <1>2, Zenon DEF Acknowledged
  <1>4. /\ m \in Nat /\ n \in Nat /\ player.block \in Nat /\ player.file \in FileOrNone
    BY DownloadFields DEF DownloadTypeOK
  <1>5. m < player.block
    BY <1>2, <1>3, <1>4
  <1>6. DataBlocks(cl) \in Int
    BY <1>4 DEF DataBlocks
  <1>7. /\ m <= DataBlocks(cl) /\ player.block <= n
        /\ player.file = cl.downloadName => player.block <= DataBlocks(cl)
        /\ player.file # cl.downloadName => player.file = NoFile /\ cl.downloadEOF
                                            /\ player.block = n
    BY <1>1, Zenon DEF CountersOK
  <1>8. CASE m < DataBlocks(cl)
    <2>1. m \in m..(DataBlocks(cl) - 1)
      BY <1>4, <1>6, <1>8
    <2> QED
      BY <1>1, <1>3, <1>5, <1>8, <2>1, Zenon DEF WindowOK
  <1>9. CASE m = DataBlocks(cl)
    <2>1. player.file # cl.downloadName
      BY <1>4, <1>5, <1>7, <1>9
    <2>2. /\ player.file = NoFile /\ cl.downloadEOF /\ player.block = n
      BY <1>7, <2>1
    <2>3. m = n - 1 /\ m + 1 = n
      BY <1>4, <1>9, <2>2 DEF DataBlocks
    <2>4. BlockIn(blocks, m).size = 0
      BY <1>1, <2>2, <2>3, Zenon DEF WindowOK
    <2>5. Tail(toServer) = <<>>
      <3>1. SUFFICES ASSUME Tail(toServer) # <<>>
                     PROVE  FALSE
        OBVIOUS
      <3>2. toServer \in Seq([cmd: {"download"}, arg: File]
                         \cup [cmd: {"nextdl", "retransdl"}, arg: Nat])
        BY Zenon DEF DownloadTypeOK
      <3>3. /\ Len(toServer) \in Nat \ {0} /\ DOMAIN toServer = 1..Len(toServer)
            /\ Tail(toServer) = <<>> <=> Len(toServer) = 1
        BY <3>2, TailFacts, Zenon
      <3>4. /\ Len(toServer) # 1 /\ 1 \in 1..(Len(toServer) - 1)
            /\ 1 + 1 \in DOMAIN toServer
        BY <3>1, <3>3
      <3>5. toServer[1 + 1].arg = n
        BY <1>1, <1>3, <2>3, <3>4, Zenon DEF CommandsOK
      <3>6. toServer[1 + 1].arg < n
        BY <1>1, <2>2, <3>4, Zenon DEF CommandsOK
      <3> QED
        BY <1>4, <3>5, <3>6
    <2> QED
      BY <1>3, <1>5, <2>2, <2>4, <2>5, Zenon
  <1> QED
    BY <1>4, <1>6, <1>7, <1>8, <1>9

\* It takes an acknowledgement.
LEMMA NextStep ==
    ASSUME DownloadInv, UnderWay, toServer # <<>>, Head(toServer).cmd = "nextdl",
           NextDownload(Head(toServer).arg), toServer' = Tail(toServer),
           UNCHANGED <<player, asked, readFailed>>
    PROVE  DownloadInv'
  <1> DEFINE m == cl.downloadClientBlock
             n == cl.downloadCurrentBlock
  <1>1. DownloadTypeOK /\ WholeFile /\ cl \in Downloads
    BY Zenon DEF DownloadInv, DownloadTypeOK
  <1>2. /\ FileOK(cl, readFailed) /\ CountersOK(cl) /\ WindowOK(cl, blocks, readFailed)
        /\ PacketsOK(cl, blocks, toClient) /\ CommandsOK(cl, toServer)
        /\ Prefix(cl.downloadName, player.got)
    BY Zenon DEF UnderWay, Under
  <1>3. Head(toServer).arg = m
    BY <1>1, <1>2, FirstCommand, Zenon
  <1>4. /\ player' = player /\ asked' = asked /\ readFailed' = readFailed
        /\ blocks' = blocks /\ toClient' = toClient
        /\ cl' = IF BlockIn(blocks, m).size = 0 THEN Closed(cl)
                 ELSE [cl EXCEPT !.downloadClientBlock = @ + 1, !.downloadSendAge = 0]
    BY <1>3, Zenon DEF NextDownload, BlockIn
  <1>5. /\ Acknowledged(toServer[1]) = m + 1
        /\ m < player.block
        /\ \/ /\ BlockIn(blocks, m).size > 0 /\ m < DataBlocks(cl)
           \/ /\ BlockIn(blocks, m).size = 0
              /\ player.file = NoFile /\ Tail(toServer) = <<>>
    BY <1>1, AcknowledgedBlock, Zenon
  <1>6. Tail(toServer) \in Seq([cmd: {"download"}, arg: File]
                               \cup [cmd: {"nextdl", "retransdl"}, arg: Nat])
    BY <1>1, ToServerTail, Zenon
  <1>7. WholeFile'
    BY <1>1, <1>4, WholeFileKept
  <1>8. /\ m \in Nat /\ n \in Nat /\ player.block \in Nat /\ MAX_DOWNLOAD_WINDOW \in Nat
    BY <1>1, DownloadFields, DownloadAssumption DEF DownloadTypeOK
  <1>9. ASSUME BlockIn(blocks, m).size = 0, player.file = NoFile, Tail(toServer) = <<>>
        PROVE  DownloadInv'
    <2>1. cl' = Closed(cl)
      BY <1>4, <1>9, Zenon
    <2>2. /\ cl' \in Downloads /\ cl'.downloadName = NoFile /\ ~cl'.download /\ ~cl'.dropped
      BY <1>1, <1>2, <2>1, ClosedFields, Zenon DEF FileOK
    <2>3. \E f \in File : asked = {f}
      BY <1>2, Zenon DEF FileOK
    <2>4. Over'
      BY <1>4, <1>9, <2>2, <2>3, Zenon DEF Over
    <2>5. DownloadTypeOK'
      BY <1>1, <1>4, <1>6, <2>2, Zenon DEF DownloadTypeOK
    <2> QED
      BY <1>7, <2>4, <2>5, Zenon DEF DownloadInv, Stages
  <1>10. ASSUME BlockIn(blocks, m).size > 0, m < DataBlocks(cl)
         PROVE  DownloadInv'
    <2> DEFINE next == m + 1
    <2>1. BlockIn(blocks, m).size # 0
      BY <1>10
    <2>2. cl' = [cl EXCEPT !.downloadClientBlock = next, !.downloadSendAge = 0]
      BY <1>4, <2>1, Zenon
    <2>3. next \in Nat
      BY <1>8
    <2>4. /\ cl' \in Downloads
          /\ cl'.downloadName = cl.downloadName /\ cl'.download = cl.download
          /\ cl'.downloadSize = cl.downloadSize /\ cl'.downloadCount = cl.downloadCount
          /\ cl'.downloadClientBlock = next /\ cl'.downloadCurrentBlock = n
          /\ cl'.downloadXmitBlock = cl.downloadXmitBlock
          /\ cl'.downloadEOF = cl.downloadEOF /\ cl'.dropped = cl.dropped
      <3> HIDE DEF next
      <3> QED
        BY <1>1, <2>2, <2>3 DEF Downloads
    <2>5. DataBlocks(cl') = DataBlocks(cl) /\ DataBlocks(cl) \in Int
      BY <1>8, <2>4 DEF DataBlocks
    <2>6. FileOK(cl, readFailed)'
      BY <1>2, <1>4, <2>4, Zenon DEF FileOK
    <2>7. CountersOK(cl)'
      <3>1. /\ m <= player.block /\ player.block <= n /\ n - m <= MAX_DOWNLOAD_WINDOW
            /\ cl.downloadXmitBlock <= n
            /\ player.file = cl.downloadName => player.block <= DataBlocks(cl)
            /\ player.file # cl.downloadName =>
                  /\ player.file = NoFile /\ cl.downloadEOF
                  /\ player.block = n
        BY <1>2, Zenon DEF CountersOK
      <3>2. next <= player.block /\ n - next <= MAX_DOWNLOAD_WINDOW /\ next <= DataBlocks(cl)
        BY <1>5, <1>8, <1>10, <2>5, <3>1
      <3>3. DataBlocks(cl)' = DataBlocks(cl)
        BY <2>5, Zenon
      <3> HIDE DEF next
      <3> QED
        BY <1>4, <2>4, <3>1, <3>2, <3>3, Zenon DEF CountersOK
    <2>8. WindowOK(cl, blocks, readFailed)'
      <3>1. \A b \in next..(DataBlocks(cl) - 1) : b \in m..(DataBlocks(cl) - 1)
        BY <1>8, <2>5
      <3>2. /\ \A b \in m..(DataBlocks(cl) - 1) : BlockIn(blocks, b).size > 0
            /\ \A b \in player.block..(DataBlocks(cl) - 1) :
                    /\ BlockIn(blocks, b).file = cl.downloadName
                    /\ BlockIn(blocks, b).from = StartOf(blocks, b)
            /\ player.file = cl.downloadName /\ cl.downloadName \notin readFailed =>
                    StartOf(blocks, DataBlocks(cl)) = cl.downloadCount
            /\ cl.downloadEOF => BlockIn(blocks, n - 1).size = 0
        BY <1>2, Zenon DEF WindowOK
      <3>3. \A b \in next..(DataBlocks(cl) - 1) : BlockIn(blocks, b).size > 0
        BY <3>1, <3>2, Zenon
      <3>4. /\ DataBlocks(cl)' = DataBlocks(cl)
            /\ \A b : StartOf(blocks, b)' = StartOf(blocks, b)
            /\ \A b : BlockIn(blocks, b)' = BlockIn(blocks, b)
        BY <1>4, <2>5, Zenon DEF StartOf, BlockIn, GotEnd
      <3> HIDE DEF next
      <3> QED
        BY <1>4, <2>4, <3>2, <3>3, <3>4, Zenon DEF WindowOK
    <2>9. PacketsOK(cl, blocks, toClient)'
      BY <1>2, <1>4, <2>4, Zenon DEF PacketsOK, BlockIn
    <2>10. CommandsOK(cl', Tail(toServer))
      <3>1. toServer \in Seq([cmd: {"download"}, arg: File]
                         \cup [cmd: {"nextdl", "retransdl"}, arg: Nat])
        BY <1>1, Zenon DEF DownloadTypeOK
      <3> QED
        BY <1>2, <1>5, <2>4, <3>1, CommandTaken, Zenon
    <2>11. CommandsOK(cl, toServer)'
      <3>1. toServer' = Tail(toServer)
        OBVIOUS
      <3> QED
        BY <1>4, <2>10, <3>1, Zenon DEF CommandsOK
    <2>12. Prefix(cl.downloadName, player.got)'
      BY <1>2, <1>4, <2>4, Zenon DEF Prefix
    <2>13. UnderWay'
      BY <2>6, <2>7, <2>8, <2>9, <2>11, <2>12, Zenon DEF UnderWay, Under
    <2>14. DownloadTypeOK'
      BY <1>1, <1>4, <1>6, <2>4, Zenon DEF DownloadTypeOK
    <2> QED
      BY <1>7, <2>13, <2>14, Zenon DEF DownloadInv, Stages
  <1> QED
    BY <1>5, <1>9, <1>10, Zenon

\* It takes a wish to begin again from a block.
LEMMA RetransmitStep ==
    ASSUME DownloadInv, UnderWay, toServer # <<>>, Head(toServer).cmd = "retransdl",
           RetransmitDownload(Head(toServer).arg), toServer' = Tail(toServer),
           UNCHANGED <<player, asked, readFailed>>
    PROVE  DownloadInv'
  <1> DEFINE m == cl.downloadClientBlock
  <1>1. DownloadTypeOK /\ WholeFile /\ cl \in Downloads
    BY Zenon DEF DownloadInv, DownloadTypeOK
  <1>2. Under(cl, blocks, readFailed, toClient) /\ CommandsOK(cl, toServer) /\ CountersOK(cl)
    BY Zenon DEF UnderWay, Under
  <1>3. /\ Head(toServer) = toServer[1] /\ Head(toServer).arg = m
    BY <1>1, <1>2, FirstCommand, Zenon
  <1>4. /\ player' = player /\ asked' = asked /\ readFailed' = readFailed
        /\ blocks' = blocks /\ toClient' = toClient
        /\ cl' = [cl EXCEPT !.downloadXmitBlock = m]
    BY <1>3, Zenon DEF RetransmitDownload
  <1>5. /\ m \in Nat /\ cl.downloadCurrentBlock \in Nat /\ player.block \in Nat
    BY <1>1, DownloadFields DEF DownloadTypeOK
  <1>6. m <= cl.downloadCurrentBlock
    <2>1. m <= player.block /\ player.block <= cl.downloadCurrentBlock
      BY <1>2, Zenon DEF CountersOK
    <2> QED
      BY <1>5, <2>1
  <1>7. cl' \in Downloads /\ AlikeButXmit(cl, cl') /\ cl'.downloadXmitBlock = m
    BY <1>1, <1>4, <1>5 DEF Downloads, AlikeButXmit
  <1>8. Under(cl', blocks', readFailed', toClient')
    <2>1. cl'.downloadXmitBlock <= cl.downloadCurrentBlock
      BY <1>6, <1>7, Zenon
    <2>2. Under(cl', blocks, readFailed, toClient)
      BY <1>2, <1>7, <2>1, XmitKeeps, Zenon
    <2> QED
      BY <1>4, <2>2, Zenon
  <1>9. CommandsOK(cl', toServer')
    <2>1. toServer \in Seq([cmd: {"download"}, arg: File]
                           \cup [cmd: {"nextdl", "retransdl"}, arg: Nat])
      BY <1>1, Zenon DEF DownloadTypeOK
    <2>2. "retransdl" # "nextdl"
      OBVIOUS
    <2>3. Acknowledged(toServer[1]) = m
      BY <1>3, <2>2, Zenon DEF Acknowledged
    <2> QED
      BY <1>2, <1>7, <2>1, <2>3, CommandTaken, Zenon DEF AlikeButXmit
  <1>10. UnderWay'
    BY <1>4, <1>8, <1>9, UnderPrimed
  <1>11. DownloadTypeOK'
    <2>1. toServer' \in Seq([cmd: {"download"}, arg: File]
                            \cup [cmd: {"nextdl", "retransdl"}, arg: Nat])
      BY <1>1, ToServerTail, Zenon
    <2> QED
      BY <1>1, <1>4, <1>7, <2>1, Zenon DEF DownloadTypeOK
  <1>12. WholeFile'
    BY <1>1, <1>4, WholeFileKept
  <1> QED
    BY <1>10, <1>11, <1>12, Zenon DEF DownloadInv, Stages

\* It takes any command.
LEMMA CommandStep ==
    ASSUME DownloadInv, ClientCommand
    PROVE  DownloadInv'
  <1>1. toServer # <<>> /\ toServer' = Tail(toServer) /\ UNCHANGED <<player, asked, readFailed>>
    BY Zenon DEF ClientCommand
  <1>2. Requested \/ UnderWay
    BY <1>1, Zenon DEF DownloadInv, Stages, Idle, Named, Refused, Over
  <1>3. CASE Requested
    BY <1>3, BeginStep
  <1>4. CASE UnderWay
    <2>1. DownloadTypeOK /\ CommandsOK(cl, toServer)
      BY <1>4, Zenon DEF DownloadInv, UnderWay, Under
    <2>2. Head(toServer).cmd \in {"nextdl", "retransdl"}
      BY <1>1, <2>1, FirstCommand, Zenon
    <2>3. Head(toServer).cmd # "download"
      BY <2>2
    <2> QED
      BY <1>1, <1>4, <2>3, NextStep, RetransmitStep, Zenon DEF ClientCommand
  <1> QED
    BY <1>2, <1>3, <1>4

------------------------------------------------------------------------------
(* The steps of the client, the network and time *)

\* The client asks for a file, which it does once.
LEMMA RequestStep ==
    ASSUME MaxRequests = 1, DownloadInv, NEW f \in File, Request(f)
    PROVE  DownloadInv'
  <1>1. DownloadTypeOK /\ Stages /\ WholeFile
    BY Zenon DEF DownloadInv
  <1>2. /\ player.file = NoFile /\ Cardinality(asked) < MaxRequests
        /\ player' = [player EXCEPT !.file = f, !.block = 0, !.got = <<>>]
        /\ toServer' = Append(toServer, Command("download", f))
        /\ asked' = asked \cup {f}
        /\ cl' = cl /\ blocks' = blocks /\ toClient' = toClient /\ readFailed' = readFailed
    BY Zenon DEF Request
  <1>3. \A g : asked # {g}
    <2>1. SUFFICES ASSUME NEW g, asked = {g}
                   PROVE  FALSE
      OBVIOUS
    <2>2. Cardinality(asked) = 1
      BY <2>1, FS_Singleton, Zenon
    <2> QED
      BY <1>2, <2>2
  <1>4. Idle
    BY <1>1, <1>3, Zenon DEF Stages, Requested, Named, Refused, UnderWay, Under, FileOK, Over
  <1>5. /\ Untouched /\ ~cl.dropped /\ cl.downloadName = NoFile
        /\ toServer = <<>> /\ asked = {}
    BY <1>4, Zenon DEF Idle
  <1>6. /\ f \in FileOrNone
        /\ player \in [file: FileOrNone, block: Nat, got: Pieces,
                       done: Seq([file: FileOrNone, got: Pieces])]
        /\ <<>> \in Pieces
    BY <1>1 DEF DownloadTypeOK, FileOrNone, Pieces
  <1>7. /\ player' \in [file: FileOrNone, block: Nat, got: Pieces,
                        done: Seq([file: FileOrNone, got: Pieces])]
        /\ player'.file = f /\ player'.block = 0 /\ player'.got = <<>>
        /\ player'.done = player.done
    <2> DEFINE none == <<>>
    <2>1. none \in Pieces /\ player' = [player EXCEPT !.file = f, !.block = 0, !.got = none]
      BY <1>2, <1>6, Zenon
    <2> HIDE DEF none
    <2>2. /\ player' \in [file: FileOrNone, block: Nat, got: Pieces,
                        done: Seq([file: FileOrNone, got: Pieces])]
          /\ player'.file = f /\ player'.block = 0 /\ player'.got = none
          /\ player'.done = player.done
      BY <1>6, <2>1
    <2> QED
      BY <2>2, Zenon DEF none
  <1>8. asked' = {f}
    BY <1>2, <1>5
  <1>9. Command("download", f) \in [cmd: {"download"}, arg: File]
                                  \cup [cmd: {"nextdl", "retransdl"}, arg: Nat]
    BY DEF Command
  <1> DEFINE command == Command("download", f)
  <1> HIDE DEF command
  <1>10. toServer' = <<command>>
    BY <1>2, <1>5 DEF command
  <1>11. toServer' \in Seq([cmd: {"download"}, arg: File]
                           \cup [cmd: {"nextdl", "retransdl"}, arg: Nat])
    <2> DEFINE Cmd == [cmd: {"download"}, arg: File]
                        \cup [cmd: {"nextdl", "retransdl"}, arg: Nat]
    <2>1. command \in Cmd
      BY <1>9, Zenon DEF command
    <2> HIDE DEF Cmd
    <2>2. <<command>> \in Seq(Cmd)
      BY <2>1
    <2> QED
      BY <1>10, <2>2, Zenon DEF Cmd
  <1>12. Requested'
    BY <1>2, <1>5, <1>7, <1>8, <1>10, Zenon DEF Requested, Untouched, command
  <1>13. DownloadTypeOK'
    BY <1>1, <1>2, <1>7, <1>11, Zenon DEF DownloadTypeOK
  <1>14. WholeFile'
    BY <1>1, <1>2, <1>7, WholeFileKept
  <1> QED
    BY <1>12, <1>13, <1>14, Zenon DEF DownloadInv, Stages

\* The packets that are left fit the client's next block too.
LEMMA PacketTaken ==
    ASSUME DownloadTypeOK, toClient # <<>>, toClient' = Tail(toClient),
           UNCHANGED <<cl, blocks>>, player'.block \in Nat, player.block <= player'.block,
           PacketsOK(cl, blocks, toClient)
    PROVE  PacketsOK(cl, blocks, toClient)'
  <1> DEFINE q == Tail(toClient)
             l == Len(toClient)
  <1>1. toClient \in Seq([block: Int, data: Piece]) /\ player.block \in Nat
    BY DEF DownloadTypeOK
  <1>2. /\ l \in Nat \ {0} /\ DOMAIN toClient = 1..l
        /\ DOMAIN q = 1..(l - 1) /\ \A i \in 1..(l - 1) : q[i] = toClient[i + 1]
    BY <1>1, TailFacts, Zenon
  <1> HIDE DEF q, l
  <1>3. ASSUME NEW i \in DOMAIN q
        PROVE  /\ q[i].block >= 0
               /\ q[i].block >= player'.block =>
                     /\ q[i].block < cl.downloadCurrentBlock
                     /\ q[i].data = BlockIn(blocks, q[i].block)
    <2>1. i + 1 \in DOMAIN toClient /\ q[i] = toClient[i + 1]
      BY <1>2
    <2>2. q[i] \in [block: Int, data: Piece]
      BY <1>1, <2>1, SeqElements, Zenon
    <2>3. q[i].block \in Int
      BY <2>2
    <2>4. q[i].block >= player'.block => q[i].block >= player.block
      BY <1>1, <2>3
    <2> QED
      BY <2>1, <2>4, Zenon DEF PacketsOK
  <1>4. /\ cl' = cl /\ blocks' = blocks /\ toClient' = q
    BY DEF q
  <1> QED
    BY <1>3, <1>4, Zenon DEF PacketsOK, BlockIn

\* Packets that refuse, without the first.
LEMMA ErrorsTail ==
    ASSUME NEW q \in Seq([block: Int, data: Piece]), q # <<>>,
           \A i \in DOMAIN q : q[i].block = -1
    PROVE  \A i \in DOMAIN Tail(q) : Tail(q)[i].block = -1
  <1> DEFINE rest == Tail(q)
             l == Len(q)
  <1>1. /\ l \in Nat \ {0} /\ DOMAIN q = 1..l
        /\ DOMAIN rest = 1..(l - 1) /\ \A i \in 1..(l - 1) : rest[i] = q[i + 1]
    BY TailFacts, Zenon
  <1> HIDE DEF rest, l
  <1>2. \A i \in DOMAIN rest : i + 1 \in DOMAIN q
    BY <1>1
  <1> QED
    BY <1>1, <1>2, Zenon DEF rest

\* A packet is lost.
LEMMA LoseStep ==
    ASSUME DownloadInv, Lose
    PROVE  DownloadInv'
  <1>1. DownloadTypeOK /\ Stages /\ WholeFile
    BY Zenon DEF DownloadInv
  <1>2. /\ toClient # <<>> /\ toClient' = Tail(toClient)
        /\ cl' = cl /\ blocks' = blocks /\ player' = player /\ toServer' = toServer
        /\ asked' = asked /\ readFailed' = readFailed
    BY Zenon DEF Lose
  <1>3. toClient \in Seq([block: Int, data: Piece]) /\ player.block \in Nat
    BY <1>1 DEF DownloadTypeOK
  <1>4. toClient' \in Seq([block: Int, data: Piece])
    BY <1>2, <1>3, TailFacts, Zenon
  <1>5. UnderWay \/ Over
    BY <1>1, <1>2, Zenon DEF Stages, Idle, Requested, Named, Refused, Untouched
  <1>6. ASSUME UnderWay
        PROVE  UnderWay'
    <2>1. PacketsOK(cl, blocks, toClient)'
      <3>1. PacketsOK(cl, blocks, toClient)
        BY <1>6, Zenon DEF UnderWay, Under
      <3>2. player'.block \in Nat /\ player.block <= player'.block
        BY <1>2, <1>3
      <3>3. UNCHANGED <<cl, blocks>>
        BY <1>2
      <3> QED
        BY <1>1, <1>2, <3>1, <3>2, <3>3, PacketTaken, Zenon
    <2>2. PacketsOK(cl', blocks', toClient')
      BY <1>2, <2>1, Zenon DEF PacketsOK, BlockIn
    <2>3. Under(cl', blocks', readFailed', toClient') /\ CommandsOK(cl', toServer')
      BY <1>2, <1>6, <2>2, Zenon DEF UnderWay, Under
    <2>4. UNCHANGED <<player, asked>>
      BY <1>2
    <2> QED
      BY <2>3, <2>4, UnderPrimed, Zenon
  <1>7. ASSUME Over
        PROVE  Over'
    <2>1. player.file # NoFile => \A i \in DOMAIN toClient' : toClient'[i].block = -1
      BY <1>2, <1>3, <1>7, ErrorsTail DEF Over
    <2> QED
      BY <1>2, <1>7, <2>1, Zenon DEF Over
  <1>8. DownloadTypeOK' /\ WholeFile'
    <2>1. WholeFile'
      BY <1>1, <1>2, WholeFileKept
    <2> QED
      BY <1>1, <1>2, <1>4, <2>1, Zenon DEF DownloadTypeOK
  <1> QED
    BY <1>5, <1>6, <1>7, <1>8, Zenon DEF DownloadInv, Stages

\* Time passes.
LEMMA TickStep ==
    ASSUME DownloadInv, Tick
    PROVE  DownloadInv'
  <1> DEFINE age == cl.downloadSendAge + 1
  <1>1. DownloadTypeOK /\ Stages /\ WholeFile /\ cl \in Downloads
    BY Zenon DEF DownloadInv, DownloadTypeOK
  <1>2. /\ cl' = [cl EXCEPT !.downloadSendAge = age]
        /\ blocks' = blocks /\ player' = player /\ toClient' = toClient
        /\ toServer' = toServer /\ asked' = asked /\ readFailed' = readFailed
    BY Zenon DEF Tick
  <1>3. age \in Nat /\ cl.downloadCurrentBlock \in Nat
    BY <1>1, DownloadFields
  <1> HIDE DEF age
  <1>4. /\ cl' \in Downloads /\ AlikeButXmit(cl, cl')
        /\ cl'.downloadXmitBlock = cl.downloadXmitBlock
    BY <1>1, <1>2, <1>3 DEF Downloads, AlikeButXmit
  <1>5. DownloadTypeOK' /\ WholeFile'
    <2>1. WholeFile'
      BY <1>1, <1>2, WholeFileKept
    <2> QED
      BY <1>1, <1>2, <1>4, <2>1, Zenon DEF DownloadTypeOK
  <1>6. ASSUME UnderWay
        PROVE  UnderWay'
    <2>1. Under(cl, blocks, readFailed, toClient)
      BY <1>6, Zenon DEF UnderWay
    <2>2. cl'.downloadXmitBlock <= cl.downloadCurrentBlock
      BY <1>4, <2>1, Zenon DEF Under, CountersOK
    <2>3. Under(cl', blocks, readFailed, toClient)
      BY <1>4, <2>1, <2>2, XmitKeeps, Zenon
    <2>4. Under(cl', blocks', readFailed', toClient') /\ CommandsOK(cl', toServer')
      BY <1>2, <2>3, Zenon DEF Under
    <2>5. UNCHANGED <<player, asked>>
      BY <1>2
    <2> QED
      BY <2>4, <2>5, UnderPrimed, Zenon
  <1>7. Untouched => Untouched'
    BY <1>2, <1>4, Zenon DEF AlikeButXmit, Untouched
  <1>8. /\ Idle => Idle'
        /\ Requested => Requested'
        /\ Named => Named'
        /\ Refused => Refused'
        /\ Over => Over'
    BY <1>2, <1>4, <1>7, Zenon DEF AlikeButXmit, Idle, Requested, Named, Refused, Over
  <1> QED
    BY <1>1, <1>5, <1>6, <1>8, Zenon DEF DownloadInv, Stages

\* One more command about the client's block.
LEMMA CommandAdded ==
    ASSUME NEW S, toServer \in Seq(S), UNCHANGED cl, CommandsOK(cl, toServer),
           NEW command, toServer' = Append(toServer, command),
           command.cmd \in {"nextdl", "retransdl"}, command.arg = player.block,
           Acknowledged(command) = player'.block,
           player.block \in Nat, player'.block \in Nat, player.block <= player'.block,
           \A i \in DOMAIN toServer : Acknowledged(toServer[i]) \in Nat,
           cl.downloadEOF => player.block < cl.downloadCurrentBlock
    PROVE  CommandsOK(cl, toServer)'
  <1> DEFINE l == Len(toServer)
             q == toServer'
  <1>1. /\ l \in Nat /\ DOMAIN toServer = 1..l
        /\ Len(q) = l + 1 /\ DOMAIN q = 1..(l + 1)
        /\ q[l + 1] = command /\ q # <<>>
        /\ toServer = <<>> <=> l = 0
    OBVIOUS
  <1>2. \A i \in 1..l : q[i] = toServer[i]
    OBVIOUS
  <1>3. /\ toServer = <<>> => cl.downloadClientBlock = player.block
        /\ toServer # <<>> =>
              /\ toServer[1].arg = cl.downloadClientBlock
              /\ Acknowledged(toServer[l]) = player.block
        /\ \A i \in 1..(l - 1) : toServer[i + 1].arg = Acknowledged(toServer[i])
        /\ \A i \in DOMAIN toServer :
              /\ toServer[i].cmd \in {"nextdl", "retransdl"}
              /\ Acknowledged(toServer[i]) <= player.block
              /\ cl.downloadEOF => toServer[i].arg < cl.downloadCurrentBlock
    BY Zenon DEF CommandsOK
  <1>4. cl' = cl
    OBVIOUS
  <1> HIDE DEF l, q
  <1>5. q[1].arg = cl.downloadClientBlock /\ Acknowledged(q[Len(q)]) = player'.block
    <2>1. Acknowledged(q[Len(q)]) = player'.block
      BY <1>1, Zenon
    <2>2. CASE l = 0
      <3>1. l + 1 = 1
        BY <2>2
      <3> QED
        BY <1>1, <1>3, <2>1, <2>2, <3>1, Zenon
    <2>3. CASE l # 0
      <3>1. 1 \in 1..l
        BY <1>1, <2>3
      <3> QED
        BY <1>1, <1>2, <1>3, <2>1, <2>3, <3>1, Zenon
    <2> QED
      BY <2>2, <2>3
  <1>6. ASSUME NEW i \in 1..(Len(q) - 1)
        PROVE  q[i + 1].arg = Acknowledged(q[i])
    <2>1. CASE i = l
      <3>1. i \in 1..l /\ l # 0 /\ i + 1 = l + 1
        BY <1>1, <2>1
      <3> QED
        BY <1>1, <1>2, <1>3, <2>1, <3>1, Zenon
    <2>2. CASE i # l
      <3>1. i \in 1..l /\ i + 1 \in 1..l /\ i \in 1..(l - 1)
        BY <1>1, <2>2
      <3> QED
        BY <1>2, <1>3, <3>1, Zenon
    <2> QED
      BY <2>1, <2>2
  <1>7. ASSUME NEW i \in DOMAIN q
        PROVE  /\ q[i].cmd \in {"nextdl", "retransdl"}
               /\ Acknowledged(q[i]) <= player'.block
               /\ cl.downloadEOF => q[i].arg < cl.downloadCurrentBlock
    <2>1. CASE i = l + 1
      <3>1. q[i] = command
        BY <1>1, <2>1, Zenon
      <3>2. Acknowledged(q[i]) <= player'.block
        BY <3>1
      <3> QED
        BY <3>1, <3>2, Zenon
    <2>2. CASE i # l + 1
      <3>1. i \in 1..l
        BY <1>1, <2>2
      <3>2. q[i] = toServer[i] /\ i \in DOMAIN toServer
        BY <1>1, <1>2, <3>1, Zenon
      <3>3. Acknowledged(toServer[i]) \in Nat /\ Acknowledged(toServer[i]) <= player.block
        BY <1>3, <3>2, Zenon
      <3>4. Acknowledged(toServer[i]) <= player'.block
        BY <3>3
      <3> QED
        BY <1>3, <3>2, <3>4, Zenon
    <2> QED
      BY <2>1, <2>2
  <1> QED
    BY <1>1, <1>4, <1>5, <1>6, <1>7, Zenon DEF CommandsOK, q

\* The packet that comes next.
LEMMA FirstPacket ==
    ASSUME DownloadTypeOK, toClient # <<>>
    PROVE  /\ 1 \in DOMAIN toClient /\ Head(toClient) = toClient[1]
           /\ Head(toClient).block \in Int /\ Head(toClient).data \in Piece
           /\ Tail(toClient) \in Seq([block: Int, data: Piece])
  <1>1. toClient \in Seq([block: Int, data: Piece])
    BY Zenon DEF DownloadTypeOK
  <1>2. /\ 1 \in DOMAIN toClient /\ Head(toClient) = toClient[1]
        /\ Head(toClient) \in [block: Int, data: Piece]
    <2>1. 1 \in DOMAIN toClient /\ Head(toClient) = toClient[1]
      BY <1>1
    <2> QED
      BY <1>1, <2>1, SeqElements, Zenon
  <1>3. Tail(toClient) \in Seq([block: Int, data: Piece])
    BY <1>1, TailFacts, Zenon
  <1> QED
    BY <1>2, <1>3

\* The block the client waits for is the next piece of the file, or the end.
LEMMA AcceptedBlock ==
    ASSUME DownloadTypeOK, UnderWay, toClient # <<>>,
           Head(toClient).block = player.block, player.file # NoFile
    PROVE  /\ player.file = cl.downloadName
           /\ player.block < cl.downloadCurrentBlock
           /\ Head(toClient).data = BlockIn(blocks, player.block)
           /\ \/ /\ Head(toClient).data.size = 0
                 /\ cl.downloadEOF /\ DataBlocks(cl) = player.block
                 /\ cl.downloadCurrentBlock = player.block + 1
              \/ /\ Head(toClient).data.size # 0
                 /\ player.block < DataBlocks(cl)
                 /\ Head(toClient).data.file = cl.downloadName
                 /\ Head(toClient).data.from = GotEnd
  <1> DEFINE n == cl.downloadCurrentBlock
             m == cl.downloadClientBlock
             p == player.block
             piece == Head(toClient).data
  <1>1. /\ CountersOK(cl) /\ WindowOK(cl, blocks, readFailed)
        /\ PacketsOK(cl, blocks, toClient)
    BY Zenon DEF UnderWay, Under
  <1>2. /\ n \in Nat /\ m \in Nat /\ p \in Nat
    BY DownloadFields DEF DownloadTypeOK
  <1>3. p < n /\ piece = BlockIn(blocks, p)
    <2>1. p >= p
      BY <1>2
    <2>2. /\ 1 \in DOMAIN toClient /\ toClient[1].block = p
          /\ Head(toClient) = toClient[1]
      BY FirstPacket, Zenon
    <2> QED
      BY <1>1, <2>1, <2>2, Zenon DEF PacketsOK
  <1>4. player.file = cl.downloadName /\ p <= DataBlocks(cl) /\ m <= p
    BY <1>1, Zenon DEF CountersOK
  <1>5. DataBlocks(cl) \in Int
    BY <1>2 DEF DataBlocks
  <1> HIDE DEF piece
  <1>6. CASE p = DataBlocks(cl)
    <2>1. cl.downloadEOF /\ n = p + 1 /\ n - 1 = p
      BY <1>2, <1>3, <1>6 DEF DataBlocks
    <2>2. piece.size = 0
      BY <1>1, <1>3, <2>1, Zenon DEF WindowOK
    <2> QED
      BY <1>3, <1>4, <1>6, <2>1, <2>2, Zenon DEF piece
  <1>7. CASE p < DataBlocks(cl)
    <2>1. p \in m..(DataBlocks(cl) - 1) /\ p \in p..(DataBlocks(cl) - 1)
      BY <1>2, <1>4, <1>5, <1>7
    <2>2. piece.size > 0
      BY <1>1, <1>3, <2>1, Zenon DEF WindowOK
    <2>3. piece.size # 0
      BY <2>2
    <2>4. /\ BlockIn(blocks, p).file = cl.downloadName
          /\ BlockIn(blocks, p).from = StartOf(blocks, p)
      BY <1>1, <2>1, Zenon DEF WindowOK
    <2>5. StartOf(blocks, p) = GotEnd
      BY Zenon DEF StartOf
    <2> QED
      BY <1>3, <1>4, <1>7, <2>3, <2>4, <2>5, Zenon DEF piece
  <1> QED
    BY <1>2, <1>4, <1>5, <1>6, <1>7

Player == [file: FileOrNone, block: Nat, got: Pieces,
           done: Seq([file: FileOrNone, got: Pieces])]

\* The types of the client's fields.
LEMMA PlayerFields ==
    ASSUME DownloadTypeOK
    PROVE  /\ player \in Player
           /\ player.file \in FileOrNone /\ player.block \in Nat /\ player.got \in Pieces
           /\ player.done \in Seq([file: FileOrNone, got: Pieces])
  <1>1. player \in Player
    BY Zenon DEF DownloadTypeOK, Player
  <1> QED
    BY <1>1 DEF Player

\* A finished download is on the list; the pieces stay.
LEMMA EndTaken ==
    ASSUME DownloadTypeOK, NEW packet, TakePacket(packet), packet.block # -1,
           packet.data.size = 0
    PROVE  /\ player' \in Player
           /\ player'.file = NoFile /\ player'.block = player.block + 1
           /\ player'.got = player.got
           /\ player'.done = Append(player.done, [file |-> player.file, got |-> player.got])
           /\ toServer' = Append(toServer, Command("nextdl", packet.block))
  <1> DEFINE next == player.block + 1
             done == Append(player.done, [file |-> player.file, got |-> player.got])
  <1>1. Ends(packet)
    BY Zenon DEF Ends
  <1>2. /\ player' = [player EXCEPT !.file = NoFile, !.block = next, !.got = player.got,
                                    !.done = done]
        /\ toServer' = Append(toServer, Command("nextdl", packet.block))
    BY <1>1, Zenon DEF TakePacket
  <1>3. next \in Nat /\ done \in Seq([file: FileOrNone, got: Pieces]) /\ NoFile \in FileOrNone
    BY PlayerFields DEF FileOrNone
  <1> HIDE DEF next, done
  <1>4. /\ player' \in Player /\ player'.file = NoFile /\ player'.block = next
        /\ player'.got = player.got /\ player'.done = done
    BY <1>2, <1>3, PlayerFields DEF Player
  <1> QED
    BY <1>2, <1>4, Zenon DEF next, done

\* A piece is put behind the others.
LEMMA PieceTaken ==
    ASSUME DownloadTypeOK, NEW packet, TakePacket(packet), packet.block # -1,
           packet.data.size # 0, packet.data \in Piece
    PROVE  /\ player' \in Player
           /\ player'.file = player.file /\ player'.block = player.block + 1
           /\ player'.got = Append(player.got, packet.data)
           /\ player'.done = player.done
           /\ toServer' = Append(toServer, Command("nextdl", packet.block))
  <1> DEFINE next == player.block + 1
             got == Append(player.got, packet.data)
  <1>1. ~Ends(packet)
    BY Zenon DEF Ends
  <1>2. /\ player' = [player EXCEPT !.file = player.file, !.block = next, !.got = got,
                                    !.done = player.done]
        /\ toServer' = Append(toServer, Command("nextdl", packet.block))
    BY <1>1, Zenon DEF TakePacket
  <1>3. next \in Nat /\ got \in Pieces
    BY PlayerFields DEF Pieces
  <1> HIDE DEF next, got
  <1>4. /\ player' \in Player /\ player'.file = player.file /\ player'.block = next
        /\ player'.got = got /\ player'.done = player.done
    BY <1>2, <1>3, PlayerFields DEF Player
  <1> QED
    BY <1>2, <1>4, Zenon DEF next, got

\* An error ends the download, and is not acknowledged.
LEMMA ErrorTaken ==
    ASSUME DownloadTypeOK, NEW packet, TakePacket(packet), packet.block = -1
    PROVE  /\ player' \in Player /\ player'.file = NoFile
           /\ player'.done = player.done /\ toServer' = toServer
  <1> DEFINE next == player.block + 1
  <1>1. Ends(packet)
    BY Zenon DEF Ends
  <1>2. /\ player' = [player EXCEPT !.file = NoFile, !.block = next, !.got = player.got,
                                    !.done = player.done]
        /\ toServer' = toServer
    BY <1>1, Zenon DEF TakePacket
  <1>3. next \in Nat /\ NoFile \in FileOrNone
    BY PlayerFields DEF FileOrNone
  <1> HIDE DEF next
  <1>4. player' \in Player /\ player'.file = NoFile /\ player'.done = player.done
    BY <1>2, <1>3, PlayerFields DEF Player
  <1> QED
    BY <1>2, <1>4, Zenon

\* What follows when a block has been accepted, whatever it was.
LEMMA AcceptKeeps ==
    ASSUME DownloadTypeOK, UnderWay, toClient # <<>>, toClient' = Tail(toClient),
           player.file # NoFile, Head(toClient).block = player.block,
           toServer' = Append(toServer, Command("nextdl", player.block)),
           player' \in Player, player'.block = player.block + 1,
           UNCHANGED <<cl, blocks, asked, readFailed>>
    PROVE  /\ FileOK(cl, readFailed)' /\ PacketsOK(cl, blocks, toClient)'
           /\ CommandsOK(cl, toServer)' /\ DownloadTypeOK'
  <1> DEFINE command == Command("nextdl", player.block)
             Cmd == [cmd: {"download"}, arg: File]
                        \cup [cmd: {"nextdl", "retransdl"}, arg: Nat]
             p == player.block
  <1>1. /\ FileOK(cl, readFailed) /\ PacketsOK(cl, blocks, toClient)
        /\ CommandsOK(cl, toServer)
    BY Zenon DEF UnderWay, Under
  <1>2. cl' = cl /\ blocks' = blocks /\ asked' = asked /\ readFailed' = readFailed
    OBVIOUS
  <1>3. p \in Nat /\ player'.block \in Nat /\ p <= player'.block
    BY DownloadFields DEF DownloadTypeOK
  <1>4. FileOK(cl, readFailed)'
    BY <1>1, <1>2, Zenon DEF FileOK
  <1>5. PacketsOK(cl, blocks, toClient)'
    BY <1>1, <1>3, PacketTaken
  <1>6. /\ command \in Cmd /\ command.cmd \in {"nextdl", "retransdl"} /\ command.arg = p
        /\ Acknowledged(command) = player'.block
    BY <1>3 DEF Command, Acknowledged
  <1>7. toServer \in Seq(Cmd)
    BY Zenon DEF DownloadTypeOK
  <1> HIDE DEF command, Cmd
  <1>8. toServer' = Append(toServer, command)
    BY Zenon DEF command
  <1>9. CommandsOK(cl, toServer)'
    <2>1. p < cl.downloadCurrentBlock
      BY AcceptedBlock, Zenon
    <2>2. \A i \in DOMAIN toServer : Acknowledged(toServer[i]) \in Nat
      BY <1>1, CommandFields, Zenon
    <2> QED
      BY <1>1, <1>2, <1>3, <1>6, <1>7, <1>8, <2>1, <2>2, CommandAdded
  <1>10. DownloadTypeOK'
    <2>1. toServer' \in Seq(Cmd)
      BY <1>6, <1>7, <1>8
    <2>2. Tail(toClient) \in Seq([block: Int, data: Piece])
      BY FirstPacket, Zenon
    <2> QED
      BY <1>2, <2>1, <2>2, Zenon DEF DownloadTypeOK, Player, Cmd
  <1> QED
    BY <1>4, <1>5, <1>9, <1>10

\* A download under way has a file.
LEMMA SameFile ==
    ASSUME UnderWay
    PROVE  cl.downloadName \in File /\ cl.downloadName # NoFile
  BY DownloadAssumption, Zenon DEF UnderWay, Under, FileOK, NoFile

\* A list of finished downloads that has grown by one.
LEMMA WholeFileAdded ==
    ASSUME DownloadTypeOK, WholeFile, readFailed' = readFailed,
           NEW file \in FileOrNone, NEW got \in Pieces,
           player'.done = Append(player.done, [file |-> file, got |-> got]),
           file \in readFailed \/ Whole(file, got)
    PROVE  WholeFile'
  <1> DEFINE new == [file |-> file, got |-> got]
             Done == [file: FileOrNone, got: Pieces]
  <1>1. new \in Done /\ new.file = file /\ new.got = got
    OBVIOUS
  <1>2. player.done \in Seq(Done)
    BY PlayerFields, Zenon
  <1> HIDE DEF new, Done
  <1>3. player'.done = Append(player.done, new)
    BY Zenon DEF new
  <1>4. \A d \in ToSet(Append(player.done, new)) : d \in ToSet(player.done) \/ d = new
    <2>1. SUFFICES ASSUME NEW i \in DOMAIN Append(player.done, new)
                   PROVE  \/ Append(player.done, new)[i] = new
                          \/ \E j \in DOMAIN player.done :
                                Append(player.done, new)[i] = player.done[j]
      BY Zenon DEF ToSet
    <2>2. \/ i \in DOMAIN player.done /\ Append(player.done, new)[i] = player.done[i]
          \/ Append(player.done, new)[i] = new
      BY <1>1, <1>2
    <2> QED
      BY <2>2, Zenon
  <1>5. \A d \in ToSet(Append(player.done, new)) :
            d.file \in readFailed \/ Whole(d.file, d.got)
    BY <1>1, <1>4, Zenon DEF WholeFile
  <1> QED
    BY <1>3, <1>5, Zenon DEF WholeFile

\* The client gets the block of size zero.
LEMMA EndStep ==
    ASSUME DownloadInv, UnderWay, toClient # <<>>, toClient' = Tail(toClient),
           player.file # NoFile, Head(toClient).block = player.block,
           Head(toClient).data.size = 0, TakePacket(Head(toClient)),
           UNCHANGED <<cl, blocks, asked, readFailed>>
    PROVE  DownloadInv'
  <1> DEFINE p == player.block
             n == cl.downloadCurrentBlock
  <1>1. DownloadTypeOK /\ WholeFile
    BY Zenon DEF DownloadInv
  <1>2. p \in Nat /\ n \in Nat
    BY <1>1, DownloadFields DEF DownloadTypeOK
  <1>3. /\ player' \in Player
        /\ player'.file = NoFile /\ player'.block = p + 1
        /\ player'.got = player.got
        /\ player'.done = Append(player.done, [file |-> player.file, got |-> player.got])
        /\ toServer' = Append(toServer, Command("nextdl", p))
    <2>1. Head(toClient).block # -1
      BY <1>2
    <2> QED
      BY <1>1, <2>1, EndTaken, Zenon
  <1>4. /\ FileOK(cl, readFailed)' /\ PacketsOK(cl, blocks, toClient)'
        /\ CommandsOK(cl, toServer)' /\ DownloadTypeOK'
    BY <1>1, <1>3, AcceptKeeps
  <1>5. /\ player.file = cl.downloadName /\ cl.downloadEOF /\ DataBlocks(cl) = p
        /\ n = p + 1
    BY <1>1, AcceptedBlock, Zenon
  <1>6. /\ FileOK(cl, readFailed) /\ CountersOK(cl) /\ WindowOK(cl, blocks, readFailed)
        /\ Prefix(cl.downloadName, player.got)
    BY Zenon DEF UnderWay, Under
  <1>7. /\ cl' = cl /\ blocks' = blocks /\ readFailed' = readFailed
        /\ DataBlocks(cl)' = DataBlocks(cl)
    BY DEF DataBlocks
  <1>8. cl.downloadName \in File /\ cl.downloadName # NoFile
    BY SameFile
  <1>9. CountersOK(cl)'
    <2>1. cl.downloadClientBlock <= player'.block /\ player'.block <= n
      <3>1. cl.downloadClientBlock <= p /\ cl.downloadClientBlock \in Nat
        BY <1>1, <1>6, DownloadFields DEF CountersOK, DownloadTypeOK
      <3> QED
        BY <1>2, <1>3, <1>5, <3>1
    <2>2. player'.block = n
      BY <1>3, <1>5, Zenon
    <2> QED
      BY <1>3, <1>5, <1>6, <1>7, <1>8, <2>1, <2>2, Zenon DEF CountersOK
  <1>10. WindowOK(cl, blocks, readFailed)'
    <2>1. \A b : b \notin player'.block..(p - 1)
      BY <1>2, <1>3
    <2>2. /\ \A b \in cl.downloadClientBlock..(p - 1) : BlockIn(blocks, b).size > 0
          /\ cl.downloadEOF => BlockIn(blocks, n - 1).size = 0
      BY <1>5, <1>6, Zenon DEF WindowOK
    <2> QED
      BY <1>3, <1>5, <1>7, <1>8, <2>1, <2>2, Zenon DEF WindowOK, BlockIn
  <1>11. Prefix(cl.downloadName, player.got)'
    BY <1>3, <1>6, <1>7, Zenon DEF Prefix
  <1>12. UnderWay'
    BY <1>4, <1>9, <1>10, <1>11, Zenon DEF UnderWay, Under
  <1>13. WholeFile'
    <2>1. player.file \in FileOrNone /\ player.got \in Pieces
      BY <1>1, PlayerFields
    <2>2. ASSUME player.file \notin readFailed
          PROVE  Whole(player.file, player.got)
      <3>1. cl.downloadCount = SizeOf[player.file] /\ StartOf(blocks, p) = cl.downloadCount
        BY <1>5, <1>6, <2>2, Zenon DEF FileOK, WindowOK
      <3>2. GotEnd = SizeOf[player.file]
        BY <3>1, Zenon DEF StartOf
      <3>3. SizeOf[player.file] # 0
        BY <1>5, <1>8, DownloadAssumption
      <3>4. player.got # <<>> /\ EndOf(Last(player.got)) = SizeOf[player.file]
        BY <3>2, <3>3, Zenon DEF GotEnd
      <3> QED
        BY <1>5, <1>6, <3>4, Zenon DEF Whole, EndOf
    <2> QED
      BY <1>1, <1>3, <1>7, <2>1, <2>2, WholeFileAdded, Zenon
  <1> QED
    BY <1>4, <1>12, <1>13, Zenon DEF DownloadInv, Stages

\* A piece that begins where the others end.
LEMMA PrefixGrows ==
    ASSUME NEW f, NEW got \in Pieces, NEW piece \in Piece, Prefix(f, got), piece.file = f,
           piece.from = IF got = <<>> THEN 0 ELSE EndOf(Last(got))
    PROVE  Prefix(f, Append(got, piece)) /\ Last(Append(got, piece)) = piece
           /\ Append(got, piece) # <<>>
  <1> DEFINE l == Len(got)
             more == Append(got, piece)
  <1>1. got \in Seq(Piece)
    BY DEF Pieces
  <1>2. /\ l \in Nat /\ DOMAIN got = 1..l /\ DOMAIN more = 1..(l + 1) /\ Len(more) = l + 1
        /\ more[l + 1] = piece /\ more # <<>>
        /\ got = <<>> <=> l = 0
    <2>1. /\ l \in Nat /\ DOMAIN got = 1..l /\ more \in Seq(Piece) /\ Len(more) = l + 1
          /\ more[l + 1] = piece
      BY <1>1
    <2>2. got = <<>> <=> l = 0
      BY <1>1
    <2>3. DOMAIN more = 1..(l + 1) /\ more # <<>>
      BY <2>1
    <2> QED
      BY <2>1, <2>2, <2>3, Zenon
  <1>3. \A k \in 1..l : more[k] = got[k]
    BY <1>1
  <1>4. Last(got) = got[l] /\ Last(more) = more[Len(more)]
    BY Zenon DEF Last
  <1> HIDE DEF l, more
  <1>5. ASSUME NEW k \in DOMAIN more
        PROVE  /\ more[k].file = f
               /\ more[k].from = IF k = 1 THEN 0 ELSE more[k - 1].from + more[k - 1].size
    <2>1. CASE k = l + 1
      <3>1. more[k] = piece
        BY <1>2, <2>1, Zenon
      <3>2. CASE l = 0
        <4>1. k = 1 /\ got = <<>>
          BY <1>2, <2>1, <3>2
        <4> QED
          BY <3>1, <4>1, Zenon
      <3>3. CASE l # 0
        <4>1. k # 1 /\ k - 1 = l /\ l \in 1..l /\ got # <<>>
          BY <1>2, <2>1, <3>3
        <4>2. more[k - 1] = got[l]
          BY <1>3, <4>1, Zenon
        <4> QED
          BY <1>4, <3>1, <4>1, <4>2, Zenon DEF EndOf
      <3> QED
        BY <3>2, <3>3
    <2>2. CASE k # l + 1
      <3>1. k \in DOMAIN got /\ k \in 1..l /\ (k # 1 => k - 1 \in 1..l)
        BY <1>2, <2>2
      <3>2. /\ got[k].file = f
            /\ got[k].from = IF k = 1 THEN 0 ELSE got[k - 1].from + got[k - 1].size
        BY <3>1, Zenon DEF Prefix
      <3>3. more[k] = got[k] /\ (k # 1 => more[k - 1] = got[k - 1])
        BY <1>3, <3>1, Zenon
      <3> QED
        BY <3>2, <3>3, Zenon
    <2> QED
      BY <2>1, <2>2
  <1>6. Prefix(f, more)
    BY <1>5, Zenon DEF Prefix
  <1> QED
    BY <1>2, <1>4, <1>6, Zenon DEF more

\* It gets the next piece.
LEMMA PieceStep ==
    ASSUME DownloadInv, UnderWay, toClient # <<>>, toClient' = Tail(toClient),
           player.file # NoFile, Head(toClient).block = player.block,
           Head(toClient).data.size # 0, TakePacket(Head(toClient)),
           UNCHANGED <<cl, blocks, asked, readFailed>>
    PROVE  DownloadInv'
  <1> DEFINE p == player.block
             n == cl.downloadCurrentBlock
             m == cl.downloadClientBlock
             d == DataBlocks(cl)
             piece == Head(toClient).data
  <1>1. DownloadTypeOK /\ WholeFile
    BY Zenon DEF DownloadInv
  <1>2. p \in Nat /\ n \in Nat /\ m \in Nat /\ d \in Int
    BY <1>1, DownloadFields DEF DownloadTypeOK, DataBlocks
  <1>3. piece \in Piece
    BY <1>1, FirstPacket, Zenon
  <1>4. /\ player' \in Player
        /\ player'.file = player.file /\ player'.block = p + 1
        /\ player'.got = Append(player.got, piece)
        /\ player'.done = player.done
        /\ toServer' = Append(toServer, Command("nextdl", p))
    <2>1. Head(toClient).block # -1
      BY <1>2
    <2> QED
      BY <1>1, <1>3, <2>1, PieceTaken, Zenon
  <1>5. /\ FileOK(cl, readFailed)' /\ PacketsOK(cl, blocks, toClient)'
        /\ CommandsOK(cl, toServer)' /\ DownloadTypeOK'
    BY <1>1, <1>4, AcceptKeeps
  <1>6. /\ player.file = cl.downloadName /\ p < n /\ p < d
        /\ piece = BlockIn(blocks, p)
        /\ piece.file = cl.downloadName /\ piece.from = GotEnd
    BY <1>1, AcceptedBlock, Zenon
  <1>7. /\ FileOK(cl, readFailed) /\ CountersOK(cl) /\ WindowOK(cl, blocks, readFailed)
        /\ Prefix(cl.downloadName, player.got)
    BY Zenon DEF UnderWay, Under
  <1>8. /\ cl' = cl /\ blocks' = blocks /\ readFailed' = readFailed
        /\ DataBlocks(cl)' = DataBlocks(cl)
    BY DEF DataBlocks
  <1> HIDE DEF d, piece
  <1>9. /\ Prefix(cl.downloadName, player'.got) /\ player'.got # <<>>
        /\ Last(player'.got) = piece
    <2>1. player.got \in Pieces
      BY <1>1, PlayerFields
    <2> QED
      BY <1>3, <1>4, <1>6, <1>7, <2>1, PrefixGrows, Zenon DEF GotEnd
  <1>10. CountersOK(cl)'
    <2>1. m <= p /\ cl.downloadXmitBlock <= n /\ n - m <= MAX_DOWNLOAD_WINDOW /\ m <= d
      BY <1>7, Zenon DEF CountersOK, d
    <2>2. m <= player'.block /\ player'.block <= n /\ player'.block <= d
      BY <1>2, <1>4, <1>6, <2>1
    <2> QED
      BY <1>4, <1>6, <1>8, <2>1, <2>2, Zenon DEF CountersOK, d
  <1>11. WindowOK(cl, blocks, readFailed)'
    <2>1. /\ \A b \in m..(d - 1) : BlockIn(blocks, b).size > 0
          /\ \A b \in p..(d - 1) :
                  /\ BlockIn(blocks, b).file = cl.downloadName
                  /\ BlockIn(blocks, b).from = StartOf(blocks, b)
          /\ cl.downloadName \notin readFailed => StartOf(blocks, d) = cl.downloadCount
          /\ cl.downloadEOF => BlockIn(blocks, n - 1).size = 0
      BY <1>6, <1>7, Zenon DEF WindowOK, d
    <2>2. GotEnd' = EndOf(piece)
      BY <1>9, Zenon DEF GotEnd, EndOf
    <2>3. \A b \in player'.block..d : StartOf(blocks, b)' = StartOf(blocks, b)
      <3>1. SUFFICES ASSUME NEW b \in player'.block..d
                     PROVE  StartOf(blocks, b)' = StartOf(blocks, b)
        OBVIOUS
      <3>2. b # p /\ b \in Int
        BY <1>2, <1>4
      <3>3. CASE b = player'.block
        <4>1. b - 1 = p
          BY <1>2, <1>4, <3>3
        <4> QED
          BY <1>6, <2>2, <3>2, <3>3, <4>1, Zenon DEF StartOf
      <3>4. CASE b # player'.block
        BY <1>8, <3>2, <3>4, Zenon DEF StartOf, BlockIn, EndOf
      <3> QED
        BY <3>3, <3>4
    <2>4. /\ d \in player'.block..d
          /\ \A b \in player'.block..(d - 1) : b \in player'.block..d /\ b \in p..(d - 1)
      BY <1>2, <1>4, <1>6
    <2>5. \A b \in player'.block..(d - 1) :
                  /\ BlockIn(blocks, b).file = cl.downloadName
                  /\ BlockIn(blocks, b).from = StartOf(blocks, b)'
      BY <2>1, <2>3, <2>4, Zenon
    <2>6. d' = d /\ \A b : BlockIn(blocks, b)' = BlockIn(blocks, b)
      BY <1>8, Zenon DEF d, BlockIn
    <2>7. cl.downloadName \notin readFailed => StartOf(blocks, d)' = cl.downloadCount
      <3>1. d # p
        BY <1>2, <1>6
      <3>2. CASE d = player'.block
        <4>1. d - 1 = p
          BY <1>2, <1>4, <3>2
        <4> QED
          BY <1>6, <2>1, <2>2, <2>6, <3>1, <3>2, <4>1, Zenon DEF StartOf
      <3>3. CASE d # player'.block
        BY <1>8, <2>1, <2>6, <3>1, <3>3, Zenon DEF StartOf, BlockIn, EndOf
      <3> QED
        BY <3>2, <3>3
    <2> QED
      BY <1>6, <1>8, <2>1, <2>5, <2>6, <2>7, Zenon DEF WindowOK, d
  <1>12. Prefix(cl.downloadName, player.got)'
    BY <1>8, <1>9, Zenon DEF Prefix
  <1>13. UnderWay'
    BY <1>5, <1>10, <1>11, <1>12, Zenon DEF UnderWay, Under
  <1>14. WholeFile'
    BY <1>1, <1>4, <1>8, WholeFileKept
  <1> QED
    BY <1>5, <1>13, <1>14, Zenon DEF DownloadInv, Stages

\* A packet that is not the one the client waits for changes nothing but that
\* the client may ask for its block again.
LEMMA IgnoreStep ==
    ASSUME DownloadInv, UnderWay, toClient # <<>>, toClient' = Tail(toClient),
           UNCHANGED <<cl, blocks, player, asked, readFailed>>,
           \/ toServer' = toServer
           \/ /\ player.file # NoFile /\ Head(toClient).block > player.block
              /\ toServer' = Append(toServer, Command("retransdl", player.block))
    PROVE  DownloadInv'
  <1> DEFINE command == Command("retransdl", player.block)
             Cmd == [cmd: {"download"}, arg: File]
                        \cup [cmd: {"nextdl", "retransdl"}, arg: Nat]
             p == player.block
  <1>1. DownloadTypeOK /\ WholeFile
    BY Zenon DEF DownloadInv
  <1>2. /\ CountersOK(cl) /\ PacketsOK(cl, blocks, toClient) /\ CommandsOK(cl, toServer)
        /\ Under(cl, blocks, readFailed, toClient)
    BY Zenon DEF UnderWay, Under
  <1>3. /\ cl' = cl /\ blocks' = blocks /\ player' = player /\ asked' = asked
        /\ readFailed' = readFailed
    OBVIOUS
  <1>4. p \in Nat /\ cl.downloadCurrentBlock \in Nat
    BY <1>1, DownloadFields DEF DownloadTypeOK
  <1>5. PacketsOK(cl', blocks', toClient')
    <2>1. player'.block \in Nat /\ p <= player'.block
      BY <1>3, <1>4
    <2>2. PacketsOK(cl, blocks, toClient)'
      BY <1>1, <1>2, <2>1, PacketTaken
    <2> QED
      BY <1>3, <2>2, Zenon DEF PacketsOK, BlockIn
  <1>6. command \in Cmd /\ command.cmd \in {"nextdl", "retransdl"} /\ command.arg = p
        /\ Acknowledged(command) = p
    BY <1>4 DEF Command, Acknowledged
  <1>7. toServer \in Seq(Cmd)
    BY <1>1, Zenon DEF DownloadTypeOK
  <1> HIDE DEF command, Cmd
  <1>8. CommandsOK(cl', toServer') /\ toServer' \in Seq(Cmd)
    <2>1. ASSUME toServer' = toServer
          PROVE  CommandsOK(cl', toServer') /\ toServer' \in Seq(Cmd)
      <3>1. CommandsOK(cl', toServer')
        BY <1>2, <1>3, <2>1, Zenon
      <3>2. toServer' \in Seq(Cmd)
        BY <1>7, <2>1, Zenon
      <3> QED
        BY <3>1, <3>2
    <2>2. ASSUME player.file # NoFile, Head(toClient).block > p,
                 toServer' = Append(toServer, command)
          PROVE  CommandsOK(cl', toServer') /\ toServer' \in Seq(Cmd)
      <3>1. Head(toClient) = toClient[1] /\ 1 \in DOMAIN toClient
            /\ Head(toClient).block \in Int
        BY <1>1, FirstPacket, Zenon
      <3>2. Head(toClient).block >= p
        BY <1>4, <2>2, <3>1
      <3>3. Head(toClient).block < cl.downloadCurrentBlock
        BY <1>2, <3>1, <3>2, Zenon DEF PacketsOK
      <3>4. p < cl.downloadCurrentBlock
        BY <1>4, <2>2, <3>1, <3>3
      <3>5. \A i \in DOMAIN toServer : Acknowledged(toServer[i]) \in Nat
        BY <1>1, <1>2, CommandFields, Zenon
      <3>6. player'.block = p /\ p <= p
        BY <1>3, <1>4
      <3>7. CommandsOK(cl, toServer)'
        BY <1>2, <1>3, <1>4, <1>6, <1>7, <2>2, <3>4, <3>5, <3>6, CommandAdded
      <3>8. CommandsOK(cl', toServer')
        BY <3>7, Zenon DEF CommandsOK
      <3>9. toServer' \in Seq(Cmd)
        BY <1>6, <1>7, <2>2
      <3> QED
        BY <3>8, <3>9
    <2> QED
      BY <2>1, <2>2, Zenon DEF command
  <1>9. UnderWay'
    <2>1. CommandsOK(cl', toServer)
      BY <1>2, <1>3, Zenon
    <2>2. Under(cl', blocks', readFailed', toClient')
      BY <1>2, <1>3, <1>5, <2>1, Zenon DEF Under
    <2>3. UNCHANGED <<player, asked>>
      BY <1>3
    <2> QED
      BY <1>8, <2>2, <2>3, UnderPrimed, Zenon
  <1>10. DownloadTypeOK'
    <2>1. Tail(toClient) \in Seq([block: Int, data: Piece])
      BY <1>1, FirstPacket, Zenon
    <2> QED
      BY <1>1, <1>3, <1>8, <2>1, Zenon DEF DownloadTypeOK, Cmd
  <1>11. WholeFile'
    BY <1>1, <1>3, WholeFileKept
  <1> QED
    BY <1>9, <1>10, <1>11, Zenon DEF DownloadInv, Stages

\* It gets a packet after its download is over.
LEMMA ReceiveOverStep ==
    ASSUME DownloadInv, Over, Receive
    PROVE  DownloadInv'
  <1>1. DownloadTypeOK /\ WholeFile
    BY Zenon DEF DownloadInv
  <1>2. /\ toClient # <<>> /\ toClient' = Tail(toClient)
        /\ cl' = cl /\ blocks' = blocks /\ asked' = asked /\ readFailed' = readFailed
    BY Zenon DEF Receive
  <1>3. Tail(toClient) \in Seq([block: Int, data: Piece])
    BY <1>1, <1>2, FirstPacket, Zenon
  <1>4. /\ player' \in Player /\ player'.file = NoFile
        /\ player'.done = player.done /\ toServer' = toServer
    <2>1. CASE player.file = NoFile
      <3>1. player' = player /\ toServer' = toServer
        BY <2>1, Zenon DEF Receive
      <3> QED
        BY <1>1, <2>1, <3>1, PlayerFields, Zenon
    <2>2. CASE player.file # NoFile
      <3>1. Head(toClient) = toClient[1] /\ 1 \in DOMAIN toClient
        BY <1>1, <1>2, FirstPacket, Zenon
      <3>2. Head(toClient).block = -1
        BY <2>2, <3>1, Zenon DEF Over
      <3>3. TakePacket(Head(toClient))
        <4>1. Head(toClient).block \in {-1, player.block}
          BY <3>2
        <4> QED
          BY <2>2, <4>1, Zenon DEF Receive
      <3> QED
        BY <1>1, <3>2, <3>3, ErrorTaken, Zenon
    <2> QED
      BY <2>1, <2>2
  <1>5. Over'
    BY <1>2, <1>4, Zenon DEF Over
  <1>6. DownloadTypeOK'
    BY <1>1, <1>2, <1>3, <1>4, Zenon DEF DownloadTypeOK, Player
  <1>7. WholeFile'
    BY <1>1, <1>2, <1>4, WholeFileKept
  <1> QED
    BY <1>5, <1>6, <1>7, Zenon DEF DownloadInv, Stages

\* It gets any packet.
LEMMA ReceiveStep ==
    ASSUME DownloadInv, Receive
    PROVE  DownloadInv'
  <1>1. DownloadTypeOK
    BY Zenon DEF DownloadInv
  <1>2. /\ toClient # <<>> /\ toClient' = Tail(toClient)
        /\ UNCHANGED <<cl, blocks, asked, readFailed>>
    BY Zenon DEF Receive
  <1>3. UnderWay \/ Over
    BY <1>2, Zenon DEF DownloadInv, Stages, Idle, Requested, Named, Refused, Untouched
  <1>4. CASE Over
    BY <1>4, ReceiveOverStep
  <1>5. CASE UnderWay
    <2>1. CASE player.file # NoFile /\ Head(toClient).block \in {-1, player.block}
      <3>1. TakePacket(Head(toClient))
        BY <2>1, Zenon DEF Receive
      <3>2. Head(toClient).block = player.block
        <4>1. PacketsOK(cl, blocks, toClient)
          BY <1>5, Zenon DEF UnderWay, Under
        <4>2. Head(toClient).block >= 0
          BY <1>1, <1>2, <4>1, FirstPacket, Zenon DEF PacketsOK
        <4>3. Head(toClient).block # -1
          BY <4>2
        <4> QED
          BY <2>1, <4>3
      <3>3. CASE Head(toClient).data.size = 0
        BY <1>2, <1>5, <2>1, <3>1, <3>2, <3>3, EndStep, Zenon
      <3>4. CASE Head(toClient).data.size # 0
        BY <1>2, <1>5, <2>1, <3>1, <3>2, <3>4, PieceStep, Zenon
      <3> QED
        BY <3>3, <3>4
    <2>2. CASE ~(player.file # NoFile /\ Head(toClient).block \in {-1, player.block})
      <3>1. /\ player' = player
            /\ \/ toServer' = toServer
               \/ /\ player.file # NoFile /\ Head(toClient).block > player.block
                  /\ toServer' = Append(toServer, Command("retransdl", player.block))
        BY <2>2, Zenon DEF Receive
      <3>2. UNCHANGED <<cl, blocks, player, asked, readFailed>>
        BY <1>2, <3>1
      <3> QED
        BY <1>2, <1>5, <3>1, <3>2, IgnoreStep, Zenon
    <2> QED
      BY <2>1, <2>2
  <1> QED
    BY <1>3, <1>4, <1>5

------------------------------------------------------------------------------
(* The theorems *)

\* The invariant holds at first.
LEMMA DownloadInit == Init => DownloadInv
  <1> SUFFICES ASSUME Init
               PROVE  DownloadInv
    OBVIOUS
  <1>1. /\ cl = [downloadName |-> NoFile, download |-> FALSE, downloadSize |-> 0,
                 downloadCount |-> 0, downloadClientBlock |-> 0,
                 downloadCurrentBlock |-> 0, downloadXmitBlock |-> 0,
                 downloadEOF |-> FALSE, downloadSendAge |-> 0, dropped |-> FALSE]
        /\ blocks = [s \in Window |-> NoData]
        /\ player = [file |-> NoFile, block |-> 0, got |-> <<>>, done |-> <<>>]
        /\ toClient = <<>> /\ toServer = <<>> /\ asked = {} /\ readFailed = {}
    BY Zenon DEF Init
  <1>2. NoFile \in FileOrNone
    BY DEF FileOrNone
  <1>3. /\ cl \in Downloads /\ cl.downloadName = NoFile /\ ~cl.download
        /\ cl.downloadClientBlock = 0 /\ ~cl.dropped
    <2>1. ASSUME NEW a \in BOOLEAN, NEW b \in BOOLEAN, NEW d \in BOOLEAN, NEW f \in FileOrNone
          PROVE  LET c == [downloadName |-> f, download |-> a, downloadSize |-> 0,
                           downloadCount |-> 0, downloadClientBlock |-> 0,
                           downloadCurrentBlock |-> 0, downloadXmitBlock |-> 0,
                           downloadEOF |-> b, downloadSendAge |-> 0, dropped |-> d]
                 IN  /\ c \in Downloads /\ c.downloadName = f /\ c.download = a
                     /\ c.downloadClientBlock = 0 /\ c.dropped = d
      BY DEF Downloads
    <2> QED
      BY <1>1, <1>2, <2>1, Zenon
  <1>4. blocks \in [Window -> Piece]
    <2>1. NoData \in Piece
      BY DEF NoData, Piece, FileOrNone
    <2> QED
      BY <1>1, <2>1, Zenon
  <1>5. /\ player \in Player /\ player.file = NoFile /\ player.block = 0
        /\ player.got = <<>> /\ player.done = <<>>
    <2>1. <<>> \in Pieces /\ <<>> \in Seq([file: FileOrNone, got: Pieces])
      BY DEF Pieces
    <2>2. ASSUME NEW got \in Pieces, NEW done \in Seq([file: FileOrNone, got: Pieces]),
                 NEW f \in FileOrNone
          PROVE  LET p == [file |-> f, block |-> 0, got |-> got, done |-> done]
                 IN  /\ p \in Player /\ p.file = f /\ p.block = 0 /\ p.got = got
                     /\ p.done = done
      BY DEF Player
    <2> QED
      BY <1>1, <1>2, <2>1, <2>2, Zenon
  <1>6. DownloadTypeOK
    <2>1. <<>> \in Seq([block: Int, data: Piece])
      OBVIOUS
    <2>2. <<>> \in Seq([cmd: {"download"}, arg: File]
                       \cup [cmd: {"nextdl", "retransdl"}, arg: Nat])
      OBVIOUS
    <2> QED
      BY <1>1, <1>3, <1>4, <1>5, <2>1, <2>2, Zenon DEF DownloadTypeOK, Player
  <1>7. Idle
    BY <1>1, <1>3, <1>5, Zenon DEF Idle, Untouched
  <1>8. WholeFile
    <2>1. ToSet(player.done) = {}
      BY <1>5 DEF ToSet
    <2> QED
      BY <2>1, Zenon DEF WholeFile
  <1> QED
    BY <1>6, <1>7, <1>8, Zenon DEF DownloadInv, Stages

\* It holds after a step of nothing.
LEMMA DownloadStuttering ==
    ASSUME DownloadInv, UNCHANGED vars
    PROVE  DownloadInv'
  <1>1. /\ DownloadTypeOK /\ Stages /\ WholeFile
        /\ cl' = cl /\ blocks' = blocks /\ player' = player /\ toClient' = toClient
        /\ toServer' = toServer /\ asked' = asked /\ readFailed' = readFailed
    BY Zenon DEF DownloadInv, vars
  <1>2. DownloadTypeOK'
    BY <1>1, Zenon DEF DownloadTypeOK
  <1>3. WholeFile'
    BY <1>1, WholeFileKept
  <1>4. UnderWay => UnderWay'
    <2>1. ASSUME UnderWay
          PROVE  Under(cl', blocks', readFailed', toClient') /\ CommandsOK(cl', toServer')
      BY <1>1, <2>1, Zenon DEF UnderWay, Under
    <2>2. UNCHANGED <<player, asked>>
      BY <1>1
    <2> QED
      BY <2>1, <2>2, UnderPrimed, Zenon
  <1>5. Untouched => Untouched'
    BY <1>1, Zenon DEF Untouched
  <1>6. /\ Idle => Idle'
        /\ Requested => Requested'
        /\ Named => Named'
        /\ Refused => Refused'
        /\ Over => Over'
    BY <1>1, <1>5, Zenon DEF Idle, Requested, Named, Refused, Over
  <1> QED
    BY <1>1, <1>2, <1>3, <1>4, <1>6, Zenon DEF DownloadInv, Stages

\* It always holds.
LEMMA DownloadInvariant ==
    ASSUME MaxRequests = 1
    PROVE  Spec => []DownloadInv
  <1>1. Init => DownloadInv
    BY DownloadInit
  <1>2. DownloadInv /\ [Next]_vars => DownloadInv'
    <2> SUFFICES ASSUME DownloadInv, [Next]_vars
                 PROVE  DownloadInv'
      OBVIOUS
    <2>1. CASE Write
      BY <2>1, WriteStep, Zenon DEF Write
    <2>2. CASE ClientCommand
      BY <2>2, CommandStep
    <2>3. ASSUME NEW f \in File, Request(f)
          PROVE  DownloadInv'
      BY <2>3, RequestStep
    <2>4. CASE Receive
      BY <2>4, ReceiveStep
    <2>5. CASE Lose
      BY <2>5, LoseStep
    <2>6. CASE Tick
      BY <2>6, TickStep
    <2>7. CASE UNCHANGED vars
      BY <2>7, DownloadStuttering
    <2> QED
      BY <2>1, <2>2, <2>3, <2>4, <2>5, <2>6, <2>7, Zenon DEF Next
  <1> QED
    BY <1>1, <1>2, PTL DEF Spec

\* What a client has got of its one download is at any moment the beginning of
\* the file, piece after piece: custom_SV_WriteDownloadToClient never sends it
\* the data of another block under the number it waits for, though the window's
\* buffers are reused, blocks are lost and sent again, and the block size changes.
THEOREM PiecesStayInOrder ==
    ASSUME MaxRequests = 1
    PROVE  Spec => []PiecesInOrder
  <1>1. DownloadInv => PiecesInOrder
    <2> SUFFICES ASSUME DownloadInv, player.file # NoFile
                 PROVE  Prefix(player.file, player.got)
      BY Zenon DEF PiecesInOrder
    <2>1. CASE UnderWay
      <3>1. Prefix(cl.downloadName, player.got) /\ player.file = cl.downloadName
        BY <2>1, Zenon DEF UnderWay, Under, CountersOK
      <3> QED
        BY <3>1, Zenon
    <2>2. CASE player.got = <<>>
      <3>1. DOMAIN player.got = {}
        BY <2>2
      <3> QED
        BY <3>1, Zenon DEF Prefix
    <2>3. UnderWay \/ player.got = <<>>
      BY Zenon DEF DownloadInv, Stages, Idle, Requested, Named, Refused, Untouched, Over
    <2> QED
      BY <2>1, <2>2, <2>3
  <1> QED
    BY <1>1, DownloadInvariant, PTL

\* A download that the end block ended has brought the whole file, unless a read
\* failed, which the code takes for the end of the file.
THEOREM FilesArriveWhole ==
    ASSUME MaxRequests = 1
    PROVE  Spec => []WholeFile
  <1>1. DownloadInv => WholeFile
    BY Zenon DEF DownloadInv
  <1> QED
    BY <1>1, DownloadInvariant, PTL

\* No acknowledgement of a client that keeps to the protocol is taken for a
\* "broken download": only a file that SV_BeginDownload refuses gets it dropped.
THEOREM OnlyRefusedAreDropped ==
    ASSUME MaxRequests = 1
    PROVE  Spec => []NeverBroken
  <1>1. DownloadInv => NeverBroken
    <2> SUFFICES ASSUME DownloadInv, cl.dropped
                 PROVE  ~(asked \subseteq Allowed \cup Dotted)
      BY Zenon DEF NeverBroken
    <2>1. Refused
      BY Zenon DEF DownloadInv, Stages, Idle, Requested, Named, UnderWay, Under, FileOK, Over
    <2>2. player.file \in File \ Allowed /\ player.file \notin Dotted /\ asked = {player.file}
      BY <2>1, Zenon DEF Refused
    <2> QED
      BY <2>2
  <1> QED
    BY <1>1, DownloadInvariant, PTL

=============================================================================
