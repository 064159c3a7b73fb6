------------------------------ MODULE Download ------------------------------
(***************************************************************************)
(* A client downloading files from the server: SV_BeginDownload and        *)
(* custom_SV_WriteDownloadToClient of sv_client.c, with the handlers of    *)
(* nextdl and retransdl that stay in the engine.  Blocks go out in packets *)
(* that can be lost, and the netchan hands over no packet out of order;    *)
(* the commands of the client are reliable.  A file is a number of units;  *)
(* a block holds one unit, or FastUnits of them under sv_fastDownload.     *)
(***************************************************************************)
EXTENDS Integers, FiniteSets, SequencesExt

CONSTANTS
    File,                   \* files a client asks for
    SizeOf,                 \* their sizes, in units
    Allowed,                \* the files SV_BeginDownload lets through
    Dotted,                 \* names with "..", to which it gives no answer
    Found,                  \* the files that can be opened and sent
    MAX_DOWNLOAD_WINDOW,    \* 8 in shared.h
    FastUnits,              \* MAX_DOWNLOAD_BLKSIZE_FAST, in blocks: 4
    ResendAfter,            \* ticks in 1000 ms
    MaxRequests,            \* bound on the files asked for
    MaxInFlight,            \* bound on the packets under way to the client
    MaxCommands             \* bound on the commands under way beside nextdl

ASSUME DownloadAssumption ==
    /\ SizeOf \in [File -> Nat \ {0}] /\ "none" \notin File
    /\ Allowed \subseteq File /\ Found \subseteq File
    /\ Dotted \subseteq File /\ Dotted \cap Allowed = {}
    /\ MAX_DOWNLOAD_WINDOW \in Nat \ {0} /\ FastUnits \in Nat \ {0}
    /\ ResendAfter \in Nat /\ MaxInFlight \in Nat \ {0}
    /\ MaxCommands \in Nat \ {0} /\ MaxRequests \in Nat

VARIABLES
    cl,             \* the download fields of client_t
    blocks,         \* downloadBlocks and downloadBlockSize
    player,         \* the client's own side
    toClient,       \* packets under way
    toServer,       \* commands under way
    asked,          \* files asked for so far
    readFailed      \* files a read of which has failed

vars == <<cl, blocks, player, toClient, toServer, asked, readFailed>>

NoFile == "none"
Window == 0..(MAX_DOWNLOAD_WINDOW - 1)
Slot(block) == block % MAX_DOWNLOAD_WINDOW
Least(a, b) == IF a < b THEN a ELSE b

NoData == [file |-> NoFile, from |-> 0, size |-> 0]

------------------------------------------------------------------------------
(* The engine's part *)

\* SV_CloseDownload and stopdl: the block numbers stay as they are.
Closed(c) == [c EXCEPT !.downloadName = NoFile, !.download = FALSE]

\* nextdl: the block size 0 marks the end of the file.
NextDownload(block) ==
    /\ cl' = IF block # cl.downloadClientBlock THEN [cl EXCEPT !.dropped = TRUE]
             ELSE IF blocks[Slot(block)].size = 0 THEN Closed(cl)
             ELSE [cl EXCEPT !.downloadClientBlock = @ + 1, !.downloadSendAge = 0]
    /\ UNCHANGED <<blocks, toClient>>

\* retransdl: send again from the block the client is waiting for.
RetransmitDownload(block) ==
    /\ cl' = IF block = cl.downloadClientBlock
             THEN [cl EXCEPT !.downloadXmitBlock = block] ELSE cl
    /\ UNCHANGED <<blocks, toClient>>

------------------------------------------------------------------------------
(* SV_BeginDownload *)

\* Every request ends the download before it.  Who asks for a name with ".." is
\* not answered, and not dropped either.
BeginDownload(f) ==
    /\ cl' = IF f \in Allowed THEN [Closed(cl) EXCEPT !.downloadName = f]
             ELSE [Closed(cl) EXCEPT !.dropped = f \notin Dotted]
    /\ UNCHANGED <<blocks, toClient>>

------------------------------------------------------------------------------
(* custom_SV_WriteDownloadToClient *)

Opened ==
    IF cl.download THEN cl
    ELSE [cl EXCEPT !.download = TRUE, !.downloadSize = SizeOf[cl.downloadName],
                    !.downloadCurrentBlock = 0, !.downloadClientBlock = 0,
                    !.downloadXmitBlock = 0, !.downloadCount = 0,
                    !.downloadEOF = FALSE]

Room(c) == MAX_DOWNLOAD_WINDOW - (c.downloadCurrentBlock - c.downloadClientBlock)

Units(fast) == IF fast THEN FastUnits ELSE 1

\* The blocks of so many units that there is room for and that are left to read.
BlocksToRead(c, units) ==
    Least(Room(c), (c.downloadSize - c.downloadCount + units - 1) \div units)

\* Mutant: a fast block is counted as one unit.
AfterReadsUnscaled(c, units, reads, fails) ==
    [c EXCEPT !.downloadCurrentBlock = @ + reads,
              !.downloadCount = IF fails THEN c.downloadSize
                                ELSE Least(c.downloadSize, @ + reads)]

\* After reads blocks have been read; when fails, the next read returns -1, and
\* the code takes that for the end of the file.
AfterReads(c, units, reads, fails) ==
    [c EXCEPT !.downloadCurrentBlock = @ + reads,
              !.downloadCount = IF fails THEN c.downloadSize
                                ELSE Least(c.downloadSize, @ + reads * units)]

BlocksAfterReads(c, units, reads) ==
    [s \in Window |->
        LET fresh == {k \in 0..(reads - 1) : Slot(c.downloadCurrentBlock + k) = s}
            k == CHOOSE k \in fresh : \A l \in fresh : l <= k
            from == c.downloadCount + k * units
        IN  IF fresh = {} THEN blocks[s]
            ELSE [file |-> c.downloadName, from |-> from,
                  size |-> Least(units, c.downloadSize - from)]]

\* Mutant: the end block does not wait for room in the window.
AddsEOFAtOnce(c) == c.downloadCount = c.downloadSize /\ ~c.downloadEOF

AddsEOF(c) ==
    c.downloadCount = c.downloadSize /\ ~c.downloadEOF /\ Room(c) > 0

AfterEOF(c) ==
    IF AddsEOF(c)
    THEN [c EXCEPT !.downloadCurrentBlock = @ + 1, !.downloadEOF = TRUE]
    ELSE c

BlocksAfterEOF(c, bs) ==
    IF AddsEOF(c) THEN [bs EXCEPT ![Slot(c.downloadCurrentBlock)].size = 0] ELSE bs

\* Mutant: nothing is sent again.
ResendsNever(c) == FALSE

\* All blocks have been sent, and the last one long ago.
Resends(c) ==
    c.downloadXmitBlock = c.downloadCurrentBlock /\ c.downloadSendAge > ResendAfter

HasBlockToSend(c) ==
    /\ c.downloadClientBlock # c.downloadCurrentBlock
    /\ c.downloadXmitBlock # c.downloadCurrentBlock \/ Resends(c)

Packet(block, data) == [block |-> block, data |-> data]
ErrorPacket == [block |-> -1, data |-> NoData]

XmitBlock(c) == IF Resends(c) THEN c.downloadClientBlock ELSE c.downloadXmitBlock

\* Mutant: the counters are swapped when the window is sent again.
AfterSendSwapped(c) ==
    IF Resends(c)
    THEN [c EXCEPT !.downloadClientBlock = c.downloadXmitBlock, !.downloadSendAge = 0]
    ELSE [c EXCEPT !.downloadXmitBlock = @ + 1, !.downloadSendAge = 0]

AfterSend(c) ==
    [c EXCEPT !.downloadXmitBlock = XmitBlock(c) + 1, !.downloadSendAge = 0]

\* One frame in which reads blocks can be read; if that is not all, the next
\* read fails.
WriteBlock(fast, reads) ==
    LET fails == reads < BlocksToRead(Opened, Units(fast))
        read == AfterReads(Opened, Units(fast), reads, fails)
        loaded == AfterEOF(read)
        bs == BlocksAfterEOF(read, BlocksAfterReads(Opened, Units(fast), reads))
        block == XmitBlock(loaded)
    IN  /\ blocks' = bs
        /\ readFailed' = IF fails THEN readFailed \cup {cl.downloadName}
                         ELSE readFailed
        /\ IF HasBlockToSend(loaded)
           THEN /\ Len(toClient) < MaxInFlight
                /\ toClient' = Append(toClient, Packet(block, bs[Slot(block)]))
                /\ cl' = AfterSend(loaded)
           ELSE cl' = loaded /\ UNCHANGED toClient

\* SV_WriteDownloadErrorToClient, a function of the engine.
WriteDownloadError ==
    /\ ~cl.download
    /\ cl.downloadName \notin Found
    /\ Len(toClient) < MaxInFlight
    /\ toClient' = Append(toClient, ErrorPacket)
    /\ cl' = Closed(cl)
    /\ UNCHANGED <<blocks, readFailed>>

WriteDownloadToClient(fast) ==
    /\ ~cl.dropped /\ cl.downloadName # NoFile
    /\ \/ WriteDownloadError
       \/ /\ cl.download \/ cl.downloadName \in Found
          /\ \E reads \in 0..BlocksToRead(Opened, Units(fast)) : WriteBlock(fast, reads)
    /\ UNCHANGED <<player, toServer, asked>>

------------------------------------------------------------------------------
(* The client, the network and time *)

Command(cmd, arg) == [cmd |-> cmd, arg |-> arg]

\* The server takes the client's next command.
ClientCommand ==
    /\ ~cl.dropped /\ toServer # <<>>
    /\ \/ /\ Head(toServer).cmd = "download"
          /\ BeginDownload(Head(toServer).arg)
       \/ /\ Head(toServer).cmd = "nextdl"
          /\ NextDownload(Head(toServer).arg)
       \/ /\ Head(toServer).cmd = "retransdl"
          /\ RetransmitDownload(Head(toServer).arg)
    /\ toServer' = Tail(toServer)
    /\ UNCHANGED <<player, asked, readFailed>>

Request(f) ==
    /\ player.file = NoFile /\ f \notin asked
    /\ Cardinality(asked) < MaxRequests
    /\ player' = [player EXCEPT !.file = f, !.block = 0, !.got = <<>>]
    /\ toServer' = Append(toServer, Command("download", f))
    /\ asked' = asked \cup {f}
    /\ UNCHANGED <<cl, blocks, toClient, readFailed>>

Ends(packet) == packet.block = -1 \/ packet.data.size = 0

\* The block the client waits for, or an error.
TakePacket(packet) ==
    /\ player' = [player EXCEPT
            !.file = IF Ends(packet) THEN NoFile ELSE @,
            !.block = @ + 1,
            !.got = IF Ends(packet) THEN @ ELSE Append(@, packet.data),
            !.done = IF packet.block # -1 /\ Ends(packet)
                     THEN Append(@, [file |-> player.file, got |-> player.got])
                     ELSE @]
    /\ toServer' = IF packet.block = -1 THEN toServer
                   ELSE Append(toServer, Command("nextdl", packet.block))

Receive ==
    /\ toClient # <<>>
    /\ toClient' = Tail(toClient)
    /\ LET packet == Head(toClient)
       IN  IF player.file # NoFile /\ packet.block \in {-1, player.block}
           THEN TakePacket(packet)
           ELSE /\ UNCHANGED player
                /\ toServer' = IF /\ player.file # NoFile
                                  /\ packet.block > player.block
                                  /\ Len(toServer) < MaxCommands
                               THEN Append(toServer, Command("retransdl", player.block))
                               ELSE toServer
    /\ UNCHANGED <<cl, blocks, asked, readFailed>>

Lose ==
    /\ toClient # <<>>
    /\ toClient' = Tail(toClient)
    /\ UNCHANGED <<cl, blocks, player, toServer, asked, readFailed>>

Tick ==
    /\ cl.downloadSendAge <= ResendAfter
    /\ cl' = [cl EXCEPT !.downloadSendAge = @ + 1]
    /\ UNCHANGED <<blocks, player, toClient, toServer, asked, readFailed>>

Init ==
    /\ cl = [downloadName |-> NoFile, download |-> FALSE, downloadSize |-> 0,
             downloadCount |-> 0, downloadClientBlock |-> 0,
             downloadCurrentBlock |-> 0, downloadXmitBlock |-> 0,
             downloadEOF |-> FALSE, downloadSendAge |-> 0, dropped |-> FALSE]
    /\ blocks = [s \in Window |-> NoData]
    /\ player = [file |-> NoFile, block |-> 0, got |-> <<>>, done |-> <<>>]
    /\ toClient = <<>> /\ toServer = <<>>
    /\ asked = {} /\ readFailed = {}

Write == \E fast \in BOOLEAN : WriteDownloadToClient(fast)

Next ==
    \/ Write
    \/ ClientCommand
    \/ \E f \in File : Request(f)
    \/ Receive
    \/ Lose
    \/ Tick

Spec == Init /\ [][Next]_vars

\* Frames go on and send snapshots; commands are reliable; a block that is sent
\* again and again arrives some time.
ReceiveBlock(block) == toClient # <<>> /\ Head(toClient).block = block /\ Receive

FairSpec ==
    /\ Spec
    /\ WF_vars(Write) /\ WF_vars(ClientCommand) /\ WF_vars(Tick)
    /\ \A block \in {-1} \cup UNION {0..SizeOf[f] : f \in File} :
            SF_vars(ReceiveBlock(block))

------------------------------------------------------------------------------
(* Properties *)

\* How far the pieces of got follow one another in file f, from its beginning.
Prefix(f, got) ==
    /\ \A k \in DOMAIN got : got[k].file = f
    /\ \A k \in DOMAIN got :
            got[k].from = IF k = 1 THEN 0 ELSE got[k - 1].from + got[k - 1].size

Whole(f, got) ==
    /\ Prefix(f, got)
    /\ got # <<>> /\ Last(got).from + Last(got).size = SizeOf[f]

\* What a client has got of a file is the beginning of that file, whatever was
\* lost and sent again, though buffers are reused for later blocks while old
\* ones are still being sent, and block sizes change on the way.
PiecesInOrder == player.file # NoFile => Prefix(player.file, player.got)

\* A download that ends without an error has brought the whole file, unless a
\* read failed on the server.
WholeFile ==
    \A d \in ToSet(player.done) : d.file \in readFailed \/ Whole(d.file, d.got)

\* A client that keeps to the protocol is not dropped for a "broken download".
NeverBroken == cl.dropped => ~(asked \subseteq Allowed \cup Dotted)

\* A download of a file that the server has comes to an end, and so does one it
\* refuses: the file or a drop.  Two are left out.  The error for a file that cannot
\* be opened is sent once and may be lost, and a name with ".." gets no answer at
\* all (sv_client.c:1111): who asks for one of these may wait for ever.
DownloadEnds ==
    \A f \in Found \cup (File \ (Allowed \cup Dotted)) :
        player.file = f ~> player.file # f \/ cl.dropped
=============================================================================
