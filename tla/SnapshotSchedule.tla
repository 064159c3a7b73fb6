-------------------------- MODULE SnapshotSchedule --------------------------
(***************************************************************************)
(* When one client gets its messages: SV_UserinfoChanged, SV_RateMsec,     *)
(* custom_SV_SendMessageToClient and custom_SV_SendClientMessages of       *)
(* sv_client.c.  A message longer than a fragment goes out in pieces, one  *)
(* for each frame in which the client is due; the rest waits in the        *)
(* netchan.  Times are relative to svs.time.                               *)
(***************************************************************************)
EXTENDS Integers

CONSTANTS
    Second,             \* 1000 ms, in ticks
    Size,               \* sizes of messages, in bytes
    FRAGMENT_SIZE,      \* what the netchan sends in one packet: 1300
    MaxCounted,         \* the bytes of a message that count at most: 1500
    HEADER_RATE_BYTES,  \* 48
    MinRate, MaxRate, DefaultRate,  \* 1000, 90000 and 5000 bytes per second
    DownloadRate,       \* 25000
    MaxSnaps,           \* 30 per second
    DefaultMsec,        \* 50 ms between snapshots
    AskedRate,          \* rates that players and sv_maxRate ask for
    AskedSnaps,
    Fps,                \* values of sv_fps
    MAX_DOWNLOAD_WINDOW,  \* 8 in shared.h
    FrameTime           \* how long a frame may take

Unset == -99    \* an empty value in the userinfo

ASSUME ScheduleAssumption ==
    /\ Second \in Nat \ {0} /\ FRAGMENT_SIZE \in Nat \ {0}
    /\ MinRate \in Nat \ {0} /\ MaxSnaps \in Nat \ {0}
    /\ Size \subseteq Nat \ {0} /\ FrameTime \subseteq Nat \ {0}
    /\ MaxCounted \in Nat /\ MaxCounted >= FRAGMENT_SIZE
    /\ HEADER_RATE_BYTES \in Nat /\ DefaultMsec \in 0..Second
    /\ MaxRate \in Nat /\ MinRate <= MaxRate
    /\ DefaultRate \in MinRate..MaxRate /\ DownloadRate \in MinRate..MaxRate
    /\ AskedRate \subseteq Int /\ AskedSnaps \subseteq Int
    /\ Fps \subseteq Nat /\ MAX_DOWNLOAD_WINDOW \in Nat

VARIABLES
    cl,             \* the client_t
    sv_maxRate,
    sv_fastDownload,
    isLocal,        \* the client is on the loopback or in the LAN
    event,          \* what the last step sent
    frame,          \* SV_Frame has not sent its messages yet
    pace            \* lead: bytes sent ahead of the client's rate, times
                    \* Second; rate: that of the last message; slowAge: ticks
                    \* since a message to a client out of the game, or Second;
                    \* burst: messages sent before the last in one frame, past
                    \* every limit and beside the lead

vars == <<cl, sv_maxRate, sv_fastDownload, isLocal, event, frame, pace>>

CS_FREE == 0
CS_ZOMBIE == 1
CS_CONNECTED == 2
CS_ACTIVE == 4

Least(a, b) == IF a < b THEN a ELSE b
Greatest(a, b) == IF a > b THEN a ELSE b

------------------------------------------------------------------------------
(* SV_UserinfoChanged *)

Clamp(low, value, high) == Least(high, Greatest(low, value))

Rate(asked) ==
    IF asked = Unset THEN DefaultRate ELSE Clamp(MinRate, asked, MaxRate)

SnapshotMsec(snaps) ==
    IF snaps = Unset THEN DefaultMsec ELSE Second \div Clamp(1, snaps, MaxSnaps)

UserinfoChanged(rate, snaps) ==
    /\ cl.state # CS_FREE
    /\ cl' = [cl EXCEPT !.rate = Rate(rate), !.snapshotMsec = SnapshotMsec(snaps)]
    /\ event' = "none"
    /\ UNCHANGED <<sv_maxRate, sv_fastDownload, isLocal, frame, pace>>

------------------------------------------------------------------------------
(* SV_RateMsec *)

\* Mutant: a sv_maxRate that is too small is used all the same.
EffectiveRateAsSet(c) == IF sv_maxRate = 0 THEN c.rate ELSE Least(sv_maxRate, c.rate)

\* A sv_maxRate below MinRate is set to it.
EffectiveRate(c) ==
    IF sv_maxRate = 0 THEN c.rate ELSE Least(Greatest(sv_maxRate, MinRate), c.rate)

RateMsec(c, size) ==
    ((Least(size, MaxCounted) + HEADER_RATE_BYTES) * Second) \div EffectiveRate(c)

------------------------------------------------------------------------------
(* custom_SV_SendMessageToClient *)

Exempt(c) == isLocal \/ (sv_fastDownload /\ c.download)

\* Mutant: only a client in the game can be dropped.
AfterDropActive(c) ==
    IF c.dropReason /\ c.state = CS_ACTIVE
    THEN [c EXCEPT !.state = CS_ZOMBIE, !.downloadName = FALSE, !.download = FALSE]
    ELSE c

\* SV_DropClient, which also closes a download.
AfterDrop(c) ==
    IF c.dropReason
    THEN [c EXCEPT !.state = CS_ZOMBIE, !.downloadName = FALSE, !.download = FALSE]
    ELSE c

\* Mutant: a client that is loading is not slowed down.
SlowNever(c) == FALSE

Slow(c) == c.state # CS_ACTIVE /\ ~c.downloadName

NextWait(c, size) ==
    LET paced == Greatest(RateMsec(c, size), c.snapshotMsec)
    IN  IF Slow(c) THEN Greatest(paced, Second) ELSE paced

\* The first piece goes out at once.
Piece(size) == Least(size, FRAGMENT_SIZE)

AfterMessage(c, size) ==
    LET d == AfterDrop(c)
    IN  [d EXCEPT !.unsent = size - Piece(size),
                  !.wait = IF Exempt(d) THEN -1 ELSE NextWait(d, size),
                  !.rateDelayed = IF Exempt(d) THEN @
                                  ELSE RateMsec(d, size) >= d.snapshotMsec]

\* RateMsec rounds down; the header makes up for it at rates up to
\* HEADER_RATE_BYTES in a tick, and only those are counted.
Paced(c, bytes) ==
    [pace EXCEPT !.lead = IF Exempt(c) \/ EffectiveRate(c) > HEADER_RATE_BYTES * Second
                          THEN 0 ELSE @ + bytes * Second,
                 !.rate = EffectiveRate(c)]

\* With the message that has made the client what it is now.
AfterPacing(size) ==
    [Paced(cl', Piece(size)) EXCEPT
        !.slowAge = IF /\ ~Exempt(cl') /\ cl'.state # CS_ACTIVE
                       /\ ~cl'.downloadName
                    THEN 0 ELSE Second]

SendMessage(c, size) ==
    /\ cl' = AfterMessage(c, size)
    /\ pace' = AfterPacing(size)
    /\ event' = "message"

------------------------------------------------------------------------------
(* custom_SV_SendClientMessages, for a frame that has just begun *)

\* Mutant: a client that is over its rate has to wait for it to be lowered.
DueIfNotDelayed(c) == c.state # CS_FREE /\ c.wait <= 0 /\ ~c.rateDelayed

Due(c) == c.state # CS_FREE /\ c.wait <= 0

\* Mutant: the next frame sends the next piece.
AfterFragmentAtOnce(c) == [c EXCEPT !.unsent = @ - Piece(@)]

AfterFragment(c) == [c EXCEPT !.wait = RateMsec(c, c.unsent), !.unsent = @ - Piece(@)]

SendFragment(c) ==
    /\ cl' = AfterFragment(c)
    /\ pace' = Paced(c, Piece(c.unsent))
    /\ event' = "fragment"

\* WriteDownloadToClient, in the snapshot of a client that downloads.  A file that
\* has yet to be opened may not open, and the error ends the download.
Downloading(c, opens) ==
    IF c.downloadName
    THEN [c EXCEPT !.state = CS_CONNECTED, !.rate = DownloadRate,
                   !.snapshotMsec = DefaultMsec, !.download = @ \/ opens,
                   !.downloadName = c.download \/ opens]
    ELSE c

\* The messages to a client that downloads under sv_fastDownload, in one frame.
MessagesAtOnce(fps) == 1 + (fps \div 20) * MAX_DOWNLOAD_WINDOW

\* The fragments of each message go out before the next, so the last one decides
\* what is left.  A client with a drop reason is dropped in the first; that closes
\* its download, and the others are sent at once all the same.
SendFast(c, n, size) ==
    LET d == Downloading([c EXCEPT !.unsent = 0], TRUE)
        burst == n > 1 /\ ~Exempt(AfterDrop(d))
    IN  /\ cl' = AfterMessage(d, size)
        /\ pace' = [AfterPacing(size) EXCEPT !.burst = IF burst THEN n - 1 ELSE @]
        /\ event' = IF burst THEN "burst" ELSE "message"

SendClientMessages ==
    /\ frame /\ frame' = FALSE
    /\ \/ /\ Due(cl) /\ sv_fastDownload /\ cl.download
          /\ \E fps \in Fps, size \in Size : SendFast(cl, MessagesAtOnce(fps), size)
       \/ /\ Due(cl) /\ ~(sv_fastDownload /\ cl.download) /\ cl.unsent > 0
          /\ SendFragment(cl)
       \/ /\ Due(cl) /\ ~(sv_fastDownload /\ cl.download) /\ cl.unsent = 0
          /\ \E opens \in BOOLEAN, size \in Size : SendMessage(Downloading(cl, opens), size)
       \/ /\ ~Due(cl)
          /\ event' = "none"
          /\ UNCHANGED <<cl, pace>>
    /\ UNCHANGED <<sv_maxRate, sv_fastDownload, isLocal>>

------------------------------------------------------------------------------
(* Time and the rest of the server *)

\* svs.time goes on; what is ahead of the rate is paid off.
Tick(dt) ==
    /\ ~frame /\ frame' = TRUE
    /\ cl' = [cl EXCEPT !.wait = Greatest(@ - dt, -1)]
    /\ pace' = [pace EXCEPT !.lead = Greatest(@ - pace.rate * dt, 0),
                           !.slowAge = Least(@ + dt, Second)]
    /\ event' = "none"
    /\ UNCHANGED <<sv_maxRate, sv_fastDownload, isLocal>>

\* SV_DirectConnect, with the userinfo of the player.
Connect(rate, snaps) ==
    /\ cl.state = CS_FREE
    /\ cl' = [state |-> CS_CONNECTED, rate |-> Rate(rate),
              snapshotMsec |-> SnapshotMsec(snaps), wait |-> 0,
              rateDelayed |-> FALSE, unsent |-> 0, downloadName |-> FALSE,
              download |-> FALSE, dropReason |-> FALSE]
    /\ isLocal' \in BOOLEAN
    /\ pace' = [lead |-> 0, rate |-> MinRate, slowAge |-> Second, burst |-> 0]
    /\ event' = "none"
    /\ UNCHANGED <<sv_maxRate, sv_fastDownload, frame>>

\* The gamestate, when a packet of the client asks for it.
SendGameState(size) ==
    /\ cl.state = CS_CONNECTED /\ cl.unsent = 0
    /\ cl' = AfterMessage(cl, size)
    /\ pace' = [pace EXCEPT !.lead = 0, !.slowAge = Second]
    /\ event' = "gamestate"
    /\ UNCHANGED <<sv_maxRate, sv_fastDownload, isLocal, frame>>

\* SV_ClientEnterWorld: the first snapshot is due at once.
EnterWorld ==
    /\ cl.state = CS_CONNECTED /\ ~cl.downloadName
    /\ cl' = [cl EXCEPT !.state = CS_ACTIVE, !.wait = 0]
    /\ pace' = [pace EXCEPT !.lead = 0, !.slowAge = Second]
    /\ event' = "none"
    /\ UNCHANGED <<sv_maxRate, sv_fastDownload, isLocal, frame>>

Change(c) ==
    /\ cl.state \in {CS_CONNECTED, CS_ACTIVE}
    /\ cl' = c
    /\ event' = "none"
    /\ UNCHANGED <<sv_maxRate, sv_fastDownload, isLocal, frame, pace>>

BeginDownload == Change([cl EXCEPT !.downloadName = TRUE, !.download = FALSE])
EndDownload == Change([cl EXCEPT !.downloadName = FALSE, !.download = FALSE])
SetDropReason == Change([cl EXCEPT !.dropReason = TRUE])

\* SV_CheckTimeouts frees the slot of a zombie.
FreeZombie ==
    /\ cl.state = CS_ZOMBIE
    /\ cl' = [cl EXCEPT !.state = CS_FREE]
    /\ event' = "none"
    /\ UNCHANGED <<sv_maxRate, sv_fastDownload, isLocal, frame, pace>>

SetCvars ==
    /\ sv_maxRate' \in AskedRate \cup {0}
    /\ sv_fastDownload' \in BOOLEAN
    /\ event' = "none"
    /\ UNCHANGED <<cl, isLocal, frame, pace>>

Init ==
    /\ cl = [state |-> CS_FREE, rate |-> MinRate, snapshotMsec |-> DefaultMsec,
             wait |-> 0, rateDelayed |-> FALSE, unsent |-> 0,
             downloadName |-> FALSE, download |-> FALSE, dropReason |-> FALSE]
    /\ sv_maxRate = 0 /\ sv_fastDownload = FALSE /\ isLocal = FALSE
    /\ event = "none" /\ frame = FALSE
    /\ pace = [lead |-> 0, rate |-> MinRate, slowAge |-> Second, burst |-> 0]

Next ==
    \/ SendClientMessages
    \/ \E dt \in FrameTime : Tick(dt)
    \/ \E rate \in AskedRate \cup {Unset}, snaps \in AskedSnaps \cup {Unset} :
            Connect(rate, snaps) \/ UserinfoChanged(rate, snaps)
    \/ \E size \in Size : SendGameState(size)
    \/ EnterWorld
    \/ BeginDownload \/ EndDownload \/ SetDropReason \/ FreeZombie
    \/ SetCvars

Spec == Init /\ [][Next]_vars

\* Frames go on.
FairSpec ==
    /\ Spec
    /\ WF_vars(SendClientMessages) /\ WF_vars(\E dt \in FrameTime : Tick(dt))

------------------------------------------------------------------------------
(* Properties *)

TypeOK ==
    /\ cl.state \in {CS_FREE, CS_ZOMBIE, CS_CONNECTED, CS_ACTIVE}
    /\ cl.rate \in MinRate..MaxRate
    /\ cl.snapshotMsec \in 0..Second
    /\ cl.wait \in Int /\ cl.wait >= -1
    /\ cl.unsent \in Nat
    /\ cl.download => cl.downloadName
    /\ pace.lead \in Nat /\ pace.rate \in MinRate..MaxRate
    /\ pace.slowAge \in 0..Second /\ pace.burst \in Nat

\* Over any stretch of time a remote client gets no more than its rate and one
\* packet, in whatever pieces and frames its messages go out, when rates,
\* cvars and downloads change on the way.  The gamestate and the first
\* snapshot, which do not wait, begin a new stretch.  One burst comes on top: when
\* a client is dropped in a fast download, the messages left of that frame go out
\* at once (sv_client.c:1399).  Nobody who stays connected has had one.
RateKept ==
    /\ pace.lead <= FRAGMENT_SIZE * Second
    /\ pace.burst > 0 => cl.state \in {CS_ZOMBIE, CS_FREE}

\* A remote client that is neither in the game nor downloading gets a message
\* in a second at most, but for the burst in the frame that drops it; and that
\* frame, too, comes a second after the message before.
LoadingIsSlow ==
    [][/\ event' \in {"message", "burst"} => pace.slowAge >= Second
       /\ event' = "burst" => cl.state # CS_ZOMBIE /\ cl'.state = CS_ZOMBIE
      ]_<<event, cl, frame>>

\* Whatever its rate, a connected client gets messages again and again: none
\* waits for ever, neither for its rate nor for the pieces of another.
MessagesGoOn ==
    []<>(event \in {"message", "burst", "gamestate"} \/ cl.state = CS_FREE)

\* A drop reason gets the client dropped with its next message, and nothing
\* stands before that message for ever.
DropTakesEffect ==
    cl.dropReason ~> cl.state \in {CS_ZOMBIE, CS_FREE}
=============================================================================
