------------------------- MODULE MCSnapshotSchedule -------------------------
(* A small instance of SnapshotSchedule: four ticks to a second, packets of  *)
(* three bytes with a header of one.  A client that downloads fast gets one  *)
(* message in a frame with 10 frames a second, and three with 20.            *)
EXTENDS SnapshotSchedule

MCSize == {1, 7}
MCAskedRate == {-2, 2}
MCAskedSnaps == {5}
MCFps == {10, 20}
MCFrameTime == {1, 3}
=============================================================================
