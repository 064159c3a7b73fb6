----------------------------- MODULE MCDownload -----------------------------
(* Small instances of Download.  The server has map, lacks gone, and gives   *)
(* nobody base or what is above its directory.                               *)
EXTENDS Download

MCFile == {"map", "gone", "base", "../up"}
MapAndGone == {"map", "gone"}
MapOnly == {"map"}
MCDotted == {"../up"}
MCSizeOf == [f \in File |-> IF f = "map" THEN 4 ELSE 1]
=============================================================================
