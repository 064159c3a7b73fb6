---------------------------- MODULE ScriptFiles ----------------------------
(***************************************************************************)
(* The file functions of scripts.  A script holds what fopen has returned  *)
(* as a number: a stream, or -1 if it has failed.  The others test for 0,  *)
(* which fopen never returns, so they take -1 for a stream and crash.      *)
(*                                                                         *)
(* The contents of a file are the texts in it, each written by one         *)
(* fwrite.  The C library keeps what is written to a stream for a while.   *)
(* The process can have so many files open; fsize never closes the one it  *)
(* opens.  Scripts do not use a stream that they have closed.              *)
(***************************************************************************)
EXTENDS Integers, SequencesExt

CONSTANTS
    File,
    Written,        \* texts
    MaxOpen,        \* files the process can have open
    MaxTexts        \* bound on the texts in a file

ASSUME FilesAssumption == MaxOpen \in Nat /\ MaxTexts \in Nat

VARIABLES
    disk,           \* for each file there is, what is in it
    streams,        \* the streams scripts have opened and not closed
    leaked,         \* files that fsize has left open
    failed,         \* does a script hold a -1?
    crashed,
    answer          \* history: what the last call has returned

filevars == <<disk, streams, leaked, failed, crashed, answer>>

\* Numbers stand for the addresses of streams.
StreamNumbers == 1..MaxOpen
OpenStreams == DOMAIN streams
FilesOpen == Cardinality(OpenStreams) + leaked

CanOpen(name) == ~crashed /\ FilesOpen < MaxOpen /\ name \in DOMAIN disk

\* Where nothing was written since another stream has emptied the file.
Hole == "zeros"

\* The function f, but for x.
Stored(f, x, value) == [y \in {x} \cup DOMAIN f |-> IF y = x THEN value ELSE f[y]]

\* What is in a file once the texts kept for the stream are written at its place.
Flushed(s) ==
    LET old == disk[s.file]
        at == IF s.mode = "a" THEN Len(old) ELSE s.place
        behind == at + Len(s.kept)
    IN  [disk EXCEPT ![s.file] =
            SubSeq(old, 1, Min({at, Len(old)})) \o [i \in 1..(at - Len(old)) |-> Hole]
            \o s.kept \o SubSeq(old, behind + 1, Len(old))]

Moved(s) == IF s.mode = "a" THEN 0 ELSE s.place + Len(s.kept)

------------------------------------------------------------------------------
\* "w" empties the file, "w" and "a" make it if there is none.
GScr_fopen(name, mode) ==
    /\ ~crashed
    /\ IF FilesOpen < MaxOpen /\ (mode # "r" \/ name \in DOMAIN disk)
       THEN LET n == Min(StreamNumbers \ OpenStreams) IN
            /\ streams' = Stored(streams, n, [file |-> name, mode |-> mode, place |-> 0,
                                            kept |-> <<>>])
            /\ disk' = IF mode = "w" \/ name \notin DOMAIN disk
                       THEN Stored(disk, name, <<>>) ELSE disk
            /\ answer' = [stream |-> n]
            /\ UNCHANGED failed
       ELSE failed' = TRUE /\ answer' = [stream |-> -1] /\ UNCHANGED <<streams, disk>>
    /\ UNCHANGED <<leaked, crashed>>

GScr_fexists(name) ==
    /\ ~crashed
    /\ answer' = [exists |-> CanOpen(name)]
    /\ UNCHANGED <<disk, streams, leaked, failed, crashed>>

GScr_fsize(name) ==
    /\ ~crashed
    /\ answer' = [size |-> IF CanOpen(name) THEN Len(disk[name]) ELSE -1]
    /\ leaked' = IF CanOpen(name) THEN leaked + 1 ELSE leaked
    /\ UNCHANGED <<disk, streams, failed, crashed>>

\* Looking for the end writes what is kept, and the next fwrite starts at the
\* beginning again, unless it appends.  The text is not ended by a 0, so more
\* may follow it; of a stream that is written nothing is read at all.
GScr_fread(n, more) ==
    LET s == streams[n] IN
    /\ ~crashed
    /\ disk' = Flushed(s)
    /\ streams' = [streams EXCEPT ![n].place = 0, ![n].kept = <<>>]
    /\ answer' = [text |-> IF s.mode = "r" THEN disk[s.file] ELSE <<>>, more |-> more]
    /\ UNCHANGED <<leaked, failed, crashed>>

\* True even if nothing can be written to the stream.
GScr_fwrite(n, text) ==
    /\ ~crashed
    /\ Max({Len(disk[streams[n].file]), streams[n].place}) + Len(streams[n].kept) < MaxTexts
    /\ streams' = [streams EXCEPT ![n].kept = IF streams[n].mode = "r" THEN @ ELSE Append(@, text)]
    /\ answer' = [done |-> TRUE]
    /\ UNCHANGED <<disk, leaked, failed, crashed>>

\* The C library writes what it has kept when it likes to.
Flush(n) ==
    LET s == streams[n] IN
    /\ ~crashed /\ s.kept # <<>>
    /\ disk' = Flushed(s)
    /\ streams' = [streams EXCEPT ![n].place = Moved(s), ![n].kept = <<>>]
    /\ UNCHANGED <<leaked, failed, crashed, answer>>

GScr_fclose(n) ==
    /\ ~crashed
    /\ disk' = Flushed(streams[n])
    /\ streams' = [m \in OpenStreams \ {n} |-> streams[m]]
    /\ answer' = [done |-> TRUE]
    /\ UNCHANGED <<leaked, failed, crashed>>

\* fread, fwrite or fclose with a number that is no stream: 0 is refused.
OnZero ==
    /\ ~crashed
    /\ answer' = [done |-> FALSE]
    /\ UNCHANGED <<disk, streams, leaked, failed, crashed>>

OnFailed ==
    /\ ~crashed /\ failed
    /\ crashed' = TRUE
    /\ UNCHANGED <<disk, streams, leaked, failed, answer>>

------------------------------------------------------------------------------
FilesInit ==
    /\ disk = <<>>
    /\ streams = <<>>
    /\ leaked = 0
    /\ failed = FALSE
    /\ crashed = FALSE
    /\ answer = [done |-> FALSE]

FilesNext ==
    \/ \E name \in File :
        \/ \E mode \in {"r", "w", "a"} : GScr_fopen(name, mode)
        \/ GScr_fexists(name)
        \/ GScr_fsize(name)
    \/ \E n \in OpenStreams :
        \/ \E more \in BOOLEAN : GScr_fread(n, more)
        \/ \E text \in Written : GScr_fwrite(n, text)
        \/ Flush(n)
        \/ GScr_fclose(n)
    \/ OnZero
    \/ OnFailed

FilesSpec == FilesInit /\ [][FilesNext]_filevars

------------------------------------------------------------------------------
\* No more files are open than may be, those of fsize among them (script.c:806),
\* and nothing crashes but for a -1 that was taken for a stream.
FilesTypeOK ==
    /\ DOMAIN disk \subseteq File
    /\ OpenStreams \subseteq StreamNumbers
    /\ FilesOpen <= MaxOpen
    /\ \A n \in OpenStreams : LET s == streams[n] IN
        /\ s.file \in DOMAIN disk
        /\ s.mode = "r" => s.kept = <<>> /\ s.place = 0
        /\ s.place \in 0..MaxTexts
    /\ crashed => failed
============================================================================
