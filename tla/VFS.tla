--------------------------------- MODULE VFS ---------------------------------
(***************************************************************************)
(* The callbacks of VFS<Traits> (VFS.h) over a reader built on a           *)
(* std::istream, as the test suite's reader and JPLStreamReader are.  One  *)
(* open file: each has a reader and a FileSize of its own.  FileSize is    *)
(* what the client's onGetFileSize answered for the path when the file was *)
(* opened; how long the stream is, onCreateReader decides.                 *)
(*                                                                         *)
(* size_t and ma_int64 have the same width and all arithmetic on them is   *)
(* modulo 2^w; a negative ma_int64 is the word of the upper half with the  *)
(* same bits.  The stream is external: tellg, seekg and read as the C++    *)
(* standard has them, failbit included, which no callback ever clears.     *)
(***************************************************************************)
EXTENDS Integers

CONSTANTS Words,    \* 2^w, one more than the largest size_t
          Size,     \* sizes of the files
          Asked,    \* sizeInBytes of the reads
          Offset    \* offsets of the seeks, negative ones included

ASSUME VFSAssumption ==
    /\ Words \in Nat \ {0} /\ Words % 2 = 0
    /\ Size \cup Asked \subseteq 0..((Words \div 2) - 1)
    /\ Offset \subseteq -(Words \div 2)..((Words \div 2) - 1)

VARIABLES file,     \* the VFSFile, or Closed
          pos,      \* the stream's position
          fail,     \* its failbit
          reply,    \* what the last callback answered
          strayed   \* a seek has asked for a position outside the file, or
                    \* the file is not as long as its FileSize

vars == <<file, pos, fail, reply, strayed>>

Word == 0..(Words - 1)

(* A stream over memory refuses a position past its end, a file does not. *)
Stream == {"memory", "file"}
Mode   == {"read", "write", "readwrite"}
Origin == {"start", "current", "end"}
Result == {"success", "at_end", "error"}

(* size: FileSize; length: the stream's.                                   *)
Closed  == [open |-> FALSE, size |-> 0, length |-> 0, stream |-> "memory"]
VFSFile == [open : BOOLEAN, size : Size \cup {0}, length : Size \cup {0}, stream : Stream]

(* asked: sizeInBytes, or the offset of a seek, which is answered under    *)
(* the name of its origin; n: bytes reported, position or size; delivered: *)
(* bytes really in pDst.                                                   *)
Answer(c, asked, n, delivered, r) ==
    [call |-> c, asked |-> asked, n |-> n, delivered |-> delivered, result |-> r]

Answers ==
    [call : {"none", "open", "refused", "close", "read", "tell", "info"} \cup Origin,
     asked : Asked \cup Offset \cup {0}, n : Word, delivered : Word, result : Result]

TypeOK ==
    /\ file \in VFSFile
    /\ pos \in Word /\ fail \in BOOLEAN /\ strayed \in BOOLEAN
    /\ reply \in Answers

Init == /\ file = Closed /\ pos = 0 /\ fail = FALSE /\ strayed = FALSE
        /\ reply = Answer("none", 0, 0, 0, "success")

-----------------------------------------------------------------------------
(* The stream                                                              *)
Smaller(a, b) == IF a < b THEN a ELSE b
ToWord(i) == i % Words
Negative(p) == p >= Words \div 2

(* tellg: -1 once the stream has failed. *)
GetStreamPosition == IF fail THEN ToWord(-1) ELSE pos

(* seekg: nothing on a failed stream; a position the buffer refuses fails. *)
Refused(p) == Negative(p) \/ (file.stream = "memory" /\ p > file.length)
SetStreamPosition(p) ==
    /\ fail' = (fail \/ Refused(p))
    /\ pos'  = IF fail' THEN pos ELSE p

(* read: what there is up to the end, failing when that is too little. *)
Available(n) == IF fail \/ pos >= file.length THEN 0 ELSE Smaller(n, file.length - pos)
ReadData(n) == /\ pos'  = pos + Available(n)
               /\ fail' = (fail \/ Available(n) < n)

-----------------------------------------------------------------------------
(* The callbacks                                                           *)

(* A file opened for writing only is refused; read-and-write is not. *)
Open(mode, s, length, stream) ==
    /\ ~file.open /\ mode # "write"
    /\ file' = [open |-> TRUE, size |-> s, length |-> length, stream |-> stream]
    /\ pos' = 0 /\ fail' = FALSE
    /\ strayed' = (s # length)
    /\ reply' = Answer("open", 0, 0, 0, "success")

(* Write mode, or onCreateReader had no reader for the path. *)
OpenRefused ==
    /\ ~file.open
    /\ reply' = Answer("refused", 0, 0, 0, "error")
    /\ UNCHANGED <<file, pos, fail, strayed>>

Close == /\ file.open
         /\ file' = Closed /\ pos' = 0 /\ fail' = FALSE
         /\ reply' = Answer("close", 0, 0, 0, "success")
         /\ strayed' = FALSE

(* Mutant: a toRead that is not limited by the caller's buffer. *)
ToReadUnbounded(n) == ToWord(file.size - GetStreamPosition)

(* Mutant: a toRead that forgets the current position. *)
ToReadFromStart(n) == Smaller(n, file.size)

(* std::min(sizeInBytes, FileSize - GetStreamPosition()), in size_t. *)
ToRead(n) == Smaller(n, ToWord(file.size - GetStreamPosition))

Read(n) ==
    /\ file.open
    /\ ReadData(ToRead(n))
    /\ reply' = Answer("read", n, ToRead(n), Available(ToRead(n)),
                       IF ToRead(n) # n THEN "at_end" ELSE "success")
    /\ UNCHANGED <<file, strayed>>

Position(offset, origin) ==
    CASE origin = "start"   -> ToWord(offset)
      [] origin = "current" -> ToWord(GetStreamPosition + offset)
      [] origin = "end"     -> ToWord(file.size + offset)

(* Mutant: the position kept as the ma_int64 it came as. *)
SeekUnconverted(offset, origin) ==
    /\ file.open
    /\ pos' = pos + offset /\ fail' = fail
    /\ strayed' = (strayed \/ pos' \notin 0..file.size)
    /\ reply' = Answer(origin, offset, 0, 0, "success")
    /\ UNCHANGED file

Seek(offset, origin) ==
    /\ file.open
    /\ SetStreamPosition(Position(offset, origin))
    /\ strayed' = (strayed \/ Position(offset, origin) > file.size)
    /\ reply' = Answer(origin, offset, 0, 0, "success")
    /\ UNCHANGED file

Tell == /\ file.open
        /\ reply' = Answer("tell", 0, GetStreamPosition, 0, "success")
        /\ UNCHANGED <<file, pos, fail, strayed>>

Info == /\ file.open
        /\ reply' = Answer("info", 0, file.size, 0, "success")
        /\ UNCHANGED <<file, pos, fail, strayed>>

Next == \/ \E m \in Mode, s, length \in Size, t \in Stream : Open(m, s, length, t)
        \/ OpenRefused \/ Close \/ Tell \/ Info
        \/ \E n \in Asked : Read(n)
        \/ \E o \in Offset, w \in Origin : Seek(o, w)

Spec == Init /\ [][Next]_vars

-----------------------------------------------------------------------------
(* PROPERTIES                                                              *)

(* Read never puts more into pDst than the caller's sizeInBytes, nor more  *)
(* than it reports, not even when the size_t subtraction has wrapped round *)
(* or tellg has answered -1.                                               *)
NoOverrun ==
    reply.call = "read" => /\ reply.delivered <= reply.n
                           /\ reply.n <= reply.asked

(* A read that delivered fewer bytes than asked for says MA_AT_END         *)
(* (VFS.h:142), so that a decoder stops instead of using stale memory; in  *)
(* a file as long as its FileSize.                                         *)
ShortReadIsAtEnd ==
    reply.call = "read" /\ reply.delivered < reply.asked /\ file.length = file.size
        => reply.result = "at_end"

(* As long as no seek leaves the file, and FileSize is its length, the     *)
(* callbacks are a plain file.                                             *)
Plain == INSTANCE ByteFile WITH
            open   <- file.open,
            size   <- file.size,
            cursor <- pos,
            reply  <- [call |-> reply.call,
                       n |-> IF reply.call \in Origin THEN reply.asked ELSE reply.n,
                       atEnd |-> reply.result = "at_end"],
            intact <- ~strayed

(* Reads, seeks, Tell and Info of a session that stays inside the file are *)
(* those of ByteFile: a seek lands where it was asked to, each byte is read *)
(* once and in order, and an end is told.                                  *)
ImplementsByteFile == Plain!Spec
==============================================================================
