------------------------------- MODULE ByteFile -------------------------------
(***************************************************************************)
(* What miniaudio's resource manager expects of an open file: a size, a    *)
(* cursor inside it, reads that deliver the bytes up to the end and say so *)
(* when there were fewer than asked for, and seeks that a later read or    *)
(* Tell observes.  After a seek outside the file `intact' is FALSE and     *)
(* nothing is promised until the file is closed.                           *)
(***************************************************************************)
EXTENDS Integers

CONSTANTS Size,   \* file sizes
          Asked,  \* sizes of the reads
          Offset  \* offsets of the seeks

VARIABLES open, size, cursor,
          reply,  \* [call, n, atEnd]: what the last call answered
          intact

vars == <<open, size, cursor, reply, intact>>

Reply(c, n, e) == [call |-> c, n |-> n, atEnd |-> e]

Init == /\ open = FALSE /\ size = 0 /\ cursor = 0
        /\ reply = Reply("none", 0, FALSE)
        /\ intact = TRUE

Open == /\ ~open /\ open' = TRUE
        /\ size' \in Size /\ cursor' = 0
        /\ reply' = Reply("open", 0, FALSE)

Refuse == /\ ~open /\ reply' = Reply("refused", 0, FALSE)
          /\ UNCHANGED <<open, size, cursor>>

Close == /\ open /\ open' = FALSE
         /\ reply' = Reply("close", 0, FALSE) /\ intact' = TRUE
         /\ size' = 0 /\ cursor' = 0

Read(n) == LET left == size - cursor
               got  == IF n < left THEN n ELSE left
           IN /\ open /\ cursor' = cursor + got
              /\ reply' = Reply("read", got, got < n)
              /\ UNCHANGED <<open, size>>

(* The answer to a seek names its origin and repeats its offset. *)
Base == [start |-> 0, current |-> cursor, end |-> size]

Seek(o, w) == /\ open /\ Base[w] + o \in 0..size
              /\ cursor' = Base[w] + o
              /\ reply' = Reply(w, o, FALSE)
              /\ UNCHANGED <<open, size>>

Tell == /\ open /\ reply' = Reply("tell", cursor, FALSE)
        /\ UNCHANGED <<open, size, cursor>>

Info == /\ open /\ reply' = Reply("info", size, FALSE)
        /\ UNCHANGED <<open, size, cursor>>

Next == \/ intact' = FALSE
        \/ Close
        \/ /\ intact /\ intact'
           /\ \/ Open \/ Refuse \/ Tell \/ Info
              \/ \E o \in Offset, w \in DOMAIN Base : Seek(o, w)
              \/ \E n \in Asked : Read(n)

Spec == Init /\ [][Next]_vars
==============================================================================
