------------------------------ MODULE VFSProofs ------------------------------
(***************************************************************************)
(* Proofs about VFS, for a size_t of any width, files of any size and any  *)
(* offset an ma_int64 can carry.                                           *)
(***************************************************************************)
EXTENDS VFS, TLAPS

-----------------------------------------------------------------------------
(* A position is inside the file, and the stream has not failed, for as    *)
(* long as no seek asked for another one and FileSize is the stream's      *)
(* length: then no subtraction of the callbacks wraps round and no stream  *)
(* operation is refused.                                                   *)
InsideFile == ~strayed => ~fail /\ pos <= file.size /\ file.length = file.size

(* A closed file has nothing to read, and starts anew. *)
ClosedIsEmpty == ~file.open => file.size = 0 /\ pos = 0 /\ ~strayed

FileInv == InsideFile /\ ClosedIsEmpty
IInv    == TypeOK /\ NoOverrun /\ FileInv

-----------------------------------------------------------------------------
(* size_t                                                                  *)

Half == Words \div 2

LEMMA Halves == Half \in Nat \ {0} /\ Words = 2 * Half
  BY VFSAssumption DEF Half

(* The conversion to size_t lands in its range, leaves what is there alone *)
(* and takes a negative number to the upper half.                          *)
LEMMA ToWordType == \A i \in Int : ToWord(i) \in Word
  BY VFSAssumption DEF ToWord, Word

LEMMA ToWordSame == \A i \in Word : ToWord(i) = i
  BY VFSAssumption DEF ToWord, Word

LEMMA ToWordNegative == \A i \in Int : -Words <= i /\ i < 0 => ToWord(i) = i + Words
  BY VFSAssumption DEF ToWord

(* File sizes and requests are words of the lower half. *)
LEMMA SizesType ==
    /\ \A n \in Size \cup Asked \cup {0} : n \in 0..(Half - 1) /\ n \in Word
    /\ \A o \in Offset : o \in -Half..(Half - 1)
  BY VFSAssumption, Halves DEF Half, Word

-----------------------------------------------------------------------------
(* What the stream and the callbacks compute                               *)

LEMMA PositionType ==
    ASSUME TypeOK, NEW o \in Offset, NEW w \in Origin
    PROVE  GetStreamPosition \in Word /\ Position(o, w) \in Word
<1>1. GetStreamPosition \in Word
  BY ToWordType DEF GetStreamPosition, TypeOK
<1>2. file.size \in Int /\ GetStreamPosition \in Int /\ o \in Int
  BY <1>1, SizesType, Halves DEF TypeOK, VFSFile, Word
<1>3. /\ ToWord(o) \in Word
      /\ ToWord(GetStreamPosition + o) \in Word
      /\ ToWord(file.size + o) \in Word
  BY <1>2, ToWordType
<1>. QED  BY <1>1, <1>3 DEF Position, Origin

(* The callback asks for no more than its caller, and the stream gives no  *)
(* more than it is asked for nor than there is.                            *)
LEMMA ReadBounds ==
    ASSUME TypeOK, NEW n \in Asked
    PROVE  /\ ToRead(n) \in Word /\ ToRead(n) <= n
           /\ Available(ToRead(n)) \in Word /\ Available(ToRead(n)) <= ToRead(n)
           /\ pos + Available(ToRead(n)) \in Word
<1>1. n \in Nat /\ n \in Word /\ file.size \in Word /\ file.length \in Word /\ pos \in Word
  BY SizesType DEF TypeOK, VFSFile, Word
<1>2. GetStreamPosition \in Word
  BY <1>1, ToWordType DEF GetStreamPosition
<1>3. ToWord(file.size - GetStreamPosition) \in Word
  BY <1>1, <1>2, ToWordType DEF Word
<1>4. ToRead(n) \in Word /\ ToRead(n) <= n
  BY <1>1, <1>3 DEF ToRead, Smaller, Word
<1>5. /\ Available(ToRead(n)) \in Word /\ Available(ToRead(n)) <= ToRead(n)
      /\ pos + Available(ToRead(n)) \in Word
  <2>1. /\ Available(ToRead(n)) \in Nat /\ Available(ToRead(n)) <= ToRead(n)
        /\ Available(ToRead(n)) # 0 => pos + Available(ToRead(n)) <= file.length
    BY <1>1, <1>4 DEF Available, Smaller, Word
  <2>. QED  BY <1>1, <1>4, <2>1, VFSAssumption DEF Word
<1>. QED  BY <1>4, <1>5

(* Inside the file a read is for what is left, and gets it. *)
LEMMA ReadInside ==
    ASSUME TypeOK, ~fail, pos <= file.size, file.length = file.size, NEW n \in Asked
    PROVE  /\ ToRead(n) = Smaller(n, file.size - pos)
           /\ Available(ToRead(n)) = ToRead(n)
<1>1. n \in Nat /\ file.size \in Word /\ pos \in Word
  BY SizesType DEF TypeOK, VFSFile, Word
<1>2. file.size - pos \in Word
  BY <1>1, VFSAssumption DEF Word
<1>3. ToRead(n) = Smaller(n, file.size - pos)
  BY <1>2, ToWordSame DEF ToRead, GetStreamPosition
<1>. QED  BY <1>1, <1>2, <1>3 DEF Available, Smaller, Word

(* A seek that lands inside the file lands where it was asked to: no       *)
(* position outside it is taken for one inside by the conversion.          *)
LEMMA SeekInside ==
    ASSUME TypeOK, ~fail, pos <= file.size, file.length = file.size,
           NEW o \in Offset, NEW w \in Origin,
           Position(o, w) <= file.size
    PROVE  /\ Position(o, w) = Plain!Base[w] + o
           /\ Position(o, w) \in 0..file.size
           /\ ~Refused(Position(o, w))
<1>. DEFINE base == Plain!Base[w]
<1>1. /\ file.size \in 0..(Half - 1) /\ pos \in 0..file.size
      /\ o \in Int /\ -Half <= o /\ o < Half
  BY SizesType, Halves DEF TypeOK, VFSFile, Word
<1>2. base \in 0..file.size
  BY <1>1, Halves DEF Plain!Base, Origin
<1>3. Position(o, w) = ToWord(base + o)
  BY <1>1 DEF Plain!Base, Origin, Position, GetStreamPosition
<1>. HIDE DEF base
<1>4. base + o \in Int /\ -Words <= base + o /\ base + o < Words
  BY <1>1, <1>2, Halves
<1>5. base + o >= 0
  <2>1. SUFFICES ASSUME base + o < 0 PROVE FALSE
    BY <1>4
  <2>2. ToWord(base + o) = base + o + Words
    BY <1>4, <2>1, ToWordNegative
  <2>. QED  BY <1>1, <1>2, <1>3, <2>2, Halves
<1>6. Position(o, w) = base + o
  BY <1>3, <1>4, <1>5, ToWordSame, VFSAssumption DEF Word
<1>7. ~Refused(Position(o, w))
  BY <1>1, <1>2, <1>4, <1>5, <1>6, Halves DEF Refused, Negative, Half
<1>. QED  BY <1>1, <1>2, <1>4, <1>5, <1>6, <1>7 DEF base

-----------------------------------------------------------------------------
(* The invariant                                                           *)

LEMMA ReplyType ==
    ASSUME NEW c \in {"none", "open", "refused", "close", "read", "tell", "info"} \cup Origin,
           NEW asked \in Asked \cup Offset \cup {0}, NEW n \in Word, NEW delivered \in Word,
           NEW r \in Result
    PROVE  Answer(c, asked, n, delivered, r) \in Answers
  BY DEF Answer, Answers

LEMMA IInvInit == Init => IInv
<1>. SUFFICES ASSUME Init PROVE IInv
  OBVIOUS
<1>1. 0 \in Word
  BY SizesType
<1>2. TypeOK
  BY <1>1, ReplyType DEF Init, TypeOK, VFSFile, Closed, Stream, Result
<1>3. NoOverrun /\ FileInv
  BY DEF Init, NoOverrun, FileInv, InsideFile, ClosedIsEmpty, Closed, Answer
<1>. QED  BY <1>2, <1>3 DEF IInv

LEMMA OpenKeeps ==
    ASSUME IInv, \/ \E m \in Mode, s, length \in Size, t \in Stream : Open(m, s, length, t)
                 \/ OpenRefused \/ Close
    PROVE  IInv'
<1>1. 0 \in Word /\ \A s \in Size : s \in Nat
  BY SizesType DEF Word
<1>2. TypeOK'
  <2>1. "success" \in Result /\ "error" \in Result
    BY DEF Result
  <2>2. PICK c \in {"open", "refused", "close"}, result \in Result :
            reply' = Answer(c, 0, 0, 0, result)
    BY <2>1 DEF Open, OpenRefused, Close
  <2>3. reply' \in Answers
    BY <1>1, <2>2, ReplyType
  <2>4. /\ pos' \in Word /\ fail' \in BOOLEAN /\ strayed' \in BOOLEAN
        /\ file' \in VFSFile
    <3>1. ASSUME NEW m \in Mode, NEW s \in Size, NEW length \in Size, NEW t \in Stream,
                 Open(m, s, length, t)
          PROVE  file' \in VFSFile /\ pos' = 0 /\ fail' = FALSE /\ strayed' \in BOOLEAN
      BY <3>1 DEF Open, VFSFile
    <3>2. Closed \in VFSFile
      BY DEF Closed, VFSFile, Stream
    <3>. QED  BY <1>1, <3>1, <3>2 DEF IInv, TypeOK, OpenRefused, Close
  <2>. QED  BY <2>3, <2>4 DEF TypeOK
<1>3. NoOverrun'
  BY DEF Open, OpenRefused, Close, NoOverrun, Answer
<1>4. FileInv'
  <2>1. ASSUME NEW m \in Mode, NEW s \in Size, NEW length \in Size, NEW t \in Stream,
               Open(m, s, length, t)
        PROVE  FileInv'
    <3>1. /\ file'.open = TRUE /\ file'.size = s /\ file'.length = length
          /\ pos' = 0 /\ fail' = FALSE /\ strayed' = (s # length)
      BY <2>1 DEF Open
    <3>2. 0 <= s
      BY <1>1
    <3>. QED  BY <3>1, <3>2 DEF FileInv, InsideFile, ClosedIsEmpty
  <2>2. CASE OpenRefused
    BY <2>2 DEF IInv, OpenRefused, FileInv, InsideFile, ClosedIsEmpty
  <2>3. CASE Close
    BY <2>3 DEF Close, Closed, FileInv, InsideFile, ClosedIsEmpty
  <2>. QED  BY <2>1, <2>2, <2>3
<1>. QED  BY <1>2, <1>3, <1>4 DEF IInv

LEMMA ReadKeeps == ASSUME IInv, NEW n \in Asked, Read(n) PROVE IInv'
<1>. DEFINE m == ToRead(n)
            got == Available(m)
<1>1. TypeOK
  BY DEF IInv
<1>2. /\ m \in Word /\ m <= n /\ got \in Word /\ got <= m
      /\ pos + got \in Word
  BY <1>1, ReadBounds
<1>3. /\ file.open /\ UNCHANGED <<file, strayed>>
      /\ pos' = pos + got /\ fail' = (fail \/ got < m)
      /\ reply' = Answer("read", n, m, got, IF m # n THEN "at_end" ELSE "success")
  BY DEF Read, ReadData
<1>4. ~strayed => got = m /\ pos + got <= file.size /\ file.length = file.size
  <2>1. SUFFICES ASSUME ~strayed
                 PROVE  got = m /\ pos + got <= file.size /\ file.length = file.size
    OBVIOUS
  <2>2. ~fail /\ pos <= file.size /\ file.length = file.size
    BY <2>1 DEF IInv, FileInv, InsideFile
  <2>3. m = Smaller(n, file.size - pos) /\ got = m
    BY <1>1, <2>2, ReadInside
  <2>. QED  BY <1>1, <2>2, <2>3, SizesType DEF Smaller, TypeOK, VFSFile, Word
<1>. HIDE DEF m, got
<1>5. TypeOK'
  <2>1. (IF m # n THEN "at_end" ELSE "success") \in Result
    BY DEF Result
  <2>2. reply' \in Answers
    BY <1>2, <1>3, <2>1, ReplyType
  <2>3. fail' \in BOOLEAN
    BY <1>3
  <2>. QED  BY <1>1, <1>2, <1>3, <2>2, <2>3 DEF TypeOK
<1>6. NoOverrun'
  BY <1>2, <1>3 DEF NoOverrun, Answer
<1>7. FileInv'
  <2>1. InsideFile'
    <3>1. ~strayed => ~fail /\ ~(got < m)
      BY <1>2, <1>4 DEF IInv, FileInv, InsideFile, Word
    <3>. QED  BY <1>3, <1>4, <3>1 DEF InsideFile
  <2>. QED  BY <1>3, <2>1 DEF FileInv, ClosedIsEmpty
<1>. QED  BY <1>5, <1>6, <1>7 DEF IInv

LEMMA SeekKeeps ==
    ASSUME IInv, NEW o \in Offset, NEW w \in Origin, Seek(o, w)
    PROVE  IInv'
<1>. DEFINE p == Position(o, w)
<1>1. TypeOK /\ p \in Word
  BY PositionType DEF IInv
<1>2. /\ file.open /\ UNCHANGED file
      /\ fail' = (fail \/ Refused(p)) /\ pos' = (IF fail' THEN pos ELSE p)
      /\ strayed' = (strayed \/ p > file.size)
      /\ reply' = Answer(w, o, 0, 0, "success")
  BY DEF Seek, SetStreamPosition
<1>3. ~strayed' => ~fail' /\ pos' <= file.size /\ file.length = file.size
  <2>1. SUFFICES ASSUME ~strayed'
                 PROVE  ~fail' /\ pos' <= file.size /\ file.length = file.size
    OBVIOUS
  <2>2. ~strayed /\ ~fail /\ pos <= file.size /\ file.length = file.size
    BY <1>2, <2>1 DEF IInv, FileInv, InsideFile
  <2>3. p <= file.size
    BY <1>1, <1>2, <2>1, SizesType DEF TypeOK, VFSFile, Word
  <2>. QED  BY <1>1, <1>2, <2>2, <2>3, SeekInside
<1>. HIDE DEF p
<1>4. TypeOK'
  <2>1. 0 \in Word /\ "success" \in Result
    BY SizesType DEF Result
  <2>2. reply' \in Answers
    BY <1>2, <2>1, ReplyType
  <2>3. fail' \in BOOLEAN /\ strayed' \in BOOLEAN
    BY <1>2
  <2>. QED  BY <1>1, <1>2, <2>2, <2>3 DEF TypeOK
<1>5. NoOverrun'
  BY <1>2 DEF NoOverrun, Answer, Origin
<1>6. FileInv'
  BY <1>2, <1>3 DEF FileInv, InsideFile, ClosedIsEmpty
<1>. QED  BY <1>4, <1>5, <1>6 DEF IInv

LEMMA AskKeeps == ASSUME IInv, Tell \/ Info PROVE IInv'
<1>1. TypeOK'
  <2>1. GetStreamPosition \in Word
    BY ToWordType DEF GetStreamPosition, IInv, TypeOK
  <2>2. 0 \in Word /\ file.size \in Word /\ "success" \in Result
    BY SizesType DEF Result, IInv, TypeOK, VFSFile
  <2>3. PICK c \in {"tell", "info"}, n \in Word : reply' = Answer(c, 0, n, 0, "success")
    BY <2>1, <2>2 DEF Tell, Info
  <2>4. reply' \in Answers
    BY <2>2, <2>3, ReplyType
  <2>. QED  BY <2>4 DEF IInv, TypeOK, Tell, Info
<1>2. NoOverrun'
  BY DEF Tell, Info, NoOverrun, Answer
<1>3. FileInv'
  BY DEF IInv, Tell, Info, FileInv, InsideFile, ClosedIsEmpty
<1>. QED  BY <1>1, <1>2, <1>3 DEF IInv

LEMMA IInvStep == IInv /\ [Next]_vars => IInv'
<1>. SUFFICES ASSUME IInv, [Next]_vars PROVE IInv'
  OBVIOUS
<1>1. ASSUME UNCHANGED vars PROVE IInv'
  BY <1>1 DEF vars, IInv, TypeOK, NoOverrun, FileInv, InsideFile, ClosedIsEmpty
<1>. QED  BY <1>1, OpenKeeps, ReadKeeps, SeekKeeps, AskKeeps DEF Next

-----------------------------------------------------------------------------
(* A session is in its file until a seek leaves it.                        *)
THEOREM Inductive == Spec => []IInv
  BY IInvInit, IInvStep, PTL DEF Spec

(* No position and no count a callback answers leaves the range of size_t. *)
THEOREM TypeCorrect == Spec => []TypeOK
<1>1. IInv => TypeOK
  BY DEF IInv
<1>. QED  BY <1>1, Inductive, PTL

(* Read does not overrun the caller's buffer, also when tellg has answered *)
(* -1 or the cursor is past the end.                                       *)
THEOREM ReadsStayInBuffer == Spec => []NoOverrun
<1>1. IInv => NoOverrun
  BY DEF IInv
<1>. QED  BY <1>1, Inductive, PTL

-----------------------------------------------------------------------------
(* The refinement, one lemma for each callback that moves the cursor.      *)

LEMMA ReadRefines ==
    ASSUME IInv, ~strayed, NEW n \in Asked, Read(n)
    PROVE  Plain!Read(n)
<1>1. TypeOK /\ ~fail /\ pos <= file.size /\ file.length = file.size
  BY DEF IInv, FileInv, InsideFile
<1>2. n \in Nat /\ pos \in Nat /\ file.size \in Nat
  BY <1>1, SizesType DEF TypeOK, VFSFile, Word
<1>3. ToRead(n) = Smaller(n, file.size - pos) /\ Available(ToRead(n)) = ToRead(n)
  BY <1>1, ReadInside
<1>. DEFINE left == file.size - pos
            got == IF n < left THEN n ELSE left
<1>4. got = ToRead(n) /\ (got < n <=> ToRead(n) # n)
  BY <1>1, <1>2, <1>3 DEF Smaller
<1>5. file.open /\ file' = file /\ pos' = pos + got
  BY <1>3, <1>4 DEF Read, ReadData
<1>6. /\ reply'.call = "read" /\ reply'.n = got
      /\ reply'.result = IF ToRead(n) # n THEN "at_end" ELSE "success"
  BY <1>4 DEF Read, Answer
<1>7. (reply'.result = "at_end") = (got < n)
  BY <1>4, <1>6
<1>. QED  BY <1>5, <1>6, <1>7 DEF Plain!Read, Plain!Reply, Origin

LEMMA SeekRefines ==
    ASSUME IInv, ~strayed', NEW o \in Offset, NEW w \in Origin, Seek(o, w)
    PROVE  Plain!Seek(o, w)
<1>. DEFINE p == Position(o, w)
<1>1. TypeOK /\ p \in Word
  BY PositionType DEF IInv
<1>2. /\ file.open /\ UNCHANGED file
      /\ fail' = (fail \/ Refused(p)) /\ pos' = (IF fail' THEN pos ELSE p)
      /\ ~strayed /\ ~(p > file.size)
      /\ reply' = Answer(w, o, 0, 0, "success")
  BY DEF Seek, SetStreamPosition
<1>3. ~fail /\ pos <= file.size /\ file.length = file.size
  BY <1>2 DEF IInv, FileInv, InsideFile
<1>4. p <= file.size
  BY <1>1, <1>2, SizesType DEF TypeOK, VFSFile, Word
<1>5. p = Plain!Base[w] + o /\ p \in 0..file.size /\ pos' = p
  BY <1>1, <1>2, <1>3, <1>4, SeekInside
<1>. HIDE DEF p
<1>. QED  BY <1>2, <1>5 DEF Plain!Seek, Plain!Reply, Answer

LEMMA RefinedStep == IInv /\ [Next]_vars => [Plain!Next]_(Plain!vars)
<1>. SUFFICES ASSUME IInv, Next PROVE Plain!Next \/ UNCHANGED Plain!vars
  BY DEF vars, Plain!vars
<1>1. CASE strayed'
  BY <1>1 DEF Plain!Next
<1>2. CASE Close
  BY <1>2 DEF Close, Closed, Answer, Origin, Plain!Next, Plain!Close, Plain!Reply
<1>3. CASE ~strayed' /\ ~Close
  <2>1. ~strayed
    BY <1>3 DEF IInv, FileInv, ClosedIsEmpty, Next, Open, OpenRefused, Tell, Info, Read, Seek
  <2>2. ASSUME NEW m \in Mode, NEW s \in Size, NEW length \in Size, NEW t \in Stream,
               Open(m, s, length, t)
        PROVE  Plain!Open
    BY <2>2 DEF Open, Answer, Origin, Plain!Open, Plain!Reply
  <2>3. ASSUME OpenRefused PROVE Plain!Refuse
    BY <2>3 DEF OpenRefused, Answer, Origin, Plain!Refuse, Plain!Reply
  <2>4. ASSUME Tell PROVE Plain!Tell
    BY <2>1, <2>4 DEF IInv, FileInv, InsideFile, GetStreamPosition, Tell, Answer, Origin,
                      Plain!Tell, Plain!Reply
  <2>5. ASSUME Info PROVE Plain!Info
    BY <2>5 DEF Info, Answer, Origin, Plain!Info, Plain!Reply
  <2>6. Origin = DOMAIN Plain!Base
    BY DEF Origin, Plain!Base
  <2>. QED
    BY <1>3, <2>1, <2>2, <2>3, <2>4, <2>5, <2>6, ReadRefines, SeekRefines DEF Next, Plain!Next
<1>. QED  BY <1>1, <1>2, <1>3

(* A session that never seeks outside its file is a session of ByteFile    *)
(* when FileSize is the file's length, for files and requests of any size  *)
(* below half the range of size_t.                                         *)
THEOREM Implements == Spec => ImplementsByteFile
<1>1. Init => Plain!Init
  <2>. SUFFICES ASSUME Init PROVE Plain!Init
    OBVIOUS
  <2>1. /\ ~file.open /\ file.open = FALSE /\ file.size = 0 /\ pos = 0 /\ strayed = FALSE
        /\ reply.call = "none" /\ reply.n = 0 /\ reply.result = "success"
    BY DEF Init, Closed, Answer
  <2>. QED  BY <2>1 DEF Origin, Plain!Init, Plain!Reply
<1>. QED  BY <1>1, RefinedStep, Inductive, PTL DEF Spec, Plain!Spec, ImplementsByteFile

(* A short read is told as such until a seek leaves the file: what the     *)
(* vfs_seek_past_end run finds needs such a seek.                          *)
ShortReadIsTold == ~strayed => ShortReadIsAtEnd

THEOREM ShortReadsAreTold == Spec => []ShortReadIsTold
<1>1. Init => ShortReadIsTold
  BY DEF Init, ShortReadIsTold, ShortReadIsAtEnd, Answer
<1>2. IInv /\ ShortReadIsTold /\ [Next]_vars => ShortReadIsTold'
  <2>1. SUFFICES ASSUME IInv, ShortReadIsTold, [Next]_vars, ~strayed' PROVE ShortReadIsAtEnd'
    BY DEF ShortReadIsTold
  <2>2. ASSUME NEW n \in Asked, Read(n) PROVE ShortReadIsAtEnd'
    <3>1. TypeOK /\ ~fail /\ pos <= file.size /\ file.length = file.size
      BY <2>1, <2>2 DEF IInv, FileInv, InsideFile, Read
    <3>2. Available(ToRead(n)) = ToRead(n)
      BY <3>1, ReadInside
    <3>3. ToRead(n) \in Int /\ n \in Int
      BY <3>1, ReadBounds, SizesType DEF Word
    <3>4. reply' = Answer("read", n, ToRead(n), ToRead(n),
                          IF ToRead(n) # n THEN "at_end" ELSE "success")
      BY <2>2, <3>2 DEF Read
    <3>. QED  BY <3>3, <3>4 DEF ShortReadIsAtEnd, Answer
  <2>3. ASSUME UNCHANGED vars PROVE ShortReadIsAtEnd'
    BY <2>1, <2>3 DEF ShortReadIsTold, ShortReadIsAtEnd, vars
  <2>4. ASSUME reply'.call # "read" PROVE ShortReadIsAtEnd'
    BY <2>4 DEF ShortReadIsAtEnd
  <2>5. \/ \E n \in Asked : Read(n)
        \/ UNCHANGED vars
        \/ reply'.call # "read"
    BY <2>1 DEF Next, Open, OpenRefused, Close, Tell, Info, Seek, Answer, Origin
  <2>. QED  BY <2>2, <2>3, <2>4, <2>5
<1>. QED  BY <1>1, <1>2, Inductive, PTL DEF Spec
==============================================================================
