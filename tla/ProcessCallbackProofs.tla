------------------------ MODULE ProcessCallbackProofs ------------------------
(***************************************************************************)
(* Proofs about ProcessCallback, for any nodes, frame counts and channel   *)
(* counts.                                                                 *)
(***************************************************************************)
EXTENDS ProcessCallback, TLAPS

-----------------------------------------------------------------------------
(* The library keeps to its side for as long as the call lasts. *)
CallLegal == InCall => Legal(call.node, call.framesIn, call.framesOut, call.nullInput)

(* A node in place has its input under its output until it writes. *)
InPlaceFresh == last = "none" /\ InPlace =>
                    \A b \in DOMAIN output : output[b] = Dry(call.node, b, call.framesIn)

BufferInv == /\ CallLegal /\ InPlaceFresh
             /\ InsideBuffers /\ SilenceWhenCountsAgree /\ CopyFaithful
IInv == TypeOK /\ BufferInv

(* The part of TypeOK that is about the memory. *)
OutputType == /\ DOMAIN output = DOMAIN call.node.outs
              /\ \A b \in DOMAIN output : output[b] \in [Room -> Sample]

-----------------------------------------------------------------------------
(* Arithmetic                                                              *)

LEMMA ProductMonotone ==
    ASSUME NEW a \in Nat, NEW b \in Nat, NEW c \in Nat, NEW d \in Nat, a <= b, c <= d
    PROVE  a * c <= b * d
<1>1. a * c <= b * c
  OBVIOUS
<1>2. b * c <= b * d
  OBVIOUS
<1>. QED  BY <1>1, <1>2

(* A copy is no longer than the input nor than the output. *)
LEMMA CopyFits ==
    ASSUME NEW b, call.framesIn \in Nat, call.framesOut \in Nat,
           call.node.ins[b] \in Nat, call.node.outs[b] \in Nat
    PROVE  /\ CopySize(b) \in Nat
           /\ CopySize(b) <= call.framesIn * call.node.ins[b]
           /\ CopySize(b) <= call.framesIn * call.node.outs[b]
<1>. DEFINE channels == Least(call.node.ins[b], call.node.outs[b])
<1>1. CopySize(b) = call.framesIn * channels
  BY DEF CopySize, GetInputBuffer, GetOutputBuffer, Least
<1>2. /\ channels \in Nat
      /\ channels <= call.node.ins[b] /\ channels <= call.node.outs[b]
  BY DEF Least
<1>. HIDE DEF channels
<1>. QED  BY <1>1, <1>2, ProductMonotone

-----------------------------------------------------------------------------
(* Buffers and samples                                                     *)

LEMMA Samples ==
    /\ Beyond \in Sample /\ Silence \in Sample
    /\ <<"own">> \in Sample /\ <<"stale">> \in Sample
    /\ Silence # Beyond /\ <<"own">> # Beyond /\ <<"stale">> # Beyond
  BY DEF Beyond, Silence, Sample

LEMMA DrySamples ==
    ASSUME NEW b \in Nat \ {0}, NEW i \in Room
    PROVE  <<"dry", b, i>> \in Sample /\ <<"dry", b, i>> # Beyond
  BY DEF Beyond, Sample

LEMMA DryAt ==
    ASSUME NEW n, NEW b, NEW frames, NEW i \in Room
    PROVE  Dry(n, b, frames)[i] = IF i < frames * n.ins[b] THEN <<"dry", b, i>> ELSE Beyond
  BY DEF Dry, Buffer

LEMMA DryType ==
    ASSUME NEW n, NEW b \in Nat \ {0}, NEW frames
    PROVE  Dry(n, b, frames) \in [Room -> Sample]
  BY Samples, DrySamples DEF Dry, Buffer

LEMMA WholeAt ==
    ASSUME NEW b, NEW s, NEW i \in Room
    PROVE  Whole(b, s)[i] =
               IF i < call.framesIn * call.node.outs[b] THEN s ELSE output[b][i]
  BY DEF Whole, Written, GetOutputBuffer

LEMMA WholeType ==
    ASSUME NEW b, NEW s \in Sample, output[b] \in [Room -> Sample]
    PROVE  Whole(b, s) \in [Room -> Sample]
  BY DEF Whole, Written

(* What is known of a call, from its type and the library's promise. *)
LEMMA NodeType ==
    ASSUME NEW n \in Node
    PROVE  /\ Len(n.ins) \in Nat /\ Len(n.outs) \in Nat
           /\ DOMAIN n.ins = 1..Len(n.ins) /\ DOMAIN n.outs = 1..Len(n.outs)
           /\ \A b \in 1..Len(n.ins) : n.ins[b] \in Nat
           /\ \A b \in 1..Len(n.outs) : n.outs[b] \in Nat
           /\ "passthrough" \in n.flags => n.ins = n.outs
<1>1. n \in [ins : Seq(Nat \ {0}), outs : Seq(Nat \ {0}), flags : SUBSET Flag]
  BY ProcessAssumption
<1>2. n.ins \in Seq(Nat \ {0}) /\ n.outs \in Seq(Nat \ {0})
  BY <1>1
<1>3. "passthrough" \in n.flags => n.ins = n.outs
  BY ProcessAssumption
<1>4. ASSUME NEW s \in Seq(Nat \ {0})
      PROVE  Len(s) \in Nat /\ DOMAIN s = 1..Len(s) /\ \A b \in 1..Len(s) : s[b] \in Nat
  OBVIOUS
<1>. QED  BY <1>2, <1>3, <1>4

LEMMA CallType ==
    ASSUME TypeOK, InCall
    PROVE  /\ call.node \in Node
           /\ call.framesIn \in Nat /\ call.framesOut \in Nat
           /\ InputBusCount \in Nat /\ OutputBusCount \in Nat
           /\ DOMAIN output = 1..OutputBusCount
           /\ \A b \in 1..InputBusCount : call.node.ins[b] \in Nat
           /\ \A b \in 1..OutputBusCount : call.node.outs[b] \in Nat
<1>1. call.node \in Node /\ call.framesIn \in Nat /\ call.framesOut \in Nat
  <2>1. call \in [node : Node, framesIn : Frames \cup {0}, framesOut : Frames,
                  nullInput : BOOLEAN]
    BY DEF TypeOK, Call, InCall
  <2>2. /\ call.node \in Node /\ call.framesIn \in Frames \cup {0}
        /\ call.framesOut \in Frames
    BY <2>1
  <2>3. Frames \subseteq Nat
    BY ProcessAssumption
  <2>4. call.framesOut \in Nat /\ (call.framesIn \in Nat \/ call.framesIn = 0)
    BY <2>2, <2>3, Zenon
  <2>. QED  BY <2>2, <2>4
<1>. QED  BY <1>1, NodeType DEF TypeOK, InputBusCount, OutputBusCount

(* The span of an output bus ends where the bus ends, or before. *)
LEMMA SpanFits ==
    ASSUME TypeOK, CallLegal, InCall, "different_rates" \notin call.node.flags,
           NEW b \in DOMAIN output
    PROVE  /\ call.framesIn * call.node.outs[b] \in Nat
           /\ call.framesOut * call.node.outs[b] \in Nat
           /\ call.framesIn * call.node.outs[b] <= call.framesOut * call.node.outs[b]
<1>1. call.framesIn <= call.framesOut
  BY DEF CallLegal, Legal
<1>2. call.framesIn \in Nat /\ call.framesOut \in Nat /\ call.node.outs[b] \in Nat
  BY CallType
<1>. QED  BY <1>1, <1>2, ProductMonotone

-----------------------------------------------------------------------------
(* The invariant, one lemma for each way of touching the memory.           *)

(* Before and after a call there is none. *)
LEMMA NoMemory ==
    ASSUME call = NoCall, output = <<>>, last = "none", touched = FALSE
    PROVE  IInv
<1>1. DOMAIN output = {} /\ DOMAIN output = DOMAIN call.node.outs
  BY DEF NoCall
<1>2. TypeOK
  BY <1>1 DEF TypeOK, Call
<1>3. CallLegal
  BY DEF CallLegal, InCall
<1>4. InPlaceFresh /\ InsideBuffers /\ SilenceWhenCountsAgree /\ CopyFaithful
  BY <1>1 DEF InPlaceFresh, InsideBuffers, SilenceWhenCountsAgree, CopyFaithful
<1>. QED  BY <1>2, <1>3, <1>4 DEF IInv, BufferInv

(* The library's buffers are as long as it says. *)
LEMMA CallKeeps ==
    ASSUME NEW n \in Node, NEW in \in Frames \cup {0}, NEW out \in Frames, NEW null \in BOOLEAN,
           sProcess(n, in, out, null)
    PROVE  IInv'
<1>1. /\ Legal(n, in, out, null)
      /\ call' = [node |-> n, framesIn |-> in, framesOut |-> out, nullInput |-> null]
      /\ last' = "none" /\ touched' = FALSE
  BY DEF sProcess
<1>2. /\ call'.node = n /\ call'.framesIn = in /\ call'.framesOut = out
      /\ call'.nullInput = null
  BY <1>1
<1>3. /\ DOMAIN output' = DOMAIN n.outs
      /\ "passthrough" \in n.flags => \A b \in DOMAIN n.outs : output'[b] = Dry(n, b, in)
      /\ "passthrough" \notin n.flags => \A b \in DOMAIN n.outs, i \in Room :
             output'[b][i] = IF i < out * n.outs[b] THEN <<"stale">> ELSE Beyond
  BY DEF sProcess, Buffer
<1>4. \A b \in DOMAIN n.outs : output'[b] \in [Room -> Sample]
  <2>1. SUFFICES ASSUME NEW b \in DOMAIN n.outs PROVE output'[b] \in [Room -> Sample]
    OBVIOUS
  <2>2. CASE "passthrough" \in n.flags
    <3>1. b \in Nat \ {0}
      BY NodeType
    <3>. QED  BY <1>3, <2>2, <3>1, DryType
  <2>3. CASE "passthrough" \notin n.flags
    BY <2>3, Samples DEF sProcess, Buffer
  <2>. QED  BY <2>2, <2>3
<1>5. \A b \in DOMAIN n.outs, i \in Room : output'[b][i] = Beyond <=> ~(i < out * n.outs[b])
  <2>1. SUFFICES ASSUME NEW b \in DOMAIN n.outs, NEW i \in Room
                 PROVE  output'[b][i] = Beyond <=> ~(i < out * n.outs[b])
    OBVIOUS
  <2>2. CASE "passthrough" \in n.flags
    <3>1. in = out /\ n.ins[b] = n.outs[b] /\ b \in Nat \ {0}
      BY <1>1, <2>2, NodeType DEF Legal
    <3>2. output'[b][i] = IF i < out * n.outs[b] THEN <<"dry", b, i>> ELSE Beyond
      BY <1>3, <2>2, <3>1, DryAt
    <3>. QED  BY <3>1, <3>2, DrySamples
  <2>3. CASE "passthrough" \notin n.flags
    BY <1>3, <2>3, Samples
  <2>. QED  BY <2>2, <2>3
<1>6. TypeOK'
  <2>1. call' \in Call
    BY <1>1 DEF Call
  <2>. QED  BY <1>1, <1>2, <1>3, <1>4, <2>1 DEF TypeOK
<1>7. CallLegal'
  BY <1>1, <1>2 DEF CallLegal
<1>8. InPlaceFresh'
  BY <1>2, <1>3 DEF InPlaceFresh, InPlace
<1>9. InsideBuffers'
  BY <1>2, <1>3, <1>5 DEF InsideBuffers, Inside
<1>10. SilenceWhenCountsAgree' /\ CopyFaithful'
  BY <1>1 DEF SilenceWhenCountsAgree, CopyFaithful
<1>. QED  BY <1>6, <1>7, <1>8, <1>9, <1>10 DEF IInv, BufferInv

(* A step of Process leaves the call alone and its type with it. *)
LEMMA StepType ==
    ASSUME IInv, NEW name \in {"silence", "bus", "copy", "own"}, Step(name), OutputType'
    PROVE  TypeOK' /\ CallLegal' /\ InPlaceFresh'
<1>1. TypeOK'
  BY DEF IInv, TypeOK, Step, OutputType
<1>2. CallLegal'
  BY DEF IInv, BufferInv, CallLegal, Step, InCall
<1>3. InPlaceFresh'
  BY DEF InPlaceFresh, Step
<1>. QED  BY <1>1, <1>2, <1>3

(* Whole spans are written with silence or with what Process makes. *)
LEMMA WriteStays ==
    ASSUME IInv, InCall, UNCHANGED call, NEW s \in {Silence, <<"own">>},
           DOMAIN output' = DOMAIN output,
           \A b \in DOMAIN output : output'[b] = output[b] \/ output'[b] = Whole(b, s)
    PROVE  OutputType' /\ InsideBuffers'
<1>1. TypeOK /\ CallLegal /\ InsideBuffers
  BY DEF IInv, BufferInv
<1>2. s \in Sample /\ s # Beyond
  BY Samples
<1>3. OutputType'
  BY <1>1, <1>2, WholeType DEF TypeOK, OutputType
<1>4. InsideBuffers'
  <2>1. SUFFICES ASSUME "different_rates" \notin call.node.flags,
                        NEW b \in DOMAIN output, NEW i \in Room
                 PROVE  output'[b][i] = Beyond <=> ~(i < call.framesOut * call.node.outs[b])
    BY DEF InsideBuffers, Inside
  <2>2. output[b][i] = Beyond <=> ~(i < call.framesOut * call.node.outs[b])
    BY <1>1, <2>1 DEF InsideBuffers, Inside
  <2>3. CASE output'[b] = output[b]
    BY <2>2, <2>3
  <2>4. CASE output'[b] = Whole(b, s)
    <3>1. /\ call.framesIn * call.node.outs[b] \in Nat
          /\ call.framesOut * call.node.outs[b] \in Nat
          /\ call.framesIn * call.node.outs[b] <= call.framesOut * call.node.outs[b]
      BY <1>1, <2>1, SpanFits
    <3>2. i \in Int
      BY ProcessAssumption DEF Room
    <3>3. i < call.framesIn * call.node.outs[b] => i < call.framesOut * call.node.outs[b]
      BY <3>1, <3>2
    <3>. QED  BY <1>2, <2>2, <2>4, <3>3, WholeAt
  <2>. QED  BY <2>3, <2>4
<1>. QED  BY <1>3, <1>4

LEMMA WriteKeeps ==
    ASSUME IInv, \/ FillOutputWithSilence
                 \/ \E b \in 1..OutputBusCount : FillOutputBusWithSilence(b) \/ WriteOwn(b)
    PROVE  IInv'
<1>1. CASE FillOutputWithSilence
  <2>1. /\ InCall /\ UNCHANGED call /\ last' = "silence" /\ Step("silence")
        /\ DOMAIN output' = DOMAIN output
        /\ \A b \in DOMAIN output : output'[b] = Whole(b, Silence)
    BY <1>1 DEF FillOutputWithSilence, Step
  <2>2. OutputType' /\ InsideBuffers'
    BY <2>1, WriteStays
  <2>3. SilenceWhenCountsAgree'
    BY <2>1, WholeAt DEF SilenceWhenCountsAgree, Inside
  <2>4. CopyFaithful'
    BY <2>1 DEF CopyFaithful
  <2>. QED  BY <2>1, <2>2, <2>3, <2>4, StepType DEF IInv, BufferInv
<1>2. CASE \E b \in 1..OutputBusCount : FillOutputBusWithSilence(b) \/ WriteOwn(b)
  <2>1. PICK b \in 1..OutputBusCount : FillOutputBusWithSilence(b) \/ WriteOwn(b)
    BY <1>2
  <2>2. PICK s \in {Silence, <<"own">>}, name \in {"bus", "own"} :
            Step(name) /\ output' = [output EXCEPT ![b] = Whole(b, s)]
    BY <2>1 DEF FillOutputBusWithSilence, WriteOwn
  <2>3. /\ InCall /\ UNCHANGED call /\ last' = name
        /\ DOMAIN output' = DOMAIN output
        /\ \A c \in DOMAIN output : output'[c] = output[c] \/ output'[c] = Whole(c, s)
    BY <2>2 DEF Step
  <2>4. OutputType' /\ InsideBuffers'
    BY <2>3, WriteStays
  <2>5. SilenceWhenCountsAgree' /\ CopyFaithful'
    BY <2>3 DEF SilenceWhenCountsAgree, CopyFaithful
  <2>. QED  BY <2>2, <2>4, <2>5, StepType DEF IInv, BufferInv
<1>. QED  BY <1>1, <1>2

(* What arrives in an output bus: a prefix of the input of the same index. *)
LEMMA CopyAt ==
    ASSUME CopyInputsToOutputs, NEW b \in DOMAIN output
    PROVE  \/ output'[b] = output[b] /\ ~(b <= Least(InputBusCount, OutputBusCount))
           \/ /\ b <= Least(InputBusCount, OutputBusCount)
              /\ output'[b] = [i \in Room |-> IF i < CopySize(b) THEN Input(b)[i]
                                                                 ELSE output[b][i]]
  BY DEF CopyInputsToOutputs

(* The buses a copy is about have an input and an output. *)
LEMMA CopiedBus ==
    ASSUME TypeOK, InCall, NEW b \in DOMAIN output, b <= Least(InputBusCount, OutputBusCount)
    PROVE  /\ b \in Nat \ {0} /\ b \in 1..InputBusCount
           /\ call.node.ins[b] \in Nat /\ call.node.outs[b] \in Nat
<1>1. b \in 1..OutputBusCount /\ InputBusCount \in Nat /\ OutputBusCount \in Nat
  BY CallType
<1>2. b \in 1..InputBusCount /\ b \in Nat \ {0}
  BY <1>1 DEF Least
<1>. QED  BY <1>1, <1>2, CallType

(* An input is samples, and as long as the copy needs. *)
LEMMA InputType ==
    ASSUME TypeOK, InCall, NEW b \in DOMAIN output, b <= Least(InputBusCount, OutputBusCount)
    PROVE  /\ Input(b) \in [Room -> Sample]
           /\ ~InPlace => \A i \in Room : i < CopySize(b) => Input(b)[i] = <<"dry", b, i>>
<1>1. /\ b \in Nat \ {0}
      /\ call.node.ins[b] \in Nat /\ call.node.outs[b] \in Nat
  BY CopiedBus
<1>2. Input(b) \in [Room -> Sample]
  BY <1>1, DryType DEF Input, TypeOK
<1>3. ASSUME ~InPlace, NEW i \in Room, i < CopySize(b) PROVE Input(b)[i] = <<"dry", b, i>>
  <2>1. call.framesIn \in Nat /\ call.framesOut \in Nat
    BY CallType
  <2>2. CopySize(b) \in Nat /\ CopySize(b) <= call.framesIn * call.node.ins[b]
    BY <1>1, <2>1, CopyFits
  <2>3. i \in Int /\ call.framesIn * call.node.ins[b] \in Int
    BY <1>1, <2>1, ProcessAssumption DEF Room
  <2>4. i < call.framesIn * call.node.ins[b]
    BY <1>3, <2>2, <2>3
  <2>5. Dry(call.node, b, call.framesIn)[i] = <<"dry", b, i>>
    BY <2>4, DryAt
  <2>. QED  BY <1>3, <2>5 DEF Input
<1>. QED  BY <1>2, <1>3

LEMMA CopyStays ==
    ASSUME IInv, CopyInputsToOutputs
    PROVE  OutputType' /\ InsideBuffers'
<1>1. TypeOK /\ CallLegal /\ InsideBuffers /\ InCall /\ UNCHANGED call
  BY DEF IInv, BufferInv, CopyInputsToOutputs, Step
<1>2. DOMAIN output' = DOMAIN output
  BY DEF CopyInputsToOutputs
<1>3. ASSUME NEW b \in DOMAIN output PROVE output'[b] \in [Room -> Sample]
  <2>1. output[b] \in [Room -> Sample]
    BY <1>1 DEF TypeOK
  <2>2. CASE output'[b] = output[b]
    BY <2>1, <2>2
  <2>3. CASE output'[b] # output[b]
    <3>1. /\ b <= Least(InputBusCount, OutputBusCount)
          /\ output'[b] = [i \in Room |-> IF i < CopySize(b) THEN Input(b)[i]
                                                            ELSE output[b][i]]
      BY <2>3, CopyAt
    <3>2. Input(b) \in [Room -> Sample]
      BY <1>1, <3>1, InputType
    <3>. QED  BY <2>1, <3>1, <3>2
  <2>. QED  BY <2>2, <2>3
<1>4. InsideBuffers'
  <2>1. SUFFICES ASSUME "different_rates" \notin call.node.flags,
                        NEW b \in DOMAIN output, NEW i \in Room
                 PROVE  output'[b][i] = Beyond <=> ~(i < call.framesOut * call.node.outs[b])
    BY <1>1, <1>2 DEF InsideBuffers, Inside
  <2>2. output[b][i] = Beyond <=> ~(i < call.framesOut * call.node.outs[b])
    BY <1>1, <2>1 DEF InsideBuffers, Inside
  <2>3. CASE output'[b][i] = output[b][i]
    BY <2>2, <2>3
  <2>4. CASE output'[b][i] # output[b][i]
    <3>1. /\ b <= Least(InputBusCount, OutputBusCount) /\ i < CopySize(b)
          /\ output'[b][i] = Input(b)[i] /\ ~InPlace
      <4>1. /\ b <= Least(InputBusCount, OutputBusCount)
            /\ output'[b][i] = IF i < CopySize(b) THEN Input(b)[i] ELSE output[b][i]
        BY <2>4, CopyAt
      <4>. QED  BY <2>4, <4>1 DEF Input
    <3>2. output'[b][i] # Beyond
      <4>1. Input(b)[i] # Beyond
        BY <1>1, <3>1, InputType, CopiedBus, DrySamples
      <4>. QED  BY <3>1, <4>1
    <3>3. i < call.framesOut * call.node.outs[b]
      <4>1. /\ CopySize(b) \in Nat
            /\ CopySize(b) <= call.framesIn * call.node.outs[b]
        BY <1>1, <3>1, CopiedBus, CallType, CopyFits
      <4>2. /\ call.framesIn * call.node.outs[b] \in Nat
            /\ call.framesOut * call.node.outs[b] \in Nat
            /\ call.framesIn * call.node.outs[b] <= call.framesOut * call.node.outs[b]
        BY <1>1, <2>1, SpanFits
      <4>3. i \in Int
        BY ProcessAssumption DEF Room
      <4>. QED  BY <3>1, <4>1, <4>2, <4>3
    <3>. QED  BY <3>2, <3>3
  <2>. QED  BY <2>3, <2>4
<1>5. OutputType'
  BY <1>1, <1>2, <1>3 DEF OutputType, TypeOK
<1>. QED  BY <1>4, <1>5

(* An input that is still there arrives, in place or not. *)
LEMMA CopyArrives ==
    ASSUME IInv, CopyInputsToOutputs
    PROVE  CopyFaithful'
<1>1. TypeOK /\ CallLegal /\ InPlaceFresh /\ InCall /\ UNCHANGED call
  BY DEF IInv, BufferInv, CopyInputsToOutputs, Step
<1>2. SUFFICES ASSUME ~(InPlace /\ touched'),
                      NEW b \in 1..Least(InputBusCount, OutputBusCount), NEW i \in Room,
                      call.node.ins[b] = call.node.outs[b],
                      i < Least(call.framesIn, call.framesOut) * call.node.ins[b]
               PROVE  output'[b][i] = <<"dry", b, i>>
  BY <1>1 DEF CopyFaithful, InPlace, InputBusCount, OutputBusCount
<1>3. /\ b \in DOMAIN output /\ b <= Least(InputBusCount, OutputBusCount)
      /\ call.node.ins[b] \in Nat /\ call.node.outs[b] \in Nat
      /\ call.framesIn \in Nat /\ call.framesOut \in Nat
  <2>1. InputBusCount \in Nat /\ OutputBusCount \in Nat /\ DOMAIN output = 1..OutputBusCount
    BY <1>1, CallType
  <2>2. b \in DOMAIN output /\ b <= Least(InputBusCount, OutputBusCount)
    BY <1>2, <2>1 DEF Least
  <2>. QED  BY <1>1, <2>2, CopiedBus, CallType
<1>4. i < call.framesIn * call.node.ins[b]
  <2>1. /\ Least(call.framesIn, call.framesOut) \in Nat
        /\ Least(call.framesIn, call.framesOut) <= call.framesIn
    BY <1>3 DEF Least
  <2>2. Least(call.framesIn, call.framesOut) * call.node.ins[b]
            <= call.framesIn * call.node.ins[b]
    BY <1>3, <2>1, ProductMonotone
  <2>3. /\ i \in Int /\ call.framesIn * call.node.ins[b] \in Int
        /\ Least(call.framesIn, call.framesOut) * call.node.ins[b] \in Int
    BY <1>3, <2>1, ProcessAssumption DEF Room
  <2>. QED  BY <1>2, <2>2, <2>3
<1>5. output'[b][i] = IF i < CopySize(b) THEN Input(b)[i] ELSE output[b][i]
  BY <1>3, CopyAt
<1>6. CASE InPlace
  <2>1. last = "none"
    BY <1>2, <1>6 DEF CopyInputsToOutputs, Step
  <2>2. output[b] = Dry(call.node, b, call.framesIn)
    BY <1>1, <1>3, <1>6, <2>1 DEF InPlaceFresh
  <2>. QED  BY <1>4, <1>5, <1>6, <2>2, DryAt DEF Input
<1>7. CASE ~InPlace
  <2>1. CopySize(b) = call.framesIn * call.node.ins[b]
    BY <1>2, <1>3 DEF CopySize, GetInputBuffer, GetOutputBuffer, Least
  <2>. QED  BY <1>1, <1>3, <1>4, <1>5, <1>7, <2>1, InputType
<1>. QED  BY <1>6, <1>7

LEMMA CopyKeeps == ASSUME IInv, CopyInputsToOutputs PROVE IInv'
<1>1. Step("copy") /\ last' = "copy"
  BY DEF CopyInputsToOutputs, Step
<1>2. TypeOK' /\ CallLegal' /\ InPlaceFresh'
  BY <1>1, CopyStays, StepType
<1>3. SilenceWhenCountsAgree'
  BY <1>1 DEF SilenceWhenCountsAgree
<1>. QED  BY <1>2, <1>3, CopyStays, CopyArrives DEF IInv, BufferInv

-----------------------------------------------------------------------------
LEMMA IInvInit == Init => IInv
  BY NoMemory DEF Init

LEMMA IInvStep == IInv /\ [Next]_vars => IInv'
<1>. SUFFICES ASSUME IInv, [Next]_vars PROVE IInv'
  OBVIOUS
<1>1. ASSUME Return PROVE IInv'
  <2>1. (call = NoCall /\ output = <<>> /\ last = "none" /\ touched = FALSE => IInv)'
    BY NoMemory, PTL
  <2>. QED  BY <1>1, <2>1 DEF Return
<1>2. ASSUME UNCHANGED vars PROVE IInv'
  BY <1>2 DEF vars, IInv, BufferInv, TypeOK, CallLegal, InCall, InPlaceFresh, InPlace,
              InsideBuffers, Inside, SilenceWhenCountsAgree, CopyFaithful, InputBusCount,
              OutputBusCount
<1>. QED  BY <1>1, <1>2, CallKeeps, WriteKeeps, CopyKeeps DEF Next

-----------------------------------------------------------------------------
(* Whatever a Process calls, in any order, the following stays true.       *)
THEOREM Inductive == Spec => []IInv
  BY IInvInit, IInvStep, PTL DEF Spec

(* The output buses are those of the node called, as many as it has.       *)
THEOREM TypeCorrect == Spec => []TypeOK
<1>1. IInv => TypeOK
  BY DEF IInv
<1>. QED  BY <1>1, Inductive, PTL

(* Nothing is read or written past the end of a buffer, for any channel    *)
(* and frame counts the library may call with.                             *)
THEOREM StaysInsideBuffers == Spec => []InsideBuffers
<1>1. IInv => InsideBuffers
  BY DEF IInv, BufferInv
<1>. QED  BY <1>1, Inductive, PTL

(* FillOutputWithSilence silences all of an output as long as its input.   *)
THEOREM SilencesAll == Spec => []SilenceWhenCountsAgree
<1>1. IInv => SilenceWhenCountsAgree
  BY DEF IInv, BufferInv
<1>. QED  BY <1>1, Inductive, PTL

(* CopyInputsToOutputs loses no sample of a bus with as many channels on   *)
(* either side.                                                            *)
THEOREM CopiesFaithfully == Spec => []CopyFaithful
<1>1. IInv => CopyFaithful
  BY DEF IInv, BufferInv
<1>. QED  BY <1>1, Inductive, PTL
==============================================================================
