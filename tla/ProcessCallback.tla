--------------------------- MODULE ProcessCallback ---------------------------
(***************************************************************************)
(* What the audio thread hands to a custom node's Process: frame buffers   *)
(* of the library, seen through ProcessCallbackData.  One call of sProcess *)
(* at a time; inside it the user's Process silences output buses, copies   *)
(* the inputs or writes the spans GetOutputBuffer gives it.                *)
(*                                                                         *)
(* The library owns the buffers and the two frame counts.  What it calls   *)
(* with is external: a node without inputs gets a null input and no input  *)
(* frames, a passthrough node processes in place, only a node that asked   *)
(* for different processing rates gets more frames in than out.            *)
(***************************************************************************)
EXTENDS Integers, Sequences

CONSTANTS Node,    \* [ins, outs, flags]: channels of each bus, TNode::FLAGS
          Frames,  \* the frame counts of a call
          Extent   \* how far the memory behind a buffer is looked at

Flag == {"passthrough", "allow_null", "different_rates"}

ASSUME ProcessAssumption ==
    /\ Frames \subseteq Nat
    /\ Node \subseteq [ins : Seq(Nat \ {0}), outs : Seq(Nat \ {0}), flags : SUBSET Flag]
    /\ \A n \in Node : "passthrough" \in n.flags =>
                           Len(n.ins) = 1 /\ Len(n.outs) = 1 /\ n.ins = n.outs
    /\ Extent \in Nat

VARIABLES call,     \* the arguments of sProcess, or NoCall
          output,   \* the memory at ppFramesOut[b], as far as Room
          last,     \* what Process has just called
          touched   \* it has written before that

vars == <<call, output, last, touched>>

Least(a, b) == IF a < b THEN a ELSE b

(* A buffer's samples are indexed from its first one; Room may reach past  *)
(* the end of every buffer, into memory that is not the callback's.        *)
Room == 0..Extent

(* A sample: what the output held before, zero, something of the node's    *)
(* own, sample i of input bus b, or memory outside the buffer.             *)
Sample  == {<<"stale">>, <<"silence">>, <<"own">>, <<"beyond">>}
           \cup ({"dry"} \X (Nat \ {0}) \X Room)
Beyond  == <<"beyond">>
Silence == <<"silence">>

NoCall == [node |-> [ins |-> <<>>, outs |-> <<>>, flags |-> {}],
           framesIn |-> 0, framesOut |-> 0, nullInput |-> TRUE]
Call == {NoCall} \cup [node : Node, framesIn : Frames \cup {0},
                       framesOut : Frames, nullInput : BOOLEAN]

TypeOK ==
    /\ call \in Call
    /\ DOMAIN output = DOMAIN call.node.outs
    /\ \A b \in DOMAIN output : output[b] \in [Room -> Sample]
    /\ last \in {"none", "silence", "bus", "copy", "own"} /\ touched \in BOOLEAN

Init == call = NoCall /\ output = <<>> /\ last = "none" /\ touched = FALSE

-----------------------------------------------------------------------------
InputBusCount  == Len(call.node.ins)
OutputBusCount == Len(call.node.outs)
InPlace        == "passthrough" \in call.node.flags
Buffer(size, sample(_)) == [i \in Room |-> IF i < size THEN sample(i) ELSE Beyond]

Dry(n, b, frames) == LET sample(i) == <<"dry", b, i>> IN Buffer(frames * n.ins[b], sample)

(* The memory at ppFramesIn[b]. *)
Input(b) == IF InPlace THEN output[b] ELSE Dry(call.node, b, call.framesIn)

(* Spans: their extent only, the memory is Input(b) and output[b].         *)
GetInputBuffer(b)  == [frames |-> call.framesIn, channels |-> call.node.ins[b]]
GetOutputBuffer(b) == [frames |-> call.framesIn, channels |-> call.node.outs[b]]

Written(mem, n, s) == [i \in Room |-> IF i < n THEN s ELSE mem[i]]
Whole(b, s) == LET out == GetOutputBuffer(b)
               IN Written(output[b], out.frames * out.channels, s)

-----------------------------------------------------------------------------
InCall == call # NoCall

(* The frame counts the library may call a node with. *)
Legal(n, in, out, null) ==
    /\ n.ins = <<>> => null /\ in = 0
    /\ n.ins # <<>> => (null => "allow_null" \in n.flags)
    /\ "passthrough" \in n.flags => in = out /\ ~null
    /\ "different_rates" \notin n.flags => in <= out

sProcess(n, in, out, null) ==
    /\ ~InCall /\ Legal(n, in, out, null)
    /\ call' = [node |-> n, framesIn |-> in, framesOut |-> out, nullInput |-> null]
    /\ output' = [b \in DOMAIN n.outs |->
                     IF "passthrough" \in n.flags THEN Dry(n, b, in)
                     ELSE LET stale(i) == <<"stale">> IN Buffer(out * n.outs[b], stale)]
    /\ last' = "none" /\ touched' = FALSE

Step(name) == /\ InCall /\ last' = name
              /\ touched' = (touched \/ last # "none")
              /\ UNCHANGED call

FillOutputBusWithSilence(b) ==
    /\ Step("bus") /\ output' = [output EXCEPT ![b] = Whole(b, Silence)]

(* Mutant: only the buses that have an input. *)
FillPairedWithSilence ==
    /\ Step("silence")
    /\ output' = [b \in DOMAIN output |->
                     IF b <= InputBusCount THEN Whole(b, Silence) ELSE output[b]]

FillOutputWithSilence ==
    /\ Step("silence") /\ output' = [b \in DOMAIN output |-> Whole(b, Silence)]

(* Mutant: the channels of the input, not the smaller of the two. *)
CopyAllChannels(b) == Least(GetInputBuffer(b).frames, GetOutputBuffer(b).frames)
                          * GetInputBuffer(b).channels

(* Mutant: a memcpy of numFramesToCopy samples. *)
CopyFrameCount(b) == Least(GetInputBuffer(b).frames, GetOutputBuffer(b).frames)

(* How many samples the memcpy for bus b moves. *)
CopySize(b) == LET in == GetInputBuffer(b)
                   out == GetOutputBuffer(b)
               IN Least(in.frames, out.frames) * Least(in.channels, out.channels)

(* Mutant: over the input buses, whether or not there are as many outputs. *)
CopyEveryInput ==
    /\ ~call.nullInput /\ Step("copy")
    /\ output' = [b \in DOMAIN output \cup 1..InputBusCount |-> Input(b)]

(* Not for the null input of a node that has inputs: the caller has to     *)
(* look at IsNullInput first.                                              *)
CopyInputsToOutputs ==
    /\ ~call.nullInput \/ InputBusCount = 0
    /\ Step("copy")
    /\ output' = [b \in DOMAIN output |->
                     IF b <= Least(InputBusCount, OutputBusCount)
                     THEN [i \in Room |-> IF i < CopySize(b) THEN Input(b)[i] ELSE output[b][i]]
                     ELSE output[b]]

(* Process writes the span it was given. *)
WriteOwn(b) ==
    /\ Step("own") /\ output' = [output EXCEPT ![b] = Whole(b, <<"own">>)]

Return == /\ InCall
          /\ call' = NoCall /\ output' = <<>> /\ last' = "none" /\ touched' = FALSE

Next == \/ \E n \in Node, in \in Frames \cup {0}, out \in Frames, null \in BOOLEAN :
               sProcess(n, in, out, null)
        \/ \E b \in 1..OutputBusCount : FillOutputBusWithSilence(b) \/ WriteOwn(b)
        \/ FillOutputWithSilence \/ CopyInputsToOutputs
        \/ Return

Spec == Init /\ [][Next]_vars

-----------------------------------------------------------------------------
(* PROPERTIES                                                              *)

Inside(b, i) == i < call.framesOut * call.node.outs[b]

(* No sample is written past the end of an output buffer, and none that a  *)
(* copy read past the end of an input buffer arrives in one, whatever the  *)
(* channel counts on either side and however many input frames are short.  *)
(* A node with different processing rates is on its own: its output span   *)
(* is as long as its input.                                                *)
InsideBuffers ==
    "different_rates" \notin call.node.flags =>
        \A b \in DOMAIN output, i \in Room : output[b][i] = Beyond <=> ~Inside(b, i)

(* FillOutputWithSilence leaves nothing of what was in the output, on any  *)
(* bus, as long as there are as many frames in as out.                     *)
SilenceWhenCountsAgree ==
    last = "silence" /\ call.framesIn = call.framesOut =>
        \A b \in DOMAIN output, i \in Room : Inside(b, i) => output[b][i] = Silence

(* The same for every call (`Fill output with silense (all busses in one   *)
(* function)'): a node without input, or with a short one, too.            *)
SilenceIsWhole ==
    last = "silence" =>
        \A b \in DOMAIN output, i \in Room : Inside(b, i) => output[b][i] = Silence

(* A copy puts each sample of a bus whose channels agree on either side at *)
(* its place in the output bus of the same index, in place or not; only a  *)
(* passthrough node that has written already has destroyed its input.      *)
CopyFaithful ==
    last = "copy" /\ ~(InPlace /\ touched) =>
        \A b \in 1..Least(InputBusCount, OutputBusCount), i \in Room :
            /\ call.node.ins[b] = call.node.outs[b]
            /\ i < Least(call.framesIn, call.framesOut) * call.node.ins[b]
            => output[b][i] = <<"dry", b, i>>
==============================================================================
