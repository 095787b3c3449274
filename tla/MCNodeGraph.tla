----------------------------- MODULE MCNodeGraph -----------------------------
(* Channel layouts for NodeGraph: a mono splitter, and a node that turns   *)
(* stereo into mono, so that two input buses of the same index can differ  *)
(* and an address can be reused by a node with other buses.                *)
EXTENDS NodeGraph

Splitter == [ins |-> <<1>>, outs |-> <<1, 1>>]
Downmix  == [ins |-> <<2>>, outs |-> <<1>>]

MCLayout == {Splitter, Downmix}
MCEndpoint == [ins |-> <<1>>, outs |-> <<1>>]
==============================================================================
