------------------------------- MODULE MCSound -------------------------------
(* A file of the endpoint's channel count and one of another.              *)
EXTENDS Sound, TLC

CONSTANTS Mono, Stereo

MCFileChannels == (Mono :> 1) @@ (Stereo :> 2)

Blocks == Permutations(Addr)
==============================================================================
