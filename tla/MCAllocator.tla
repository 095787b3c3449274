----------------------------- MODULE MCAllocator -----------------------------
(* Which block and which thread is no matter; memory without a prefix      *)
(* reads as the smallest int.                                              *)
EXTENDS Allocator, TLC

BlocksAndThreads == Permutations(Addr) \cup Permutations(Thread)
MCGarbage == {-4}
==============================================================================
