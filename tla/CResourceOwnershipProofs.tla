----------------------- MODULE CResourceOwnershipProofs -----------------------
(***************************************************************************)
(* CResource implements Ownership for any number of handles and blocks.    *)
(***************************************************************************)
EXTENDS CResourceOwnership, CResourceProofs

(* With unique owners, OwnerOf is what its name says. *)
LEMMA OwnerOfHeld ==
    ASSUME UniqueOwner, NEW a \in Addr, NEW h \in Handle, Holds(h), resource[h] = a
    PROVE  OwnerOf(a) = h
<1>1. Holders(a) = {h}
  BY DEF Holders, UniqueOwner
<1>. QED  BY <1>1 DEF OwnerOf

LEMMA OwnerOfClient ==
    ASSUME UniqueOwner, NEW a \in client
    PROVE  OwnerOf(a) = Client
<1>1. Holders(a) = {}
  BY DEF Holders, UniqueOwner
<1>. QED  BY <1>1 DEF OwnerOf

(* Exactly the allocated blocks have an owner. *)
OwnedIffAllocated ==
    \A a \in Addr : IF block[a] = "free" THEN OwnerOf(a) = Nobody
                                         ELSE OwnerOf(a) \in Handle \cup {Client}

LEMMA OwnerOfBlock == Owned => OwnedIffAllocated
<1>. SUFFICES ASSUME Owned, NEW a \in Addr
              PROVE  IF block[a] = "free" THEN OwnerOf(a) = Nobody
                                          ELSE OwnerOf(a) \in Handle \cup {Client}
  BY DEF OwnedIffAllocated
<1>1. CASE block[a] = "free"
  <2>1. a \notin client /\ Holders(a) = {}
    BY <1>1 DEF Owned, NoDangling, Holders
  <2>. QED  BY <1>1, <2>1 DEF OwnerOf
<1>2. CASE block[a] # "free"
  <2>1. a \in client \/ \E h \in Handle : Holds(h) /\ resource[h] = a
    BY <1>2 DEF Owned, NoLeak
  <2>. QED  BY <1>2, <2>1, OwnerOfHeld, OwnerOfClient DEF Owned
<1>. QED  BY <1>1, <1>2

(* A block that gets initialised stays with its owner. *)
LEMMA InitKeepsOwner ==
    ASSUME Owned, NEW h \in Handle, InitOk(h), TypeOK, NEW a \in Addr
    PROVE  OwnerOf(a)' = OwnerOf(a)
<1>1. Holders(a)' = Holders(a) /\ client' = client
  BY DEF InitOk, Holders, Holds, TypeOK
<1>. QED  BY <1>1 DEF OwnerOf

-----------------------------------------------------------------------------
(* Every block takes a step of its life cycle. *)
LEMMA LifecycleStep ==
    ASSUME TypeOK, TypeOK', Owned, Owned', [Next]_vars, NEW a \in Addr
    PROVE  Own!Lifecycle(a)
<1>. DEFINE OwnerIn == OwnerOf(a) \in Handle \cup {Client}
<1>1. /\ block[a] \in Phase /\ block'[a] \in Phase
      /\ IF block[a] = "free" THEN OwnerOf(a) = Nobody ELSE OwnerIn
      /\ IF block'[a] = "free" THEN OwnerOf(a)' = Nobody ELSE OwnerIn'
  <2>1. (Owned => OwnedIffAllocated)'
    BY OwnerOfBlock, PTL
  <2>. QED  BY <2>1, OwnerOfBlock DEF TypeOK, OwnedIffAllocated
<1>2. \/ block'[a] = block[a]
      \/ block'[a] = "free"
      \/ block[a] = "free" /\ block'[a] = "raw"
      \/ block[a] = "raw" /\ block'[a] = "live" /\ OwnerOf(a)' = OwnerOf(a)
  <2>1. ASSUME NEW h \in Handle, resource[h] = a, InitOk(h)
        PROVE  block[a] = "raw" /\ OwnerOf(a)' = OwnerOf(a)
    BY <2>1, InitKeepsOwner DEF Owned, PcConsistent, InitOk
  <2>. QED  BY <2>1, BlockStep DEF Owned
<1>. HIDE DEF OwnerIn
<1>. QED
  BY <1>1, <1>2 DEF Own!Lifecycle, Own!Keep, Own!Allocate, Own!Initialise, Own!Transfer,
                    Own!Dispose, Own!Owner, OwnerIn, Phase

LEMMA RefinedStep == IInv /\ IInv' /\ [Next]_vars => [Own!Next]_(Own!vars)
<1>. SUFFICES ASSUME IInv, IInv', [Next]_vars PROVE Own!Next
  OBVIOUS
<1>1. CASE thrown'
  BY <1>1 DEF Own!Next
<1>2. CASE ~thrown'
  <2>1. ~thrown
    BY <1>2, ThrownStays DEF IInv
  <2>2. \A a \in Addr : Own!Lifecycle(a)
    BY <1>2, <2>1, LifecycleStep DEF IInv
  <2>. QED  BY <1>2, <2>1, <2>2 DEF Own!Next
<1>. QED  BY <1>1, <1>2

(* The handle class keeps the promise of Ownership. *)
THEOREM Implements == Spec => ImplementsOwnership
<1>1. Init => Own!Init
  <2>. SUFFICES ASSUME Init PROVE Own!Init
    OBVIOUS
  <2>1. \A a \in Addr : OwnerOf(a) = Nobody
    BY DEF Init, OwnerOf, Holders, Holds
  <2>. QED  BY <2>1 DEF Init, Own!Init
<1>. QED  BY <1>1, RefinedStep, Inductive, PTL DEF Spec, Own!Spec, ImplementsOwnership
==============================================================================
