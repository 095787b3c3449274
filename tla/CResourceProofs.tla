--------------------------- MODULE CResourceProofs ---------------------------
(***************************************************************************)
(* Proofs about CResource, for any number of handles and heap blocks.      *)
(***************************************************************************)
EXTENDS CResource, TLAPS

(* What a handle's place in its emplace says about its pointer: storage    *)
(* with no object holds nothing, and a handle whose InitFunction is        *)
(* running or has failed holds a block that nobody has initialised.        *)
PcConsistent ==
    \A h \in Handle :
        /\ pc[h] = "unborn" => resource[h] = Null
        /\ pc[h] \in {"made", "failed"} =>
              resource[h] # Null /\ block[resource[h]] = "raw"

-----------------------------------------------------------------------------
(* destruct() frees exactly the block that resource_ names. *)
LEMMA DestructedBlock ==
    ASSUME TypeOK, NEW h \in Handle
    PROVE  /\ Destructed(h) \in [Addr -> Phase]
           /\ \A a \in Addr : Destructed(h)[a] =
                  IF a = resource[h] THEN "free" ELSE block[a]
  BY NullAssumption DEF TypeOK, Destructed, Phase

(* Every variable keeps its type, whatever the handles do. *)
LEMMA TypeStep == ASSUME TypeOK, [Next]_vars PROVE TypeOK'
<1>. USE DEF TypeOK, Pc
<1>1. ASSUME NEW h \in Handle, NEW p \in client \cup {Null}, Adopt(h, p) PROVE TypeOK'
  BY <1>1 DEF Adopt
<1>2. ASSUME NEW h \in Handle, NEW p \in client \cup {Null}, Reset(h, p) PROVE TypeOK'
  BY <1>2, DestructedBlock DEF Reset
<1>3. ASSUME NEW g \in Handle, NEW h \in Handle, MoveConstruct(g, h) PROVE TypeOK'
  BY <1>3 DEF MoveConstruct, Exchanged
<1>4. ASSUME NEW g \in Handle, NEW h \in Handle, MoveAssign(g, h) PROVE TypeOK'
  BY <1>4, DestructedBlock DEF MoveAssign, Exchanged
<1>5. ASSUME NEW g \in Handle, NEW h \in Handle, Swap(g, h) PROVE TypeOK'
  BY <1>5 DEF Swap
<1>6. ASSUME NEW h \in Handle, Destroy(h) PROVE TypeOK'
  BY <1>6, DestructedBlock DEF Destroy
<1>7. ASSUME NEW h \in Handle, Clear(h) PROVE TypeOK'
  BY <1>7, DestructedBlock DEF Clear
<1>8. ASSUME NEW h \in Handle, Release(h) PROVE TypeOK'
  BY <1>8 DEF Release
<1>9. ASSUME NEW h \in Handle, EmplaceDestruct(h) PROVE TypeOK'
  BY <1>9, DestructedBlock DEF EmplaceDestruct
<1>10. ASSUME NEW h \in Handle, EmplaceThrow(h) PROVE TypeOK'
  BY <1>10 DEF EmplaceThrow
<1>11. ASSUME NEW h \in Handle, NEW a \in Addr, EmplaceNew(h, a) PROVE TypeOK'
  BY <1>11 DEF EmplaceNew, Phase
<1>12. ASSUME NEW h \in Handle, InitOk(h) PROVE TypeOK'
  BY <1>12 DEF InitOk, Phase
<1>13. ASSUME NEW h \in Handle, InitError(h) \/ InitHeld(h) PROVE TypeOK'
  BY <1>13 DEF InitError, InitHeld
<1>14. ASSUME NEW h \in Handle, DropFailed(h) PROVE TypeOK'
  BY <1>14 DEF DropFailed, Phase
<1>15. ASSUME NEW a \in Addr, ClientNew(a) \/ ClientDelete(a) PROVE TypeOK'
  BY <1>15 DEF ClientNew, ClientDelete, Phase
<1>16. CASE UNCHANGED vars
  BY <1>16 DEF vars
<1>. QED
  BY <1>1, <1>2, <1>3, <1>4, <1>5, <1>6, <1>7, <1>8, <1>9, <1>10, <1>11, <1>12,
     <1>13, <1>14, <1>15, <1>16 DEF Next

-----------------------------------------------------------------------------
(* Ownership, up to the first allocation that fails.  One lemma for each   *)
(* shape of step, and in it one step for each part of the invariant.       *)
Owned == PcConsistent /\ UniqueOwner /\ NoDangling /\ NoLeak

USE DEF Owned, PcConsistent, UniqueOwner, NoDangling, NoLeak, Holds

(* h destructs what it has, if anything, and its pointer is overwritten by *)
(* p, a block of the client's or nullptr, or hidden by the emplace.        *)
LEMMA DisposeStep ==
    ASSUME TypeOK, TypeOK', Owned, ~thrown, ~thrown',
           NEW h \in Handle, NEW p \in client \cup {Null},
           pc[h] \in {"unborn", "idle"},
           \A g \in Handle \ {h} : pc'[g] = pc[g] /\ resource'[g] = resource[g],
           block' = Destructed(h),
           client' = client \ {p},
           \/ pc'[h] = "vacant" /\ p = Null
           \/ pc'[h] = "idle" /\ resource'[h] = p
           \/ pc'[h] = "unborn" /\ resource'[h] = Null /\ p = Null
    PROVE  Owned'
<1>1. \A a \in Addr : block'[a] = IF a = resource[h] THEN "free" ELSE block[a]
  BY DestructedBlock
<1>2. \A g \in Handle \ {h} : Holds(g) => resource[g] \in Addr /\ resource[g] # resource[h]
  BY DEF TypeOK
<1>3. client \subseteq Addr /\ resource[h] \notin client /\ Null \notin Addr
  BY NullAssumption DEF TypeOK
<1>4. PcConsistent'
  BY <1>1, <1>2, <1>3 DEF TypeOK
<1>5. UniqueOwner'
  BY <1>3
<1>6. NoDangling'
  <2>1. ASSUME NEW g \in Handle, Holds(g)' PROVE block'[resource'[g]] # "free"
    <3>1. CASE g = h
      BY <2>1, <3>1, <1>1, <1>3
    <3>2. CASE g # h
      BY <2>1, <3>2, <1>1, <1>2
    <3>. QED  BY <3>1, <3>2
  <2>2. ASSUME NEW a \in client' PROVE block'[a] # "free"
    BY <2>2, <1>1, <1>3
  <2>. QED  BY <2>1, <2>2
<1>7. NoLeak'
  <2>1. SUFFICES ASSUME NEW a \in Addr, block'[a] # "free"
                 PROVE  a \in client' \/ \E g \in Handle : Holds(g)' /\ resource'[g] = a
    OBVIOUS
  <2>2. a # resource[h] /\ block[a] # "free"
    BY <1>1, <2>1
  <2>3. CASE a \in client
    BY <2>3, <1>3
  <2>4. CASE a \notin client
    <3>1. PICK g \in Handle \ {h} : Holds(g) /\ resource[g] = a
      BY <2>2, <2>4
    <3>. QED  BY <3>1
  <2>. QED  BY <2>3, <2>4
<1>. QED  BY <1>4, <1>5, <1>6, <1>7

(* g destructs what it has, if anything, and takes over what h holds. *)
LEMMA MoveStep ==
    ASSUME TypeOK, TypeOK', Owned, ~thrown, ~thrown',
           NEW g \in Handle, NEW h \in Handle, g # h,
           pc[g] \in {"unborn", "idle"}, pc[h] = "idle",
           pc' = [pc EXCEPT ![g] = "idle"],
           resource' = Exchanged(h, g),
           block' = Destructed(g),
           client' = client
    PROVE  Owned'
<1>1. \A a \in Addr : block'[a] = IF a = resource[g] THEN "free" ELSE block[a]
  BY DestructedBlock
<1>2. /\ pc'[g] = "idle" /\ resource'[g] = resource[h]
      /\ pc'[h] = "idle" /\ resource'[h] = Null
      /\ \A k \in Handle \ {g, h} : pc'[k] = pc[k] /\ resource'[k] = resource[k]
  BY DEF TypeOK, Exchanged
<1>3. \A k \in Handle \ {g} : Holds(k) => resource[k] \in Addr /\ resource[k] # resource[g]
  BY DEF TypeOK
<1>4. client \subseteq Addr /\ resource[g] \notin client
  BY NullAssumption DEF TypeOK
<1>5. PcConsistent'
  BY <1>1, <1>2, <1>3
<1>6. UniqueOwner'
  BY <1>2
<1>7. NoDangling'
  <2>1. ASSUME NEW k \in Handle, Holds(k)' PROVE block'[resource'[k]] # "free"
    <3>1. PICK m \in Handle \ {g} : Holds(m) /\ resource'[k] = resource[m]
      BY <2>1, <1>2
    <3>. QED  BY <3>1, <1>1, <1>3
  <2>2. ASSUME NEW a \in client' PROVE block'[a] # "free"
    BY <2>2, <1>1, <1>4
  <2>. QED  BY <2>1, <2>2
<1>8. NoLeak'
  <2>1. SUFFICES ASSUME NEW a \in Addr, block'[a] # "free", a \notin client
                 PROVE  \E k \in Handle : Holds(k)' /\ resource'[k] = a
    OBVIOUS
  <2>2. PICK m \in Handle \ {g} : Holds(m) /\ resource[m] = a
    BY <1>1, <2>1
  <2>3. CASE m = h
    BY <2>2, <2>3, <1>2
  <2>4. CASE m # h
    BY <2>2, <2>4, <1>2
  <2>. QED  BY <2>3, <2>4
<1>. QED  BY <1>5, <1>6, <1>7, <1>8

(* The two handles exchange what they hold. *)
LEMMA SwapStep ==
    ASSUME TypeOK, Owned, ~thrown, ~thrown',
           NEW g \in Handle, NEW h \in Handle, Swap(g, h)
    PROVE  Owned'
<1>1. /\ pc' = pc /\ block' = block /\ client' = client
      /\ pc[g] = "idle" /\ pc[h] = "idle"
      /\ resource'[g] = resource[h] /\ resource'[h] = resource[g]
      /\ \A k \in Handle \ {g, h} : resource'[k] = resource[k]
  BY DEF TypeOK, Swap
<1>2. PcConsistent'
  BY <1>1
<1>3. UniqueOwner'
  BY <1>1
<1>4. NoDangling'
  BY <1>1
<1>5. NoLeak'
  <2>1. SUFFICES ASSUME NEW a \in Addr, block[a] # "free", a \notin client
                 PROVE  \E k \in Handle : Holds(k)' /\ resource'[k] = a
    BY <1>1
  <2>2. PICK m \in Handle : Holds(m) /\ resource[m] = a
    BY <2>1
  <2>. QED  BY <2>2, <1>1
<1>. QED  BY <1>2, <1>3, <1>4, <1>5

(* A block that h holds is initialised, or is about to be, or is not: all  *)
(* that matters is that the block stays with h and stays allocated.        *)
LEMMA InitStep ==
    ASSUME TypeOK, Owned, ~thrown, ~thrown',
           NEW h \in Handle, InitOk(h) \/ InitError(h) \/ InitHeld(h)
    PROVE  Owned'
<1>. DEFINE Fact == /\ resource' = resource /\ client' = client
                    /\ \A g \in Handle \ {h} : pc'[g] = pc[g]
                    /\ Holds(h) /\ block[resource[h]] = "raw"
                    /\ \/ pc'[h] = "idle" /\ block'[resource[h]] = "live"
                       \/ pc'[h] \in {"made", "failed"} /\ block'[resource[h]] = "raw"
                    /\ \A a \in Addr \ {resource[h]} : block'[a] = block[a]
<1>1. Fact
  <2>1. CASE InitOk(h)
    BY <2>1 DEF TypeOK, InitOk
  <2>2. CASE InitError(h)
    BY <2>2 DEF TypeOK, InitError
  <2>3. CASE InitHeld(h)
    BY <2>3 DEF TypeOK, InitHeld
  <2>. QED  BY <2>1, <2>2, <2>3
<1>2. Holds(h)' /\ block'[resource[h]] # "free"
  BY <1>1
<1>3. client \subseteq Addr /\ \A g \in Handle : Holds(g) => resource[g] \in Addr
  BY DEF TypeOK
<1>4. PcConsistent'
  BY <1>1, <1>2, <1>3
<1>5. UniqueOwner'
  BY <1>1
<1>6. NoDangling'
  BY <1>1, <1>2, <1>3
<1>7. NoLeak'
  BY <1>1, <1>2
<1>. QED  BY <1>4, <1>5, <1>6, <1>7

(* A free block gets its first owner. *)
LEMMA AllocateStep ==
    ASSUME TypeOK, Owned, ~thrown, ~thrown', NEW a \in Addr,
           ClientNew(a) \/ \E h \in Handle : EmplaceNew(h, a)
    PROVE  Owned'
<1>1. block[a] = "free" /\ block' = [block EXCEPT ![a] = "raw"]
  BY DEF ClientNew, EmplaceNew
<1>2. a \notin client /\ \A g \in Handle : Holds(g) => resource[g] # a /\ resource[g] \in Addr
  BY <1>1 DEF TypeOK
<1>3. block'[a] = "raw" /\ \A b \in Addr \ {a} : block'[b] = block[b]
  BY <1>1 DEF TypeOK
<1>4. CASE ClientNew(a)
  <2>1. pc' = pc /\ resource' = resource /\ client' = client \cup {a}
    BY <1>4 DEF ClientNew
  <2>. QED  BY <2>1, <1>2, <1>3 DEF TypeOK
<1>5. ASSUME NEW h \in Handle, EmplaceNew(h, a) PROVE Owned'
  <2>1. /\ client' = client
        /\ pc[h] = "vacant" /\ pc'[h] = "made" /\ resource'[h] = a
        /\ \A g \in Handle \ {h} : pc'[g] = pc[g] /\ resource'[g] = resource[g]
    BY <1>5 DEF EmplaceNew, TypeOK
  <2>2. PcConsistent'
    BY <2>1, <1>2, <1>3, NullAssumption
  <2>3. UniqueOwner'
    BY <2>1, <1>2
  <2>4. NoDangling'
    BY <2>1, <1>2, <1>3 DEF TypeOK
  <2>5. NoLeak'
    BY <2>1, <1>2, <1>3, NullAssumption
  <2>. QED  BY <2>2, <2>3, <2>4, <2>5
<1>. QED  BY <1>4, <1>5

(* A block leaves its owner and is freed without UninitFunction: the       *)
(* wrappers after a failed Init, or the client.                            *)
LEMMA DropStep ==
    ASSUME TypeOK, Owned, ~thrown, ~thrown', NEW h \in Handle, DropFailed(h)
    PROVE  Owned'
<1>1. /\ client' = client /\ pc[h] = "failed" /\ pc'[h] = "idle"
      /\ resource[h] \in Addr /\ Holds(h) /\ resource'[h] = Null
      /\ \A g \in Handle \ {h} : pc'[g] = pc[g] /\ resource'[g] = resource[g]
      /\ \A a \in Addr : block'[a] = IF a = resource[h] THEN "free" ELSE block[a]
  BY DEF TypeOK, DropFailed
<1>2. \A g \in Handle \ {h} : Holds(g) => resource[g] \in Addr /\ resource[g] # resource[h]
  BY <1>1 DEF TypeOK
<1>3. client \subseteq Addr /\ resource[h] \notin client
  BY <1>1 DEF TypeOK
<1>4. PcConsistent'
  BY <1>1, <1>2
<1>5. UniqueOwner'
  BY <1>1
<1>6. NoDangling'
  BY <1>1, <1>2, <1>3
<1>7. NoLeak'
  BY <1>1
<1>. QED  BY <1>4, <1>5, <1>6, <1>7

LEMMA ClientDeleteStep ==
    ASSUME TypeOK, Owned, ~thrown, ~thrown', NEW a \in Addr, ClientDelete(a)
    PROVE  Owned'
<1>1. /\ a \in client /\ client' = client \ {a} /\ pc' = pc /\ resource' = resource
      /\ \A b \in Addr : block'[b] = IF b = a THEN "free" ELSE block[b]
  BY DEF TypeOK, ClientDelete
<1>2. client \subseteq Addr /\ \A g \in Handle : Holds(g) => resource[g] \in Addr \ {a}
  BY <1>1 DEF TypeOK
<1>. QED  BY <1>1, <1>2

LEMMA ReleaseStep ==
    ASSUME TypeOK, Owned, ~thrown, ~thrown', NEW h \in Handle, Release(h)
    PROVE  Owned'
<1>1. /\ pc[h] = "idle" /\ pc' = pc /\ block' = block
      /\ client' = client \cup ({resource[h]} \ {Null}) /\ resource'[h] = Null
      /\ \A g \in Handle \ {h} : resource'[g] = resource[g]
  BY DEF TypeOK, Release
<1>2. PcConsistent'
  BY <1>1
<1>3. UniqueOwner'
  BY <1>1
<1>4. NoDangling'
  BY <1>1
<1>5. NoLeak'
  BY <1>1
<1>. QED  BY <1>2, <1>3, <1>4, <1>5

-----------------------------------------------------------------------------
(* Every step of the specification has one of those shapes. *)
LEMMA OwnedStep ==
    ASSUME TypeOK, TypeOK', Owned, ~thrown, ~thrown', [Next]_vars
    PROVE  Owned'
<1>1. ASSUME NEW h \in Handle, NEW p \in client \cup {Null}, Adopt(h, p) \/ Reset(h, p)
      PROVE  Owned'
  <2>1. CASE Adopt(h, p)
    <3>1. resource[h] = Null /\ block' = Destructed(h)
      BY <2>1 DEF Adopt, Destructed
    <3>. QED  BY <2>1, <3>1, DisposeStep DEF Adopt, TypeOK
  <2>2. CASE Reset(h, p)
    BY <2>2, DisposeStep DEF Reset, TypeOK
  <2>. QED  BY <1>1, <2>1, <2>2
<1>2. ASSUME NEW h \in Handle, Destroy(h) \/ Clear(h) \/ EmplaceDestruct(h)
      PROVE  Owned'
  <2>1. Null \notin client
    BY NullAssumption DEF TypeOK
  <2>2. CASE Destroy(h)
    BY <2>1, <2>2, DisposeStep DEF Destroy, TypeOK
  <2>3. CASE Clear(h)
    BY <2>1, <2>3, DisposeStep DEF Clear, TypeOK
  <2>4. CASE EmplaceDestruct(h)
    BY <2>1, <2>4, DisposeStep DEF EmplaceDestruct, TypeOK
  <2>. QED  BY <1>2, <2>2, <2>3, <2>4
<1>3. ASSUME NEW g \in Handle, NEW h \in Handle, MoveConstruct(g, h) \/ MoveAssign(g, h)
      PROVE  Owned'
  <2>1. CASE MoveConstruct(g, h)
    <3>1. g # h /\ block' = Destructed(g)
      BY <2>1 DEF MoveConstruct, Destructed
    <3>. QED  BY <2>1, <3>1, MoveStep DEF MoveConstruct
  <2>2. CASE MoveAssign(g, h)
    <3>1. pc' = [pc EXCEPT ![g] = "idle"]
      BY <2>2 DEF MoveAssign, TypeOK
    <3>. QED  BY <2>2, <3>1, MoveStep DEF MoveAssign
  <2>. QED  BY <1>3, <2>1, <2>2
<1>4. CASE UNCHANGED vars
  BY <1>4 DEF vars
<1>5. ASSUME NEW h \in Handle, EmplaceThrow(h) PROVE FALSE
  BY <1>5 DEF EmplaceThrow
<1>. QED
  BY <1>1, <1>2, <1>3, <1>4, <1>5, SwapStep, InitStep, AllocateStep, DropStep,
     ClientDeleteStep, ReleaseStep DEF Next

(* An allocation that has failed has failed for good. *)
LEMMA ThrownStays == ASSUME TypeOK, thrown, [Next]_vars PROVE thrown'
  BY DEF TypeOK, Next, vars, Adopt, Reset, MoveConstruct, MoveAssign, Swap, Destroy,
         Clear, Release, EmplaceDestruct, EmplaceThrow, EmplaceNew, InitOk, InitError,
         DropFailed, InitHeld, ClientNew, ClientDelete

-----------------------------------------------------------------------------
(* What the steps above rest on: types, and ownership until an allocation  *)
(* fails in the middle of an emplace.                                      *)
IInv == TypeOK /\ (~thrown => Owned)

LEMMA IInvInit == Init => IInv
  BY NullAssumption DEF Init, IInv, TypeOK, Pc, Phase

LEMMA IInvStep == IInv /\ [Next]_vars => IInv'
<1>. SUFFICES ASSUME IInv, [Next]_vars PROVE IInv'
  OBVIOUS
<1>1. TypeOK'
  BY TypeStep DEF IInv
<1>2. ASSUME ~thrown' PROVE Owned'
  <2>1. ~thrown
    BY <1>2, ThrownStays DEF IInv
  <2>. QED  BY <1>1, <1>2, <2>1, OwnedStep DEF IInv
<1>. QED  BY <1>1, <1>2 DEF IInv

THEOREM Inductive == Spec => []IInv
  BY IInvInit, IInvStep, PTL DEF Spec

(* Every variable always has its type. *)
THEOREM TypeCorrect == Spec => []TypeOK
<1>1. IInv => TypeOK
  BY DEF IInv
<1>. QED  BY <1>1, Inductive, PTL

(* No two owners of one block, whatever the handles and the client do.     *)
THEOREM OwnerIsUnique == Spec => []SingleOwner
<1>1. IInv => SingleOwner
  BY DEF IInv, SingleOwner
<1>. QED  BY <1>1, Inductive, PTL

(* No owner of a block that has been freed.                                *)
THEOREM OwnerIsValid == Spec => []ValidOwner
<1>1. IInv => ValidOwner
  BY DEF IInv, ValidOwner
<1>. QED  BY <1>1, Inductive, PTL

(* No allocated block without an owner.                                    *)
THEOREM NothingIsLost == Spec => []NothingLost
<1>1. IInv => NothingLost
  BY DEF IInv, NothingLost
<1>. QED  BY <1>1, Inductive, PTL

-----------------------------------------------------------------------------
(* What a step may do to one block, and who does it. *)
LEMMA BlockStep ==
    ASSUME TypeOK, PcConsistent, [Next]_vars, NEW a \in Addr
    PROVE  \/ block'[a] = block[a]
           \/ block[a] = "free" /\ block'[a] = "raw"
           \/ block'[a] = "free" /\ a \in client
           \/ \E h \in Handle :
                 /\ resource[h] = a
                 /\ \/ block'[a] = "free" /\ pc[h] = "idle"
                    \/ block'[a] = "free" /\ pc[h] = "failed"
                    \/ block'[a] = "live" /\ InitOk(h)
<1>1. ASSUME block' = block PROVE block'[a] = block[a]
  BY <1>1
<1>2. ASSUME NEW h \in Handle, block' = Destructed(h), pc[h] = "idle"
      PROVE  block'[a] = block[a] \/ (block'[a] = "free" /\ resource[h] = a)
  BY <1>2, DestructedBlock
<1>3. ASSUME NEW h \in Handle, DropFailed(h)
      PROVE  block'[a] = block[a] \/ (block'[a] = "free" /\ resource[h] = a)
  BY <1>3 DEF DropFailed, TypeOK
<1>4. ASSUME NEW h \in Handle, InitOk(h)
      PROVE  block'[a] = block[a] \/ (block'[a] = "live" /\ resource[h] = a)
  BY <1>4 DEF InitOk, TypeOK
<1>5. ASSUME NEW b \in Addr, ClientNew(b) \/ ClientDelete(b) \/ \E h \in Handle : EmplaceNew(h, b)
      PROVE  \/ block'[a] = block[a]
             \/ block[a] = "free" /\ block'[a] = "raw"
             \/ block'[a] = "free" /\ a \in client
  BY <1>5 DEF ClientNew, ClientDelete, EmplaceNew, TypeOK
<1>6. ASSUME NEW h \in Handle, DropFailed(h) PROVE pc[h] = "failed"
  BY <1>6 DEF DropFailed
<1>. QED
  BY <1>1, <1>2, <1>3, <1>4, <1>5, <1>6
     DEF Next, vars, Adopt, Reset, MoveConstruct, MoveAssign, Swap, Destroy, Clear,
         Release, EmplaceDestruct, EmplaceThrow, InitError, InitHeld

(* An initialised block is freed by a destruct(), which calls              *)
(* UninitFunction, or by the client it was released to.                    *)
THEOREM UninitComesFirst == Spec => UninitBeforeFree
<1>. DEFINE Uninit(a) == a \in client \/ \E h \in Handle : pc[h] = "idle" /\ resource[h] = a
            Promise == ~thrown => \A a \in Addr :
                           block[a] = "live" /\ block'[a] = "free" => Uninit(a)
<1>1. IInv /\ [Next]_vars => Promise
  <2>. SUFFICES ASSUME IInv, [Next]_vars, ~thrown, NEW a \in Addr,
                       block[a] = "live", block'[a] = "free"
                PROVE  Uninit(a)
    OBVIOUS
  <2>1. \A h \in Handle : pc[h] = "failed" => block[resource[h]] = "raw"
    BY DEF IInv
  <2>. QED  BY <2>1, BlockStep DEF IInv
<1>2. IInv /\ [Next]_vars => [Promise]_vars
  BY <1>1
<1>. HIDE DEF Promise
<1>3. Spec => [][Promise]_vars
  BY <1>2, Inductive, PTL DEF Spec
<1>. QED  BY <1>3 DEF Promise, UninitBeforeFree
==============================================================================
