------------------------------ MODULE CResource ------------------------------
(***************************************************************************)
(* The owning handle of a C resource (CResource.h) and the way the wrappers*)
(* of MiniaudioWrappers drive it.  A handle's only state is the pointer    *)
(* resource_; everything that can go wrong is about the heap blocks those  *)
(* pointers name, which the allocator hands out again after `delete'.      *)
(*                                                                         *)
(* Distinct handles share nothing but the heap, so the multi-step emplace  *)
(* of one may interleave with the operations of the others.  An operation  *)
(* on two handles (move, swap) needs both of them between operations.      *)
(***************************************************************************)
EXTENDS Naturals, FiniteSets

CONSTANTS Handle,   \* storage for CResource objects
          Addr,     \* heap blocks large enough for a T
          Null      \* nullptr

ASSUME NullAssumption == Null \notin Addr

VARIABLES pc,       \* [Handle -> Pc], where the handle is in its emplace
          resource, \* [Handle -> Addr \cup {Null}], the member resource_
          block,    \* [Addr -> Phase], state of each heap block
          client,   \* blocks held as raw pointers outside any handle
          thrown    \* an operator new inside an emplace has thrown

vars == <<pc, resource, block, client, thrown>>

(* "unborn": no object in the storage.  "idle": between operations.        *)
(* "vacant": emplace has destructed, resource_ still names the freed block.*)
(* "made": emplace stored the new block, InitFunction is running.          *)
(* "failed": InitFunction returned an error, the wrapper has yet to act.   *)
Pc == {"unborn", "idle", "vacant", "made", "failed"}

(* "raw": value-initialised by `new T()'; "live": InitFunction succeeded. *)
Phase == {"free", "raw", "live"}

TypeOK == /\ pc \in [Handle -> Pc]
          /\ resource \in [Handle -> Addr \cup {Null}]
          /\ block \in [Addr -> Phase]
          /\ client \in SUBSET Addr
          /\ thrown \in BOOLEAN

Init == /\ pc = [h \in Handle |-> "unborn"]
        /\ resource = [h \in Handle |-> Null]
        /\ block = [a \in Addr |-> "free"]
        /\ client = {}
        /\ thrown = FALSE

-----------------------------------------------------------------------------
(* The heap after destruct(): UninitFunction and delete, if resource_ is   *)
(* set.  destruct() leaves resource_ itself alone.                         *)
Destructed(h) ==
    IF resource[h] = Null THEN block ELSE [block EXCEPT ![resource[h]] = "free"]

(* The new values of resource_ when g takes over what h holds. *)
Exchanged(h, g) == [resource EXCEPT ![g] = resource[h], ![h] = Null]

Adopt(h, p) ==
    /\ pc[h] = "unborn"
    /\ pc' = [pc EXCEPT ![h] = "idle"]
    /\ resource' = [resource EXCEPT ![h] = p]
    /\ client' = client \ {p}
    /\ UNCHANGED <<block, thrown>>

(* Mutant: a move that copies the pointer. *)
MoveConstructCopies(g, h) ==
    /\ pc[g] = "unborn" /\ pc[h] = "idle"
    /\ pc' = [pc EXCEPT ![g] = "idle"]
    /\ resource' = [resource EXCEPT ![g] = resource[h]]
    /\ UNCHANGED <<block, client, thrown>>

MoveConstruct(g, h) ==
    /\ pc[g] = "unborn" /\ pc[h] = "idle"
    /\ pc' = [pc EXCEPT ![g] = "idle"]
    /\ resource' = Exchanged(h, g)
    /\ UNCHANGED <<block, client, thrown>>

(* Mutant: a move assignment without its reset(). *)
MoveAssignNoReset(g, h) ==
    /\ g # h /\ pc[g] = "idle" /\ pc[h] = "idle"
    /\ resource' = Exchanged(h, g)
    /\ UNCHANGED <<pc, block, client, thrown>>

(* Only when this != &other; a self assignment changes nothing. *)
MoveAssign(g, h) ==
    /\ g # h /\ pc[g] = "idle" /\ pc[h] = "idle"
    /\ block' = Destructed(g)
    /\ resource' = Exchanged(h, g)
    /\ UNCHANGED <<pc, client, thrown>>

Destroy(h) ==
    /\ pc[h] = "idle"
    /\ block' = Destructed(h)
    /\ pc' = [pc EXCEPT ![h] = "unborn"]
    /\ resource' = [resource EXCEPT ![h] = Null]
    /\ UNCHANGED <<client, thrown>>

(* Mutant: clear() without `resource_ = nullptr'. *)
ClearKeepsPointer(h) ==
    /\ pc[h] = "idle"
    /\ block' = Destructed(h)
    /\ UNCHANGED <<pc, resource, client, thrown>>

(* clear() and operator=(nullptr_t). *)
Clear(h) ==
    /\ pc[h] = "idle"
    /\ block' = Destructed(h)
    /\ resource' = [resource EXCEPT ![h] = Null]
    /\ UNCHANGED <<pc, client, thrown>>

Reset(h, p) ==
    /\ pc[h] = "idle"
    /\ block' = Destructed(h)
    /\ resource' = [resource EXCEPT ![h] = p]
    /\ client' = client \ {p}
    /\ UNCHANGED <<pc, thrown>>

(* Mutant: the caller of release() takes a nullptr for a block. *)
ReleaseNull(h) ==
    /\ pc[h] = "idle"
    /\ client' = client \cup {resource[h]}
    /\ resource' = [resource EXCEPT ![h] = Null]
    /\ UNCHANGED <<pc, block, thrown>>

Release(h) ==
    /\ pc[h] = "idle"
    /\ client' = client \cup ({resource[h]} \ {Null})
    /\ resource' = [resource EXCEPT ![h] = Null]
    /\ UNCHANGED <<pc, block, thrown>>

(* Mutant: half a swap. *)
SwapOneWay(g, h) ==
    /\ pc[g] = "idle" /\ pc[h] = "idle"
    /\ resource' = [resource EXCEPT ![g] = resource[h]]
    /\ UNCHANGED <<pc, block, client, thrown>>

Swap(g, h) ==
    /\ pc[g] = "idle" /\ pc[h] = "idle"
    /\ resource' = [resource EXCEPT ![g] = resource[h], ![h] = resource[g]]
    /\ UNCHANGED <<pc, block, client, thrown>>

-----------------------------------------------------------------------------
(* emplace: destruct, allocate, initialise.                                *)
EmplaceDestruct(h) ==
    /\ pc[h] = "idle"
    /\ block' = Destructed(h)
    /\ pc' = [pc EXCEPT ![h] = "vacant"]
    /\ UNCHANGED <<resource, client, thrown>>

EmplaceNew(h, a) ==
    /\ pc[h] = "vacant" /\ block[a] = "free"
    /\ block' = [block EXCEPT ![a] = "raw"]
    /\ resource' = [resource EXCEPT ![h] = a]
    /\ pc' = [pc EXCEPT ![h] = "made"]
    /\ UNCHANGED <<client, thrown>>

(* operator new throws: the exception leaves emplace with resource_ as     *)
(* destruct() left it.                                                     *)
EmplaceThrow(h) ==
    /\ pc[h] = "vacant"
    /\ pc' = [pc EXCEPT ![h] = "idle"]
    /\ thrown' = TRUE
    /\ UNCHANGED <<resource, block, client>>

(* Mutant: the wrapper tests `result' the wrong way round. *)
InitOkTakenForError(h) ==
    /\ pc[h] = "made"
    /\ block' = [block EXCEPT ![resource[h]] = "live"]
    /\ pc' = [pc EXCEPT ![h] = "failed"]
    /\ UNCHANGED <<resource, client, thrown>>

InitOk(h) ==
    /\ pc[h] = "made"
    /\ block' = [block EXCEPT ![resource[h]] = "live"]
    /\ pc' = [pc EXCEPT ![h] = "idle"]
    /\ UNCHANGED <<resource, client, thrown>>

InitError(h) ==
    /\ pc[h] = "made"
    /\ pc' = [pc EXCEPT ![h] = "failed"]
    /\ UNCHANGED <<resource, block, client, thrown>>

(* The wrapper's answer to a failed Init: release() and delete, no Uninit. *)
DropFailed(h) ==
    /\ pc[h] = "failed"
    /\ block' = [block EXCEPT ![resource[h]] = "free"]
    /\ resource' = [resource EXCEPT ![h] = Null]
    /\ pc' = [pc EXCEPT ![h] = "idle"]
    /\ UNCHANGED <<client, thrown>>

-----------------------------------------------------------------------------
(* Sound::Init allocates outside emplace (`reset(new ma_sound())') and then*)
(* initialises what the handle holds.                                      *)
ClientNew(a) ==
    /\ block[a] = "free"
    /\ block' = [block EXCEPT ![a] = "raw"]
    /\ client' = client \cup {a}
    /\ UNCHANGED <<pc, resource, thrown>>

InitHeld(h) ==
    /\ pc[h] = "idle" /\ resource[h] # Null /\ block[resource[h]] = "raw"
    /\ pc' = [pc EXCEPT ![h] = "made"]
    /\ UNCHANGED <<resource, block, client, thrown>>

(* The client gets rid of a pointer that release() gave it. *)
ClientDelete(a) ==
    /\ a \in client
    /\ block' = [block EXCEPT ![a] = "free"]
    /\ client' = client \ {a}
    /\ UNCHANGED <<pc, resource, thrown>>

Next ==
    \/ \E h \in Handle :
          \/ \E p \in client \cup {Null} : Adopt(h, p) \/ Reset(h, p)
          \/ \E g \in Handle : MoveConstruct(g, h) \/ MoveAssign(g, h) \/ Swap(g, h)
          \/ Destroy(h) \/ Clear(h) \/ Release(h)
          \/ EmplaceDestruct(h) \/ EmplaceThrow(h)
          \/ \E a \in Addr : EmplaceNew(h, a)
          \/ InitOk(h) \/ InitError(h) \/ DropFailed(h) \/ InitHeld(h)
    \/ \E a \in Addr : ClientNew(a) \/ ClientDelete(a)

Spec == Init /\ [][Next]_vars
-----------------------------------------------------------------------------
(* PROPERTIES                                                              *)

(* What a handle owns: resource_, except between destruct() and new in an  *)
(* emplace, when it names a block that is already freed.                   *)
Holds(h) == pc[h] # "vacant" /\ resource[h] # Null

(* No block has two owners: two handles, or a handle and the client that   *)
(* keeps a raw pointer, would both free it (CResource.h, every operation   *)
(* that copies resource_).                                                 *)
UniqueOwner ==
    /\ \A g, h \in Handle :
          g # h /\ Holds(g) /\ Holds(h) => resource[g] # resource[h]
    /\ \A h \in Handle : Holds(h) => resource[h] \notin client

(* No owner names a freed block: destruct() leaves resource_ dangling, and *)
(* each caller of it must overwrite the pointer before its operation ends. *)
NoDangling ==
    /\ \A h \in Handle : Holds(h) => block[resource[h]] # "free"
    /\ \A a \in client : block[a] # "free"

(* Every allocated block still has an owner that will free it. *)
NoLeak ==
    \A a \in Addr : block[a] # "free" =>
        a \in client \/ \E h \in Handle : Holds(h) /\ resource[h] = a

(* The three of them, as long as no allocation has failed in an emplace.   *)
SingleOwner == ~thrown => UniqueOwner
ValidOwner  == ~thrown => NoDangling
NothingLost == ~thrown => NoLeak

(* A block that InitFunction has accepted is freed only by destruct(),     *)
(* which calls UninitFunction first, or by the client it was released to:  *)
(* never by the wrappers' release-and-delete answer to a failed Init       *)
(* (`if (!JPL_ENSURE(!result))').                                          *)
UninitBeforeFree ==
    [][~thrown => \A a \in Addr : block[a] = "live" /\ block'[a] = "free" =>
          a \in client \/ \E h \in Handle : pc[h] = "idle" /\ resource[h] = a]_vars
==============================================================================
