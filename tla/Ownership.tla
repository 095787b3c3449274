------------------------------ MODULE Ownership ------------------------------
(***************************************************************************)
(* What CResource<T, Init, Uninit> promises about every heap block it may  *)
(* ever be given: a block has at most one owner (a handle or the client),  *)
(* it is allocated before it is initialised, it changes hands only while   *)
(* it is allocated, and when it is freed nobody owns it any more.          *)
(*                                                                         *)
(* The specification is pointwise: one step of the program may move many   *)
(* blocks at once (a swap moves two, a move assignment frees one and moves *)
(* another), and each of them takes a legal step of its own.  `intact' is  *)
(* the promise's only escape clause: after an allocation has failed in the *)
(* middle of an emplace the class promises nothing.                        *)
(***************************************************************************)
CONSTANTS Addr,     \* heap blocks
          Handle,   \* CResource objects
          Client,   \* the owner of a raw pointer held outside any handle
          Nobody    \* the owner of a block that is not allocated

VARIABLES owner,    \* [Addr -> Handle \cup {Client, Nobody}]
          phase,    \* [Addr -> {"free", "raw", "live"}]
          intact    \* FALSE once an allocation has failed inside an emplace

vars == <<owner, phase, intact>>

Owner == Handle \cup {Client}

Init == /\ owner = [a \in Addr |-> Nobody]
        /\ phase = [a \in Addr |-> "free"]
        /\ intact = TRUE

(* `new T()': nobody's block becomes somebody's, not initialised yet. *)
Allocate(a) == /\ phase[a] = "free" /\ phase'[a] = "raw"
               /\ owner[a] = Nobody /\ owner'[a] \in Owner

(* InitFunction succeeded on the block its owner keeps. *)
Initialise(a) == /\ phase[a] = "raw" /\ phase'[a] = "live"
                 /\ owner[a] \in Owner /\ owner'[a] = owner[a]

(* Adoption, release, move and swap: the block changes owner, nothing else. *)
Transfer(a) == /\ phase[a] # "free" /\ phase'[a] = phase[a]
               /\ owner[a] \in Owner /\ owner'[a] \in Owner

(* The owner gives the block up and frees it, in one step. *)
Dispose(a) == /\ phase[a] # "free" /\ phase'[a] = "free"
              /\ owner[a] \in Owner /\ owner'[a] = Nobody

Keep(a) == phase'[a] = phase[a] /\ owner'[a] = owner[a]

Lifecycle(a) ==
    Keep(a) \/ Allocate(a) \/ Initialise(a) \/ Transfer(a) \/ Dispose(a)

Next == \/ intact' = FALSE
        \/ /\ intact' = intact
           /\ \A a \in Addr : Lifecycle(a)

Spec == Init /\ [][Next]_vars
==============================================================================
