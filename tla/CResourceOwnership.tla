-------------------------- MODULE CResourceOwnership --------------------------
(***************************************************************************)
(* CResource implements Ownership: the owner of a block is the handle whose*)
(* resource_ names it, or the client that keeps it as a raw pointer.       *)
(***************************************************************************)
EXTENDS CResource

CONSTANTS Client, Nobody

ASSUME OwnerAssumption == {Client, Nobody} \cap Handle = {} /\ Client # Nobody

Holders(a) == {h \in Handle : Holds(h) /\ resource[h] = a}

OwnerOf(a) == IF Holders(a) # {} THEN CHOOSE h \in Holders(a) : TRUE
              ELSE IF a \in client THEN Client ELSE Nobody

Own == INSTANCE Ownership WITH owner  <- [a \in Addr |-> OwnerOf(a)],
                               phase  <- block,
                               intact <- ~thrown

(* Each block follows the life cycle of Ownership through every operation  *)
(* of every handle: this is the contract of CResource.h as one property.   *)
ImplementsOwnership == Own!Spec
==============================================================================
