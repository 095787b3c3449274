------------------------------ MODULE FilterNode ------------------------------
(***************************************************************************)
(* LPFNode and HPFNode.  Both keep, beside the ma_node they own, the order *)
(* and the cutoff frequency it was made with, and hand them back to        *)
(* miniaudio to re-initialise the filter in place when the cutoff changes. *)
(* miniaudio does not let the order change in a re-initialisation, so the  *)
(* wrapper and the node it holds must never drift apart.                   *)
(*                                                                         *)
(* The node inherits the public interface of CResource; a filter wrapper   *)
(* of one type never exchanges nodes with one of the other.                *)
(***************************************************************************)
EXTENDS Integers

CONSTANTS Lpf, Hpf,     \* the wrappers of either type
          Addr, Null,   \* heap blocks and nullptr
          Cutoff,       \* cutoff frequencies a game asks for
          Order         \* orders it asks for, in and out of range

MaxFilterOrder == 8     \* MA_MAX_FILTER_ORDER

Handle == Lpf \cup Hpf

ASSUME FilterAssumption ==
    Lpf \cap Hpf = {} /\ Null \notin Addr /\ Order \subseteq Nat /\ 0 \notin Cutoff

VARIABLES resource,  \* [Handle -> Addr \cup {Null}]
          mOrder, mCutoffFrequency,   \* the wrappers' members
          node,      \* [Addr -> [order, cutoff]], the filters as miniaudio has them
          engine,    \* GetMiniaudioEngine answers an initialised engine
          reinit,    \* what the last ma_lpf/hpf_node_reinit answered
          bypassed   \* a node has changed wrappers by CResource's own interface

vars == <<resource, mOrder, mCutoffFrequency, node, engine, reinit, bypassed>>

NoFilter == [order |-> 0, cutoff |-> 0]
Filter   == [order : 1..MaxFilterOrder, cutoff : Cutoff] \cup {NoFilter}

TypeOK ==
    /\ resource \in [Handle -> Addr \cup {Null}]
    /\ mOrder \in [Handle -> 0..MaxFilterOrder]
    /\ mCutoffFrequency \in [Handle -> Cutoff \cup {0}]
    /\ node \in [Addr -> Filter]
    /\ engine \in BOOLEAN /\ bypassed \in BOOLEAN
    /\ reinit \in {"none", "success", "invalid_operation"}

Init == /\ resource = [h \in Handle |-> Null]
        /\ mOrder = [h \in Handle |-> 0]
        /\ mCutoffFrequency = [h \in Handle |-> 0]
        /\ node = [a \in Addr |-> NoFilter]
        /\ engine = FALSE /\ bypassed = FALSE /\ reinit = "none"

-----------------------------------------------------------------------------
SameType(g, h) == {g, h} \subseteq Lpf \/ {g, h} \subseteq Hpf

(* The filters after h's destruct(). *)
Destructed(h) == [a \in Addr |-> IF a = resource[h] THEN NoFilter ELSE node[a]]

(* Mutant: an order stored as it was asked for. *)
Unclamped(order) == order

Clamped(order) == IF order < 1 THEN 1
                  ELSE IF order > MaxFilterOrder THEN MaxFilterOrder ELSE order

SetMembers(h, order, cutoff) ==
    /\ mOrder' = [mOrder EXCEPT ![h] = Clamped(order)]
    /\ mCutoffFrequency' = [mCutoffFrequency EXCEPT ![h] = cutoff]

(* LPFNode::Init looks at the channel count before anything else, HPFNode  *)
(* leaves it to ma_hpf_node_init; both want an engine.                     *)
PastChecks(h, hasChannels) == engine /\ (h \in Lpf => hasChannels)

InitOk(h, a, order, cutoff) ==
    /\ PastChecks(h, TRUE)
    /\ Destructed(h)[a] = NoFilter
    /\ SetMembers(h, order, cutoff)
    /\ node' = [Destructed(h) EXCEPT ![a] = [order |-> Clamped(order), cutoff |-> cutoff]]
    /\ resource' = [resource EXCEPT ![h] = a]
    /\ UNCHANGED <<engine, reinit, bypassed>>

(* The old node is gone, the members are those of the node that never was. *)
InitFails(h, hasChannels, order, cutoff) ==
    /\ PastChecks(h, hasChannels)
    /\ SetMembers(h, order, cutoff)
    /\ node' = Destructed(h)
    /\ resource' = [resource EXCEPT ![h] = Null]
    /\ UNCHANGED <<engine, reinit, bypassed>>

(* Mutant: a re-initialisation with the cutoff the node had. *)
SetCutoffFrequencyLate(h, cutoff) ==
    LET n == node[resource[h]]
    IN /\ resource[h] # Null
       /\ mCutoffFrequency' = [mCutoffFrequency EXCEPT ![h] = cutoff]
       /\ reinit' = IF n.order = mOrder[h] THEN "success" ELSE "invalid_operation"
       /\ UNCHANGED <<resource, mOrder, node, engine, bypassed>>

(* ma_lpf_node_reinit refuses another order and leaves the filter alone.   *)
SetCutoffFrequency(h, cutoff) ==
    LET n == node[resource[h]]
        same == n.order = mOrder[h]
    IN /\ resource[h] # Null
       /\ mCutoffFrequency' = [mCutoffFrequency EXCEPT ![h] = cutoff]
       /\ reinit' = IF same THEN "success" ELSE "invalid_operation"
       /\ node' = IF same THEN [node EXCEPT ![resource[h]].cutoff = cutoff] ELSE node
       /\ UNCHANGED <<resource, mOrder, engine, bypassed>>

(* The implicit moves carry the members along with the node; the source    *)
(* keeps its own copies of them and no node.                               *)
Move(g, h) ==
    /\ g # h /\ SameType(g, h)
    /\ node' = Destructed(g)
    /\ resource' = [resource EXCEPT ![g] = resource[h], ![h] = Null]
    /\ mOrder' = [mOrder EXCEPT ![g] = mOrder[h]]
    /\ mCutoffFrequency' = [mCutoffFrequency EXCEPT ![g] = mCutoffFrequency[h]]
    /\ UNCHANGED <<engine, reinit, bypassed>>

(* clear(), reset(), = nullptr: the members stay. *)
Clear(h) ==
    /\ node' = Destructed(h)
    /\ resource' = [resource EXCEPT ![h] = Null]
    /\ UNCHANGED <<mOrder, mCutoffFrequency, engine, reinit, bypassed>>

(* Three moves through a temporary: what std::swap does. *)
StdSwap(g, h) ==
    /\ g # h /\ SameType(g, h)
    /\ resource' = [resource EXCEPT ![g] = resource[h], ![h] = resource[g]]
    /\ mOrder' = [mOrder EXCEPT ![g] = mOrder[h], ![h] = mOrder[g]]
    /\ mCutoffFrequency' = [mCutoffFrequency EXCEPT ![g] = mCutoffFrequency[h],
                                                    ![h] = mCutoffFrequency[g]]
    /\ UNCHANGED <<node, engine, reinit, bypassed>>

(* CResource's swap, member or found by ADL: the nodes only. *)
ResourceSwap(g, h) ==
    /\ g # h /\ SameType(g, h)
    /\ resource' = [resource EXCEPT ![g] = resource[h], ![h] = resource[g]]
    /\ bypassed' = TRUE
    /\ UNCHANGED <<mOrder, mCutoffFrequency, node, engine, reinit>>

(* g.reset(h.release()): the node only. *)
ResourceTake(g, h) ==
    /\ g # h /\ SameType(g, h)
    /\ node' = Destructed(g)
    /\ resource' = [resource EXCEPT ![g] = resource[h], ![h] = Null]
    /\ bypassed' = TRUE
    /\ UNCHANGED <<mOrder, mCutoffFrequency, engine, reinit>>

(* The engine comes, and goes when no node is left. *)
EngineInit == /\ ~engine /\ engine' = TRUE
              /\ UNCHANGED <<resource, mOrder, mCutoffFrequency, node, reinit, bypassed>>

EngineReset == /\ engine /\ engine' = FALSE
               /\ \A h \in Handle : resource[h] = Null
               /\ UNCHANGED <<resource, mOrder, mCutoffFrequency, node, reinit, bypassed>>

Next ==
    \/ \E h \in Handle, c \in Cutoff :
          \/ SetCutoffFrequency(h, c)
          \/ \E o \in Order :
                \/ \E a \in Addr : InitOk(h, a, o, c)
                \/ \E hasChannels \in BOOLEAN : InitFails(h, hasChannels, o, c)
    \/ \E g, h \in Handle : Move(g, h) \/ StdSwap(g, h)
                        \/ ResourceSwap(g, h) \/ ResourceTake(g, h)
    \/ \E h \in Handle : Clear(h)
    \/ EngineInit \/ EngineReset

Spec == Init /\ [][Next]_vars

-----------------------------------------------------------------------------
(* PROPERTIES                                                              *)

(* A wrapper that holds a node knows the node's order and the cutoff it    *)
(* filters with: GetOrder and GetCutoffFrequency tell the truth.           *)
InSync(h) == resource[h] # Null =>
                node[resource[h]] = [order |-> mOrder[h], cutoff |-> mCutoffFrequency[h]]

(* So it is through every Init, failed Init, move, std::swap and cutoff    *)
(* change, as long as nobody hands nodes on by the swap, release and reset *)
(* inherited from CResource, which know nothing of the members.            *)
MembersInSync == ~bypassed => \A h \in Handle : InSync(h)

(* SetCutoffFrequency asserts that the re-initialisation succeeds          *)
(* (`JPL_ASSERT(result == MA_SUCCESS)').                                   *)
ReinitSucceeds == reinit # "invalid_operation"
==============================================================================
