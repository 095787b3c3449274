--------------------------- MODULE FilterNodeProofs ---------------------------
(***************************************************************************)
(* Proofs about FilterNode, for any number of filters of either type and   *)
(* any cutoffs and orders.                                                 *)
(***************************************************************************)
EXTENDS FilterNode, TLAPS

-----------------------------------------------------------------------------
(* Two wrappers in step with their nodes stay so only if they never share  *)
(* one, and never lose one to an Init that is given its block: so much     *)
(* holds even when nodes change hands behind the members' back.            *)
HeldOnce == \A g, h \in Handle : resource[g] # Null /\ resource[g] = resource[h] => g = h
HeldLive == \A h \in Handle : resource[h] # Null => node[resource[h]] # NoFilter

FilterInv == HeldOnce /\ HeldLive /\ MembersInSync
IInv      == TypeOK /\ FilterInv

-----------------------------------------------------------------------------
(* Types                                                                   *)

(* What Init stores is an order miniaudio accepts. *)
LEMMA ClampedInRange == \A order \in Order : Clamped(order) \in 1..MaxFilterOrder
<1>1. \A order \in Order : order \in Int
  BY FilterAssumption
<1>. QED  BY <1>1 DEF Clamped, MaxFilterOrder

LEMMA DestructedType ==
    ASSUME TypeOK, NEW h \in Handle
    PROVE  Destructed(h) \in [Addr -> Filter]
  BY DEF Destructed, TypeOK, Filter

LEMMA SetMembersType ==
    ASSUME TypeOK, NEW h \in Handle, NEW order \in Order, NEW cutoff \in Cutoff,
           SetMembers(h, order, cutoff)
    PROVE  /\ mOrder' \in [Handle -> 0..MaxFilterOrder]
           /\ mCutoffFrequency' \in [Handle -> Cutoff \cup {0}]
<1>1. Clamped(order) \in 0..MaxFilterOrder
  BY ClampedInRange DEF MaxFilterOrder
<1>. QED  BY <1>1 DEF SetMembers, TypeOK

LEMMA TypeStep == ASSUME TypeOK, HeldLive, [Next]_vars PROVE TypeOK'
<1>1. ASSUME NEW h \in Handle, NEW c \in Cutoff, SetCutoffFrequency(h, c) PROVE TypeOK'
  <2>1. resource[h] \in Addr
    BY <1>1 DEF SetCutoffFrequency, TypeOK
  <2>2. CASE node[resource[h]].order = mOrder[h]
    <3>1. node[resource[h]] \in [order : 1..MaxFilterOrder, cutoff : Cutoff]
      BY <1>1, <2>1 DEF SetCutoffFrequency, HeldLive, TypeOK, Filter
    <3>2. [node[resource[h]] EXCEPT !.cutoff = c] \in Filter
      BY <3>1 DEF Filter
    <3>3. node' = [node EXCEPT ![resource[h]] = [node[resource[h]] EXCEPT !.cutoff = c]]
      BY <1>1, <2>2 DEF SetCutoffFrequency
    <3>. QED  BY <1>1, <2>1, <3>2, <3>3 DEF SetCutoffFrequency, TypeOK
  <2>3. CASE node[resource[h]].order # mOrder[h]
    BY <1>1, <2>3 DEF SetCutoffFrequency, TypeOK
  <2>. QED  BY <2>2, <2>3
<1>2. ASSUME NEW h \in Handle, NEW c \in Cutoff, NEW o \in Order, NEW a \in Addr, InitOk(h, a, o, c)
      PROVE  TypeOK'
  <2>1. [order |-> Clamped(o), cutoff |-> c] \in Filter
    BY ClampedInRange DEF Filter
  <2>. QED  BY <1>2, <2>1, DestructedType, SetMembersType DEF InitOk, TypeOK
<1>3. ASSUME NEW h \in Handle, NEW c \in Cutoff, NEW o \in Order, NEW hasChannels \in BOOLEAN,
             InitFails(h, hasChannels, o, c)
      PROVE  TypeOK'
  BY <1>3, DestructedType, SetMembersType DEF InitFails, TypeOK
<1>4. ASSUME NEW g \in Handle, NEW h \in Handle,
             Move(g, h) \/ StdSwap(g, h) \/ ResourceSwap(g, h) \/ ResourceTake(g, h)
      PROVE  TypeOK'
  BY <1>4, DestructedType DEF Move, StdSwap, ResourceSwap, ResourceTake, TypeOK
<1>5. ASSUME NEW h \in Handle, Clear(h) PROVE TypeOK'
  BY <1>5, DestructedType DEF Clear, TypeOK
<1>6. CASE EngineInit \/ EngineReset \/ UNCHANGED vars
  BY <1>6 DEF EngineInit, EngineReset, vars, TypeOK
<1>. QED  BY <1>1, <1>2, <1>3, <1>4, <1>5, <1>6 DEF Next

-----------------------------------------------------------------------------
(* The invariant, one lemma for each way of handling nodes.                *)

(* destruct() of h touches nobody else's node. *)
LEMMA OthersKeep ==
    ASSUME TypeOK, HeldOnce, NEW h \in Handle, NEW g \in Handle, g # h, resource[g] # Null
    PROVE  resource[g] \in Addr /\ Destructed(h)[resource[g]] = node[resource[g]]
  BY DEF TypeOK, HeldOnce, Destructed

LEMMA InitKeeps ==
    ASSUME TypeOK, FilterInv, NEW h \in Handle, NEW cutoff \in Cutoff, NEW order \in Order,
           \/ \E a \in Addr : InitOk(h, a, order, cutoff)
           \/ \E hasChannels \in BOOLEAN : InitFails(h, hasChannels, order, cutoff)
    PROVE  FilterInv'
<1>. USE DEF FilterInv
<1>1. /\ UNCHANGED bypassed
      /\ mOrder'[h] = Clamped(order) /\ mCutoffFrequency'[h] = cutoff
      /\ \A g \in Handle : g # h => /\ resource'[g] = resource[g]
                                    /\ mOrder'[g] = mOrder[g]
                                    /\ mCutoffFrequency'[g] = mCutoffFrequency[g]
  BY DEF InitOk, InitFails, SetMembers, TypeOK
<1>2. \A g \in Handle : g # h /\ resource[g] # Null =>
          resource'[g] # resource'[h] /\ node'[resource[g]] = node[resource[g]]
  <2>1. SUFFICES ASSUME NEW g \in Handle, g # h, resource[g] # Null
                 PROVE  resource[g] # resource'[h] /\ node'[resource[g]] = node[resource[g]]
    BY <1>1
  <2>2. /\ resource[g] \in Addr /\ Destructed(h)[resource[g]] = node[resource[g]]
        /\ node[resource[g]] # NoFilter
    BY <2>1, OthersKeep DEF HeldLive
  <2>3. ASSUME NEW a \in Addr, InitOk(h, a, order, cutoff)
        PROVE  resource[g] # resource'[h] /\ node'[resource[g]] = node[resource[g]]
    BY <2>2, <2>3 DEF InitOk, TypeOK
  <2>4. ASSUME NEW hasChannels \in BOOLEAN, InitFails(h, hasChannels, order, cutoff)
        PROVE  resource[g] # resource'[h] /\ node'[resource[g]] = node[resource[g]]
    BY <2>1, <2>2, <2>4 DEF InitFails, TypeOK
  <2>. QED  BY <2>3, <2>4
<1>3. resource'[h] # Null =>
          node'[resource'[h]] = [order |-> Clamped(order), cutoff |-> cutoff]
  BY DestructedType DEF InitOk, InitFails, TypeOK
<1>4. [order |-> Clamped(order), cutoff |-> cutoff] # NoFilter
  BY ClampedInRange DEF NoFilter, MaxFilterOrder
<1>5. HeldOnce' /\ HeldLive'
  BY <1>1, <1>2, <1>3, <1>4 DEF HeldOnce, HeldLive
<1>6. MembersInSync'
  BY <1>1, <1>2, <1>3 DEF MembersInSync, InSync
<1>. QED  BY <1>5, <1>6

(* The cutoff of one node changes, with its wrapper's. *)
LEMMA CutoffKeeps ==
    ASSUME TypeOK, FilterInv, NEW h \in Handle, NEW cutoff \in Cutoff, SetCutoffFrequency(h, cutoff)
    PROVE  FilterInv'
<1>. USE DEF FilterInv
<1>1. /\ UNCHANGED <<resource, mOrder, bypassed>>
      /\ resource[h] \in Addr /\ resource[h] # Null
      /\ mCutoffFrequency'[h] = cutoff
      /\ \A g \in Handle : g # h => mCutoffFrequency'[g] = mCutoffFrequency[g]
  BY DEF SetCutoffFrequency, TypeOK
<1>2. /\ \A a \in Addr : a # resource[h] => node'[a] = node[a]
      /\ node'[resource[h]].order = node[resource[h]].order
      /\ node[resource[h]].order = mOrder[h] =>
             node'[resource[h]] = [order |-> mOrder[h], cutoff |-> cutoff]
      /\ node[resource[h]].order # mOrder[h] => node' = node
  BY <1>1 DEF SetCutoffFrequency, TypeOK, Filter, NoFilter
<1>3. \A g \in Handle : resource[g] # Null /\ g # h =>
          resource[g] \in Addr /\ node'[resource[g]] = node[resource[g]]
  BY <1>1, <1>2 DEF HeldOnce, TypeOK
<1>4. HeldLive'
  <2>1. node[resource[h]].order \in 1..MaxFilterOrder
    BY <1>1, FilterAssumption DEF HeldLive, TypeOK, Filter
  <2>2. node'[resource[h]] # NoFilter
    BY <1>2, <2>1 DEF NoFilter, MaxFilterOrder
  <2>. QED  BY <1>1, <1>3, <2>2 DEF HeldLive
<1>5. HeldOnce'
  BY <1>1 DEF HeldOnce
<1>6. MembersInSync'
  <2>1. ~bypassed =>
            node[resource[h]] = [order |-> mOrder[h], cutoff |-> mCutoffFrequency[h]]
    BY <1>1 DEF MembersInSync, InSync
  <2>2. ~bypassed => node[resource[h]].order = mOrder[h]
    BY <2>1
  <2>. QED  BY <1>1, <1>2, <1>3, <2>2 DEF MembersInSync, InSync
<1>. QED  BY <1>4, <1>5, <1>6

(* The node of h goes to g with its members; g's own is gone. *)
LEMMA MoveKeeps ==
    ASSUME TypeOK, FilterInv, NEW g \in Handle, NEW h \in Handle, Move(g, h)
    PROVE  FilterInv'
<1>. USE DEF FilterInv
<1>1. /\ UNCHANGED bypassed /\ g # h
      /\ resource'[g] = resource[h] /\ resource'[h] = Null
      /\ mOrder'[g] = mOrder[h] /\ mCutoffFrequency'[g] = mCutoffFrequency[h]
      /\ \A k \in Handle \ {g, h} : /\ resource'[k] = resource[k]
                                   /\ mOrder'[k] = mOrder[k]
                                   /\ mCutoffFrequency'[k] = mCutoffFrequency[k]
  BY DEF Move, TypeOK
<1>2. \A k \in Handle : k # g /\ resource[k] # Null => node'[resource[k]] = node[resource[k]]
  BY OthersKeep DEF Move
<1>3. HeldOnce'
  BY <1>1 DEF HeldOnce
<1>4. HeldLive'
  BY <1>1, <1>2 DEF HeldLive
<1>5. MembersInSync'
  BY <1>1, <1>2 DEF MembersInSync, InSync
<1>. QED  BY <1>3, <1>4, <1>5

(* Two wrappers exchange nodes and members. *)
LEMMA SwapKeeps ==
    ASSUME TypeOK, FilterInv, NEW g \in Handle, NEW h \in Handle, StdSwap(g, h)
    PROVE  FilterInv'
<1>. USE DEF FilterInv
<1>1. /\ UNCHANGED <<node, bypassed>> /\ g # h
      /\ resource'[g] = resource[h] /\ resource'[h] = resource[g]
      /\ mOrder'[g] = mOrder[h] /\ mOrder'[h] = mOrder[g]
      /\ mCutoffFrequency'[g] = mCutoffFrequency[h]
      /\ mCutoffFrequency'[h] = mCutoffFrequency[g]
      /\ \A k \in Handle \ {g, h} : /\ resource'[k] = resource[k]
                                   /\ mOrder'[k] = mOrder[k]
                                   /\ mCutoffFrequency'[k] = mCutoffFrequency[k]
  BY DEF StdSwap, TypeOK
<1>2. HeldOnce'
  BY <1>1 DEF HeldOnce
<1>3. HeldLive'
  BY <1>1 DEF HeldLive
<1>4. MembersInSync'
  BY <1>1 DEF MembersInSync, InSync
<1>. QED  BY <1>2, <1>3, <1>4

(* Behind the members' back: the nodes alone stay in order. *)
LEMMA BypassKeeps ==
    ASSUME TypeOK, FilterInv, NEW g \in Handle, NEW h \in Handle,
           ResourceSwap(g, h) \/ ResourceTake(g, h)
    PROVE  FilterInv'
<1>. USE DEF FilterInv
<1>1. /\ bypassed' /\ g # h
      /\ resource'[g] = resource[h] /\ resource'[h] \in {resource[g], Null}
      /\ \A k \in Handle \ {g, h} : resource'[k] = resource[k]
  BY DEF ResourceSwap, ResourceTake, TypeOK
<1>2. \A k \in Handle : k # g /\ resource[k] # Null => node'[resource[k]] = node[resource[k]]
  BY OthersKeep DEF ResourceSwap, ResourceTake
<1>3. resource'[h] # Null => node'[resource'[h]] = node[resource[g]]
  BY DEF ResourceSwap, ResourceTake, TypeOK
<1>4. HeldOnce'
  BY <1>1 DEF HeldOnce
<1>5. HeldLive'
  BY <1>1, <1>2, <1>3 DEF HeldLive
<1>. QED  BY <1>1, <1>4, <1>5 DEF MembersInSync

(* destruct() and the members stay; a wrapper without a node is in step. *)
LEMMA ClearKeeps ==
    ASSUME TypeOK, FilterInv, NEW h \in Handle, Clear(h)
    PROVE  FilterInv'
<1>. USE DEF FilterInv
<1>1. /\ UNCHANGED <<mOrder, mCutoffFrequency, bypassed>> /\ resource'[h] = Null
      /\ \A k \in Handle : k # h => resource'[k] = resource[k]
  BY DEF Clear, TypeOK
<1>2. \A k \in Handle : k # h /\ resource[k] # Null => node'[resource[k]] = node[resource[k]]
  BY OthersKeep DEF Clear
<1>. QED  BY <1>1, <1>2 DEF HeldOnce, HeldLive, MembersInSync, InSync

-----------------------------------------------------------------------------
LEMMA IInvInit == Init => IInv
<1>. SUFFICES ASSUME Init PROVE IInv
  OBVIOUS
<1>1. NoFilter \in Filter /\ 0 \in 0..MaxFilterOrder
  BY DEF Filter, MaxFilterOrder
<1>2. TypeOK
  BY <1>1 DEF Init, TypeOK
<1>3. FilterInv
  BY DEF Init, FilterInv, HeldOnce, HeldLive, MembersInSync, InSync
<1>. QED  BY <1>2, <1>3 DEF IInv

LEMMA IInvStep == IInv /\ [Next]_vars => IInv'
<1>. SUFFICES ASSUME TypeOK, FilterInv, [Next]_vars PROVE IInv'
  BY DEF IInv
<1>1. TypeOK'
  BY TypeStep DEF FilterInv
<1>2. ASSUME NEW h \in Handle, NEW c \in Cutoff, SetCutoffFrequency(h, c) PROVE FilterInv'
  BY <1>2, CutoffKeeps
<1>3. ASSUME NEW h \in Handle, NEW c \in Cutoff, NEW o \in Order,
             \/ \E a \in Addr : InitOk(h, a, o, c)
             \/ \E hasChannels \in BOOLEAN : InitFails(h, hasChannels, o, c)
      PROVE  FilterInv'
  BY <1>3, InitKeeps
<1>4. ASSUME NEW g \in Handle, NEW h \in Handle,
             Move(g, h) \/ StdSwap(g, h) \/ ResourceSwap(g, h) \/ ResourceTake(g, h)
      PROVE  FilterInv'
  BY <1>4, MoveKeeps, SwapKeeps, BypassKeeps
<1>5. ASSUME NEW h \in Handle, Clear(h) PROVE FilterInv'
  BY <1>5, ClearKeeps
<1>6. ASSUME EngineInit \/ EngineReset \/ UNCHANGED vars PROVE FilterInv'
  BY <1>6 DEF EngineInit, EngineReset, vars, FilterInv, HeldOnce, HeldLive, MembersInSync, InSync
<1>7. FilterInv'
  BY <1>2, <1>3, <1>4, <1>5, <1>6 DEF Next
<1>. QED  BY <1>1, <1>7 DEF IInv

-----------------------------------------------------------------------------
(* Through every call no node is held twice and none is freed while a      *)
(* wrapper holds it, whichever interface it was handed on by.              *)
THEOREM Inductive == Spec => []IInv
  BY IInvInit, IInvStep, PTL DEF Spec

(* An order Init stores is one miniaudio accepts, whatever was asked for;  *)
(* so is the order of every node SetCutoffFrequency re-initialises.        *)
THEOREM TypeCorrect == Spec => []TypeOK
<1>1. IInv => TypeOK
  BY DEF IInv
<1>. QED  BY <1>1, Inductive, PTL

(* The order and cutoff a wrapper remembers are those of the node it holds *)
(* unless a node has been handed on by the interface of CResource.         *)
THEOREM AlwaysInSync == Spec => []MembersInSync
<1>1. IInv => MembersInSync
  BY DEF IInv, FilterInv
<1>. QED  BY <1>1, Inductive, PTL

(* The assertion after every re-initialisation holds until then: what the  *)
(* filternode_swap run finds needs a node handed on behind the members'    *)
(* back.                                                                   *)
AssertionHolds == ~bypassed => ReinitSucceeds

THEOREM ReinitSucceedsUntilBypassed == Spec => []AssertionHolds
<1>1. Init => AssertionHolds
  BY DEF Init, AssertionHolds, ReinitSucceeds
<1>2. IInv /\ AssertionHolds /\ [Next]_vars => AssertionHolds'
  <2>1. SUFFICES ASSUME IInv, AssertionHolds, [Next]_vars, ~bypassed' PROVE ReinitSucceeds'
    BY DEF AssertionHolds
  <2>2. ASSUME NEW h \in Handle, NEW c \in Cutoff, SetCutoffFrequency(h, c)
        PROVE  ReinitSucceeds'
    <3>1. ~bypassed /\ resource[h] # Null
      BY <2>1, <2>2 DEF SetCutoffFrequency
    <3>2. node[resource[h]] = [order |-> mOrder[h], cutoff |-> mCutoffFrequency[h]]
      BY <2>1, <3>1 DEF IInv, FilterInv, MembersInSync, InSync
    <3>3. node[resource[h]].order = mOrder[h]
      BY <3>2
    <3>. QED  BY <2>2, <3>3 DEF SetCutoffFrequency, ReinitSucceeds
  <2>3. ASSUME UNCHANGED <<reinit, bypassed>> PROVE ReinitSucceeds'
    BY <2>1, <2>3 DEF AssertionHolds, ReinitSucceeds
  <2>4. (\E h \in Handle, c \in Cutoff : SetCutoffFrequency(h, c)) \/ UNCHANGED <<reinit, bypassed>>
    <3>1. CASE UNCHANGED vars
      BY <3>1 DEF vars
    <3>2. ASSUME NEW g \in Handle, NEW h \in Handle,
                 Move(g, h) \/ StdSwap(g, h) \/ ResourceSwap(g, h) \/ ResourceTake(g, h)
          PROVE  UNCHANGED <<reinit, bypassed>>
      BY <2>1, <3>2 DEF Move, StdSwap, ResourceSwap, ResourceTake
    <3>3. ASSUME NEW h \in Handle, NEW o \in Order, NEW c \in Cutoff,
                 \/ \E a \in Addr : InitOk(h, a, o, c)
                 \/ \E hasChannels \in BOOLEAN : InitFails(h, hasChannels, o, c)
          PROVE  UNCHANGED <<reinit, bypassed>>
      BY <3>3 DEF InitOk, InitFails
    <3>4. CASE (\E h \in Handle : Clear(h)) \/ EngineInit \/ EngineReset
      BY <3>4 DEF Clear, EngineInit, EngineReset
    <3>. QED  BY <2>1, <3>1, <3>2, <3>3, <3>4 DEF Next
  <2>. QED  BY <2>2, <2>3, <2>4
<1>. QED  BY <1>1, <1>2, Inductive, PTL DEF Spec
==============================================================================
