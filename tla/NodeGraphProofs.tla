---------------------------- MODULE NodeGraphProofs ----------------------------
(***************************************************************************)
(* Proofs about NodeGraph, for any number of wrappers, blocks, layouts and *)
(* nested reads of the audio thread.                                       *)
(***************************************************************************)
EXTENDS NodeGraph, SequenceTheorems, TLAPS

-----------------------------------------------------------------------------
(* The parts of the inductive invariant                                    *)

(* A wrapper whose pointer can be used: only the one whose destruct() has  *)
(* just deleted has a pointer that dangles.                                *)
Held(h) == resource[h] # Null /\ ~(gpc = "deleted" /\ h = op.h)

OwnedSoFar ==
    /\ \A h \in Handle : Held(h) => Live(resource[h])
    /\ \A g, h \in Handle : Held(g) /\ Held(h) /\ resource[g] = resource[h] => g = h
    /\ \A a \in Addr : Live(a) => \E h \in Handle : Held(h) /\ resource[h] = a

(* What ma_node_attach_output_bus has checked of an edge.                  *)
Fits(e) ==
    /\ Live(e.src) /\ Live(e.dst)
    /\ e.out < Len(layout[e.src].outs) /\ e.in < Len(layout[e.dst].ins)
    /\ layout[e.src].outs[e.out + 1] = layout[e.dst].ins[e.in + 1]

EdgesFit == /\ \A e \in edges : Fits(e)
            /\ \A e, f \in edges : e.src = f.src /\ e.out = f.out => e = f

(* What the game thread knows in the middle of an operation.               *)
OpConsistent ==
    /\ gpc \in {"uninit", "detached", "deleted"} =>
           op.do \in {"clear", "move", "init"} /\ (op.do = "move" => op.from # op.h)
    /\ gpc \in {"uninit", "detached"} => resource[op.h] # Null
    /\ gpc = "attach" =>
           /\ op.do = "attach" /\ Fits(op.edge)
           /\ \A e \in edges : ~(e.src = op.edge.src /\ e.out = op.edge.out)

(* When ma_node_uninit has returned, nothing leads to the node and nobody  *)
(* reads it: it may be deleted.                                            *)
VictimUnused ==
    gpc = "detached" =>
        /\ \A e \in edges : e.src # Victim /\ e.dst # Victim
        /\ \A k \in DOMAIN stack : Reading(stack[k]) # Victim

EngineLast ==
    /\ engine # "up" => \A h \in Handle : resource[h] = Null
    /\ engine = "down" => stack = <<>>
    /\ layout[Endpoint] = IF engine = "down" THEN Null ELSE EndpointLayout
    /\ gpc = "stopping" <=> engine = "stopping"

GraphInv == OwnedSoFar /\ EdgesFit /\ OpConsistent /\ VictimUnused /\ EngineLast /\ AudioSafe
IInv     == TypeOK /\ GraphInv

-----------------------------------------------------------------------------
(* Types                                                                   *)

(* The wrappers that an operation in progress belongs to. *)
LEMMA OpFields ==
    ASSUME TypeOK
    PROVE  /\ op.do \in {"clear", "move", "init"} => op.h \in Handle
           /\ op.do = "move" => op.from \in Handle
           /\ op.do = "init" => op.layout \in Layout
           /\ op.do = "attach" => op.edge \in Edge
  BY DEF TypeOK, Op

(* A buses' layout is a node's; a live node has one. *)
LEMMA LiveLayout ==
    ASSUME TypeOK, NEW n \in Node \cup {Null}, Live(n)
    PROVE  /\ n \in Node
           /\ layout[n].ins \in Seq(Nat \ {0}) /\ layout[n].outs \in Seq(Nat \ {0})
  BY NodeGraphAssumption DEF TypeOK, Live

(* The game thread's operations that begin with destruct() record only     *)
(* what they are.                                                          *)
LEMMA DestructStarts ==
    ASSUME TypeOK, NEW h \in Handle,
           \/ Clear(h)
           \/ \E g \in Handle : MoveAssign(g, h)
           \/ \E l \in Layout : InitCustom(h, l) \/ InitBuiltin(h, l)
    PROVE  /\ gpc = "ready" /\ op' \in Op /\ op'.do \in {"clear", "move", "init"}
           /\ op'.do = "move" => op'.from # op'.h
           /\ gpc' = IF resource[op'.h] = Null THEN "deleted" ELSE "uninit"
           /\ UNCHANGED <<resource, layout, edges, engine, stack>>
<1>1. CASE Clear(h)
  BY <1>1 DEF Clear, Destruct, Ready, Op
<1>2. CASE \E g \in Handle : MoveAssign(g, h)
  BY <1>2 DEF MoveAssign, Destruct, Ready, Op
<1>3. CASE \E l \in Layout : InitCustom(h, l) \/ InitBuiltin(h, l)
  BY <1>3 DEF InitCustom, InitBuiltin, Rebuild, Destruct, Ready, Op
<1>. QED  BY <1>1, <1>2, <1>3

LEMMA AttachStarts ==
    ASSUME TypeOK, NEW o \in Bus, NEW i \in Bus, Usable(o), Usable(i), o.node # Endpoint,
           AttachTo(o, i)
    PROVE  op' = [do |-> "attach", edge |-> EdgeOf(o, i)] /\ EdgeOf(o, i) \in Edge
  BY DEF AttachTo, EdgeOf, Edge, Bus, Usable, Live, Node

LEMMA StackStep ==
    ASSUME TypeOK, AudioStep \/ AudioBegin
    PROVE  stack' \in Seq(Frame)
<1>1. CASE AudioBegin
  BY <1>1 DEF AudioBegin, Frame
<1>2. ASSUME NEW e \in edges, AudioPull(e) PROVE stack' \in Seq(Frame)
  <2>1. stack \in Seq(Frame) /\ Len(stack) \in 1..Len(stack) /\ e \in Edge
    BY <1>2 DEF TypeOK, AudioPull
  <2>2. Top \in Frame
    BY <2>1 DEF Top
  <2>3. [Top EXCEPT !.seen = @ \cup {e}] \in Frame
    BY <2>1, <2>2 DEF Frame
  <2>4. [stack EXCEPT ![Len(stack)].seen = @ \cup {e}] \in Seq(Frame)
    BY <2>1, <2>3 DEF Top
  <2>5. [edge |-> e, seen |-> {}] \in Frame
    BY <2>1 DEF Frame
  <2>. QED  BY <1>2, <2>4, <2>5 DEF AudioPull
<1>3. CASE AudioReturn
  BY <1>3 DEF AudioReturn, TypeOK
<1>. QED  BY <1>1, <1>2, <1>3 DEF AudioStep

LEMMA TypeStep == ASSUME TypeOK, OpConsistent, [Next]_vars PROVE TypeOK'
<1>. USE DEF GamePc
<1>1. ASSUME NEW h \in Handle,
             \/ Clear(h)
             \/ \E g \in Handle : MoveAssign(g, h)
             \/ \E l \in Layout : InitCustom(h, l) \/ InitBuiltin(h, l)
      PROVE  TypeOK'
  BY <1>1, DestructStarts DEF TypeOK
<1>2. ASSUME NEW g \in Handle, NEW h \in Handle, Swap(g, h) PROVE TypeOK'
  BY <1>2 DEF Swap, TypeOK
<1>3. ASSUME NEW o \in {b \in Bus : Usable(b)}, NEW i \in {b \in Bus : Usable(b)},
             o.node # Endpoint, AttachTo(o, i)
      PROVE  TypeOK'
  BY <1>3, AttachStarts DEF AttachTo, TypeOK, Op
<1>4. CASE EngineInit
  BY <1>4 DEF EngineInit, TypeOK, Node
<1>5. CASE EngineStop
  BY <1>5 DEF EngineStop, TypeOK, Op
<1>6. CASE DetachOutput \/ DetachInputs
  BY <1>6 DEF DetachOutput, DetachInputs, TypeOK
<1>7. CASE Delete
  BY <1>7 DEF Delete, TypeOK
<1>8. CASE FinishClear
  BY <1>8 DEF FinishClear, Done, TypeOK, Op, NoOp
<1>9. CASE FinishMove
  BY <1>9, OpFields DEF FinishMove, Done, TypeOK, Op, NoOp
<1>10. CASE FinishAttach
  BY <1>10, OpFields DEF FinishAttach, Done, TypeOK, Op, NoOp, OpConsistent
<1>11. ASSUME NEW a \in Addr, Construct(a) PROVE TypeOK'
  BY <1>11, OpFields DEF Construct, Done, TypeOK, Op, NoOp
<1>12. CASE ConstructFails
  BY <1>12 DEF ConstructFails, Done, TypeOK, Op, NoOp
<1>13. CASE EngineGone
  BY <1>13 DEF EngineGone, Done, TypeOK, Op, NoOp
<1>14. CASE AudioStep \/ AudioBegin
  BY <1>14, StackStep DEF AudioStep, AudioPull, AudioReturn, AudioBegin, TypeOK
<1>15. CASE UNCHANGED vars
  BY <1>15 DEF vars, TypeOK
<1>. QED
  BY <1>1, <1>2, <1>3, <1>4, <1>5, <1>6, <1>7, <1>8, <1>9, <1>10, <1>11, <1>12,
     <1>13, <1>14, <1>15 DEF Next, Start, Continue

-----------------------------------------------------------------------------
(* The invariant, one step for each part of it that an action can disturb. *)
USE DEF GraphInv

LEMMA ReadingNode ==
    ASSUME TypeOK, NEW k \in DOMAIN stack
    PROVE  stack[k] \in Frame /\ Reading(stack[k]) \in Node
<1>1. stack[k] \in Frame
  BY DEF TypeOK
<1>2. stack[k].edge \in Edge \cup {NoEdge}
  BY <1>1 DEF Frame
<1>. QED  BY <1>1, <1>2 DEF Reading, Edge, Node

(* An operation begins: nothing has changed but what the game thread is    *)
(* about to do, and whoever has nothing to uninitialise has nothing that   *)
(* dangles.                                                                *)
LEMMA DestructKeeps ==
    ASSUME TypeOK, GraphInv, NEW h \in Handle,
           \/ Clear(h)
           \/ \E g \in Handle : MoveAssign(g, h)
           \/ \E l \in Layout : InitCustom(h, l) \/ InitBuiltin(h, l)
    PROVE  GraphInv'
<1>1. /\ gpc = "ready" /\ op' \in Op /\ op'.do \in {"clear", "move", "init"}
      /\ op'.do = "move" => op'.from # op'.h
      /\ gpc' = IF resource[op'.h] = Null THEN "deleted" ELSE "uninit"
      /\ UNCHANGED <<resource, layout, edges, engine, stack>>
  BY DestructStarts
<1>2. \A g \in Handle : Held(g)' <=> Held(g)
  BY <1>1 DEF Held
<1>3. OwnedSoFar'
  BY <1>1, <1>2 DEF OwnedSoFar, Live
<1>4. EdgesFit' /\ VictimUnused' /\ EngineLast' /\ AudioSafe'
  BY <1>1 DEF EdgesFit, Fits, Live, VictimUnused, EngineLast, AudioSafe, Reading
<1>5. OpConsistent'
  BY <1>1 DEF OpConsistent
<1>. QED  BY <1>3, <1>4, <1>5

LEMMA SwapKeeps ==
    ASSUME TypeOK, GraphInv, NEW g \in Handle, NEW h \in Handle, Swap(g, h)
    PROVE  GraphInv'
<1>1. /\ gpc = "ready" /\ UNCHANGED <<layout, edges, engine, gpc, op, stack>>
      /\ resource'[g] = resource[h] /\ resource'[h] = resource[g]
      /\ \A k \in Handle \ {g, h} : resource'[k] = resource[k]
  BY DEF Swap, Ready, TypeOK
<1>2. OwnedSoFar'
  <2>1. \A k \in Handle : Held(k) <=> resource[k] # Null
    BY <1>1 DEF Held
  <2>2. \A k \in Handle : Held(k)' <=> resource'[k] # Null
    BY <1>1 DEF Held
  <2>3. \A k \in Handle : Held(k)' => Live(resource[k]) \/ k \in {g, h}
    BY <1>1, <2>1, <2>2 DEF OwnedSoFar
  <2>4. (\A k \in Handle : Held(k) => Live(resource[k]))'
    BY <1>1, <2>1, <2>2, <2>3 DEF OwnedSoFar, Live
  <2>5. (\A k, m \in Handle : Held(k) /\ Held(m) /\ resource[k] = resource[m] => k = m)'
    BY <1>1, <2>1, <2>2 DEF OwnedSoFar
  <2>6. (\A a \in Addr : Live(a) => \E k \in Handle : Held(k) /\ resource[k] = a)'
    BY <1>1, <2>1, <2>2 DEF OwnedSoFar, Live
  <2>. QED  BY <2>4, <2>5, <2>6 DEF OwnedSoFar
<1>3. EdgesFit' /\ VictimUnused' /\ AudioSafe' /\ OpConsistent'
  BY <1>1 DEF EdgesFit, Fits, Live, VictimUnused, AudioSafe, Reading, OpConsistent
<1>4. EngineLast'
  BY <1>1 DEF EngineLast
<1>. QED  BY <1>2, <1>3, <1>4

(* ma_node_uninit takes edges away; when it returns, the node is alone.    *)
LEMMA DetachKeeps ==
    ASSUME TypeOK, GraphInv, DetachOutput \/ DetachInputs
    PROVE  GraphInv'
<1>1. /\ edges' \subseteq edges /\ gpc = "uninit" /\ gpc' \in {"uninit", "detached"}
      /\ UNCHANGED <<resource, layout, engine, op, stack>>
  BY DEF DetachOutput, DetachInputs
<1>2. OwnedSoFar'
  BY <1>1 DEF OwnedSoFar, Held, Live
<1>3. EdgesFit' /\ EngineLast' /\ AudioSafe' /\ OpConsistent'
  BY <1>1 DEF EdgesFit, Fits, Live, EngineLast, AudioSafe, Reading, OpConsistent
<1>4. VictimUnused'
  <2>1. CASE DetachOutput
    BY <2>1 DEF DetachOutput, VictimUnused
  <2>2. CASE DetachInputs
    <3>1. \A e \in edges : e.src # Victim
      BY <2>2 DEF DetachInputs
    <3>2. ASSUME NEW k \in DOMAIN stack, Reading(stack[k]) = Victim PROVE FALSE
      <4>1. Victim \in Addr
        BY <1>1, OpFields, NodeGraphAssumption DEF Victim, OpConsistent, TypeOK
      <4>2. stack[k].edge # NoEdge /\ stack[k].edge.src = Victim
        BY <3>2, <4>1, NodeGraphAssumption DEF Reading
      <4>3. stack[k].edge \in InFlight
        BY <4>2 DEF InFlight
      <4>. QED  BY <4>2, <4>3, <2>2 DEF DetachInputs, Draining
    <3>3. Victim' = Victim /\ edges' = {e \in edges : e.dst # Victim}
      BY <2>2 DEF DetachInputs, Victim
    <3>. QED  BY <1>1, <3>1, <3>2, <3>3 DEF VictimUnused, Reading
  <2>. QED  BY <2>1, <2>2
<1>. QED  BY <1>2, <1>3, <1>4

(* `delete': the block goes, and with it only the pointer that dangles.    *)
LEMMA DeleteKeeps ==
    ASSUME TypeOK, GraphInv, Delete
    PROVE  GraphInv'
<1>1. /\ gpc = "detached" /\ gpc' = "deleted"
      /\ layout' = [layout EXCEPT ![Victim] = Null]
      /\ UNCHANGED <<resource, edges, engine, op, stack>>
  BY DEF Delete
<1>2. op.h \in Handle /\ Victim \in Addr /\ Held(op.h) /\ Victim = resource[op.h]
  BY <1>1, OpFields DEF Victim, OpConsistent, TypeOK, Held
<1>3. ASSUME NEW n \in Node, n # Victim
      PROVE  layout'[n] = layout[n] /\ (Live(n)' <=> Live(n))
  <2>1. layout'[n] = layout[n]
    BY <1>1, <1>3 DEF TypeOK
  <2>. QED  BY <2>1 DEF Live
<1>4. \A n \in {Victim} : layout'[n] = Null
  BY <1>1, <1>2 DEF TypeOK, Node
<1>5. OwnedSoFar'
  <2>1. \A k \in Handle : Held(k)' <=> Held(k) /\ k # op.h
    BY <1>1 DEF Held
  <2>2. \A k \in Handle : Held(k)' => resource[k] \in Addr /\ resource[k] # Victim
    BY <1>2, <2>1 DEF OwnedSoFar, TypeOK, Held
  <2>3. (\A k \in Handle : Held(k) => Live(resource[k]))'
    BY <1>1, <1>3, <2>1, <2>2 DEF OwnedSoFar, Node
  <2>4. (\A k, m \in Handle : Held(k) /\ Held(m) /\ resource[k] = resource[m] => k = m)'
    BY <1>1, <2>1 DEF OwnedSoFar
  <2>5. ASSUME NEW a \in Addr, Live(a)' PROVE \E k \in Handle : Held(k)' /\ resource'[k] = a
    <3>1. a # Victim
      BY <1>4, <2>5 DEF Live
    <3>2. PICK k \in Handle : Held(k) /\ resource[k] = a
      BY <1>3, <2>5, <3>1 DEF OwnedSoFar, Node
    <3>. QED  BY <1>1, <1>2, <2>1, <3>1, <3>2
  <2>. QED  BY <2>3, <2>4, <2>5 DEF OwnedSoFar
<1>6. EdgesFit'
  <2>1. \A e \in edges : e.src \in Node /\ e.dst \in Node /\ e.src # Victim /\ e.dst # Victim
    BY <1>1 DEF VictimUnused, TypeOK, Edge, Node
  <2>. QED  BY <1>1, <1>3, <2>1, NodeGraphAssumption DEF EdgesFit, Fits, Live
<1>7. AudioSafe'
  <2>1. SUFFICES ASSUME NEW k \in DOMAIN stack PROVE Live(Reading(stack[k]))'
    BY <1>1 DEF AudioSafe
  <2>2. Reading(stack[k]) # Victim /\ Live(Reading(stack[k]))
    BY <1>1 DEF VictimUnused, AudioSafe
  <2>3. Reading(stack[k]) \in Node
    BY ReadingNode
  <2>. QED  BY <1>1, <1>3, <2>2, <2>3 DEF Reading
<1>8. OpConsistent' /\ VictimUnused'
  BY <1>1 DEF OpConsistent, VictimUnused
<1>9. EngineLast'
  BY <1>1, <1>2, NodeGraphAssumption DEF EngineLast, TypeOK
<1>. QED  BY <1>5, <1>6, <1>7, <1>8, <1>9

(* The end of clear(), and of an Init whose ma_node_init fails: the        *)
(* pointer that dangled is gone.                                           *)
LEMMA ReleaseKeeps ==
    ASSUME TypeOK, GraphInv, FinishClear \/ ConstructFails
    PROVE  GraphInv'
<1>1. /\ gpc = "deleted" /\ gpc' = "ready" /\ op.h \in Handle
      /\ resource' = [resource EXCEPT ![op.h] = Null]
      /\ UNCHANGED <<layout, edges, engine, stack>>
  BY OpFields DEF FinishClear, ConstructFails, Done
<1>2. \A k \in Handle : /\ Held(k)' <=> Held(k)
                        /\ Held(k) => resource'[k] = resource[k]
  BY <1>1 DEF Held, TypeOK
<1>3. OwnedSoFar'
  BY <1>1, <1>2 DEF OwnedSoFar, Live
<1>4. EdgesFit' /\ AudioSafe' /\ OpConsistent' /\ VictimUnused'
  BY <1>1 DEF EdgesFit, Fits, Live, AudioSafe, Reading, OpConsistent, VictimUnused
<1>5. EngineLast'
  BY <1>1 DEF EngineLast, TypeOK
<1>. QED  BY <1>3, <1>4, <1>5

(* The end of operator=(&&): the pointer changes hands.                    *)
LEMMA MoveKeeps ==
    ASSUME TypeOK, GraphInv, FinishMove
    PROVE  GraphInv'
<1>1. /\ gpc = "deleted" /\ gpc' = "ready" /\ op.h \in Handle /\ op.from \in Handle
      /\ op.from # op.h
      /\ resource' = [resource EXCEPT ![op.h] = resource[op.from], ![op.from] = Null]
      /\ UNCHANGED <<layout, edges, engine, stack>>
  BY OpFields DEF FinishMove, Done, OpConsistent
<1>2. \A k \in Handle :
          /\ k = op.h => resource'[k] = resource[op.from]
          /\ k = op.from => resource'[k] = Null
          /\ k # op.h /\ k # op.from => resource'[k] = resource[k]
  BY <1>1 DEF TypeOK
<1>3. OwnedSoFar'
  <2>1. \A k \in Handle : Held(k) <=> resource[k] # Null /\ k # op.h
    BY <1>1 DEF Held
  <2>2. \A k \in Handle : Held(k)' <=> resource'[k] # Null
    BY <1>1 DEF Held
  <2>3. \A k \in Handle : Held(k)' =>
            \/ k = op.h /\ Held(op.from) /\ resource'[k] = resource[op.from]
            \/ k \notin {op.h, op.from} /\ Held(k) /\ resource'[k] = resource[k]
    <3>1. SUFFICES ASSUME NEW k \in Handle, resource'[k] # Null
                   PROVE  \/ k = op.h /\ Held(op.from) /\ resource'[k] = resource[op.from]
                          \/ k \notin {op.h, op.from} /\ Held(k) /\ resource'[k] = resource[k]
      BY <2>2
    <3>2. CASE k = op.h
      BY <1>1, <1>2, <2>1, <3>1, <3>2
    <3>3. CASE k # op.h
      BY <1>2, <2>1, <3>1, <3>3
    <3>. QED  BY <3>2, <3>3
  <2>4. ASSUME NEW k \in Handle, Held(k)' PROVE Live(resource[k])'
    <3>1. PICK j \in Handle : Held(j) /\ resource'[k] = resource[j]
      BY <1>1, <2>4, <2>3
    <3>. QED  BY <1>1, <3>1 DEF OwnedSoFar, Live
  <2>5. (\A k, m \in Handle : Held(k) /\ Held(m) /\ resource[k] = resource[m] => k = m)'
    BY <1>1, <2>3 DEF OwnedSoFar
  <2>6. ASSUME NEW a \in Addr, Live(a)' PROVE \E k \in Handle : Held(k)' /\ resource'[k] = a
    <3>1. PICK k \in Handle : Held(k) /\ resource[k] = a
      BY <1>1, <2>6 DEF OwnedSoFar, Live
    <3>2. CASE k = op.from
      <4>1. resource'[op.h] = a /\ a # Null
        BY <1>1, <1>2, <2>1, <3>1, <3>2
      <4>. QED  BY <1>1, <2>2, <4>1
    <3>3. CASE k # op.from
      BY <1>1, <1>2, <2>1, <2>2, <3>1, <3>3
    <3>. QED  BY <3>2, <3>3
  <2>. QED  BY <2>4, <2>5, <2>6 DEF OwnedSoFar
<1>4. EdgesFit' /\ AudioSafe' /\ OpConsistent' /\ VictimUnused'
  BY <1>1 DEF EdgesFit, Fits, Live, AudioSafe, Reading, OpConsistent, VictimUnused
<1>5. EngineLast'
  BY <1>1, <1>2 DEF EngineLast, TypeOK
<1>. QED  BY <1>3, <1>4, <1>5

(* new and ma_node_init: the block was free, so nothing named it.          *)
LEMMA ConstructKeeps ==
    ASSUME TypeOK, GraphInv, NEW a \in Addr, Construct(a)
    PROVE  GraphInv'
<1>1. /\ gpc = "deleted" /\ gpc' = "ready" /\ op.h \in Handle /\ op.layout \in Layout
      /\ engine = "up" /\ layout[a] = Null
      /\ layout' = [layout EXCEPT ![a] = op.layout]
      /\ resource' = [resource EXCEPT ![op.h] = a]
      /\ UNCHANGED <<edges, engine, stack>>
  BY OpFields DEF Construct, Done
<1>2. /\ layout'[a] = op.layout /\ resource'[op.h] = a
      /\ \A k \in Handle \ {op.h} : resource'[k] = resource[k]
      /\ \A n \in Node \ {a} : layout'[n] = layout[n]
  BY <1>1 DEF TypeOK, Node
<1>3. /\ Live(a)' /\ ~Live(a)
      /\ \A n \in Node \ {a} : Live(n)' <=> Live(n)
  BY <1>1, <1>2, NodeGraphAssumption DEF Live
<1>4. OwnedSoFar'
  <2>1. \A k \in Handle : Held(k) <=> resource[k] # Null /\ k # op.h
    BY <1>1 DEF Held
  <2>2. \A k \in Handle : Held(k)' <=> resource'[k] # Null
    BY <1>1 DEF Held
  <2>3. \A k \in Handle : Held(k) => resource[k] \in Addr /\ resource[k] # a
    BY <1>3 DEF OwnedSoFar, Held, TypeOK
  <2>4. (\A k \in Handle : Held(k) => Live(resource[k]))'
    BY <1>2, <1>3, <2>1, <2>2, <2>3 DEF OwnedSoFar, Node
  <2>5. (\A k, m \in Handle : Held(k) /\ Held(m) /\ resource[k] = resource[m] => k = m)'
    BY <1>1, <1>2, <2>1, <2>2, <2>3 DEF OwnedSoFar
  <2>6. ASSUME NEW b \in Addr, Live(b)' PROVE \E k \in Handle : Held(k)' /\ resource'[k] = b
    <3>1. CASE b = a
      BY <1>1, <1>2, <2>2, <3>1, NodeGraphAssumption
    <3>2. CASE b # a
      BY <1>1, <1>2, <1>3, <2>1, <2>2, <2>6, <3>2 DEF OwnedSoFar, Node
    <3>. QED  BY <3>1, <3>2
  <2>. QED  BY <2>4, <2>5, <2>6 DEF OwnedSoFar
<1>5. EdgesFit'
  <2>1. \A e \in edges : e.src \in Node \ {a} /\ e.dst \in Node \ {a}
    BY <1>3 DEF EdgesFit, Fits, TypeOK, Edge, Node
  <2>. QED  BY <1>1, <1>2, <1>3, <2>1 DEF EdgesFit, Fits
<1>6. AudioSafe'
  <2>1. SUFFICES ASSUME NEW k \in DOMAIN stack PROVE Live(Reading(stack[k]))'
    BY <1>1 DEF AudioSafe
  <2>2. Reading(stack[k]) \in Node \ {a}
    BY <1>3, ReadingNode DEF AudioSafe
  <2>. QED  BY <1>1, <1>3, <2>2 DEF AudioSafe, Reading
<1>7. OpConsistent' /\ VictimUnused'
  BY <1>1 DEF OpConsistent, VictimUnused
<1>8. EngineLast'
  BY <1>1, <1>2, NodeGraphAssumption DEF EngineLast, Node
<1>. QED  BY <1>4, <1>5, <1>6, <1>7, <1>8

(* CanAttachTo is all that ma_node_attach_output_bus asks: an index that   *)
(* has channels is one the node has.                                       *)
LEMMA CanAttachFits ==
    ASSUME TypeOK, NEW o \in Bus, NEW i \in Bus, Usable(o), Usable(i), CanAttachTo(o, i)
    PROVE  Fits(EdgeOf(o, i))
<1>1. /\ o.node \in Node \cup {Null} /\ i.node \in Node \cup {Null}
      /\ o.index \in Nat /\ i.index \in Nat
  BY DEF Bus, Index
<1>2. Live(o.node) /\ Live(i.node) /\ o.node # Null /\ i.node # Null
  BY DEF Usable, Live
<1>3. /\ Channels(layout[o.node].outs, o.index) # 0
      /\ Channels(layout[o.node].outs, o.index) = Channels(layout[i.node].ins, i.index)
  BY <1>2 DEF CanAttachTo, OutChannels, InChannels
<1>. QED  BY <1>2, <1>3 DEF Fits, EdgeOf, Channels

LEMMA AttachKeeps ==
    ASSUME TypeOK, GraphInv, NEW o \in Bus, NEW i \in Bus, Usable(o), Usable(i),
           o.node # Endpoint, AttachTo(o, i)
    PROVE  GraphInv'
<1>1. /\ gpc = "ready" /\ gpc' = "attach" /\ op' = [do |-> "attach", edge |-> EdgeOf(o, i)]
      /\ edges' = edges \ From(o)
      /\ UNCHANGED <<resource, layout, engine, stack>>
  BY DEF AttachTo, Ready
<1>2. Fits(EdgeOf(o, i))
  BY CanAttachFits DEF AttachTo
<1>3. OwnedSoFar'
  BY <1>1 DEF OwnedSoFar, Held, Live
<1>4. EdgesFit' /\ AudioSafe' /\ VictimUnused' /\ EngineLast'
  BY <1>1 DEF EdgesFit, Fits, Live, AudioSafe, Reading, VictimUnused, EngineLast
<1>5. OpConsistent'
  <2>1. \A e \in edges' : ~(e.src = EdgeOf(o, i).src /\ e.out = EdgeOf(o, i).out)
    BY <1>1 DEF From, EdgeOf
  <2>2. Fits(op.edge)'
    BY <1>1, <1>2 DEF Fits, Live
  <2>. QED  BY <1>1, <2>1, <2>2 DEF OpConsistent
<1>. QED  BY <1>3, <1>4, <1>5

LEMMA FinishAttachKeeps ==
    ASSUME TypeOK, GraphInv, FinishAttach
    PROVE  GraphInv'
<1>1. /\ gpc = "attach" /\ gpc' = "ready" /\ edges' = edges \cup {op.edge}
      /\ UNCHANGED <<resource, layout, engine, stack>>
  BY DEF FinishAttach, Done
<1>2. OwnedSoFar'
  BY <1>1 DEF OwnedSoFar, Held, Live
<1>3. EdgesFit'
  <2>1. Fits(op.edge) /\ \A e \in edges : ~(e.src = op.edge.src /\ e.out = op.edge.out)
    BY <1>1 DEF OpConsistent
  <2>2. \A e \in edges' : Fits(e)'
    BY <1>1, <2>1 DEF EdgesFit, Fits, Live
  <2>3. \A e, f \in edges' : e.src = f.src /\ e.out = f.out => e = f
    BY <1>1, <2>1 DEF EdgesFit
  <2>. QED  BY <2>2, <2>3 DEF EdgesFit
<1>4. AudioSafe' /\ VictimUnused' /\ EngineLast' /\ OpConsistent'
  BY <1>1 DEF AudioSafe, Live, Reading, VictimUnused, EngineLast, OpConsistent
<1>. QED  BY <1>2, <1>3, <1>4

(* While the engine is not up no wrapper holds a node, so no node is live  *)
(* and there is no edge.                                                   *)
LEMMA EngineIdle ==
    ASSUME TypeOK, GraphInv, engine # "up"
    PROVE  edges = {} /\ \A a \in Addr : ~Live(a)
<1>1. \A a \in Addr : ~Live(a)
  BY DEF EngineLast, OwnedSoFar, Held
<1>2. \A e \in edges : e.src \in Addr /\ Live(e.src)
  BY DEF EdgesFit, Fits, TypeOK, Edge
<1>. QED  BY <1>1, <1>2

LEMMA EngineKeeps ==
    ASSUME TypeOK, GraphInv, EngineInit \/ EngineStop \/ EngineGone
    PROVE  GraphInv'
<1>1. CASE EngineStop
  <2>1. /\ gpc = "ready" /\ gpc' = "stopping" /\ engine = "up" /\ engine' = "stopping"
        /\ \A h \in Handle : resource[h] = Null
        /\ UNCHANGED <<resource, layout, edges, stack>>
    BY <1>1 DEF EngineStop, Ready
  <2>2. OwnedSoFar' /\ EdgesFit' /\ AudioSafe'
    BY <2>1 DEF OwnedSoFar, Held, EdgesFit, Fits, Live, AudioSafe, Reading
  <2>3. OpConsistent' /\ VictimUnused' /\ EngineLast'
    BY <2>1 DEF OpConsistent, VictimUnused, EngineLast
  <2>. QED  BY <2>2, <2>3
<1>2. CASE EngineInit \/ EngineGone
  <2>1. /\ engine # "up" /\ stack = <<>> /\ gpc \in {"ready", "stopping"} /\ gpc' = "ready"
        /\ UNCHANGED <<resource, edges, stack>>
    BY <1>2 DEF EngineInit, EngineGone, Ready, Done, EngineLast
  <2>2. /\ \A a \in Addr : layout'[a] = layout[a]
        /\ \/ engine' = "up" /\ layout'[Endpoint] = EndpointLayout
           \/ engine' = "down" /\ layout'[Endpoint] = Null
    BY <1>2, NodeGraphAssumption DEF EngineInit, EngineGone, TypeOK, Node
  <2>3. edges = {} /\ \A a \in Addr : ~Live(a)
    BY <2>1, EngineIdle
  <2>4. \A h \in Handle : resource[h] = Null
    BY <2>1 DEF EngineLast
  <2>5. OwnedSoFar'
    BY <2>1, <2>2, <2>3, <2>4 DEF OwnedSoFar, Held, Live
  <2>6. EdgesFit' /\ AudioSafe' /\ OpConsistent' /\ VictimUnused'
    BY <2>1, <2>3 DEF EdgesFit, AudioSafe, OpConsistent, VictimUnused
  <2>7. EngineLast'
    BY <2>1, <2>2, <2>4 DEF EngineLast
  <2>. QED  BY <2>5, <2>6, <2>7
<1>. QED  BY <1>1, <1>2

(* The audio thread follows an edge that is in the graph, so both its ends *)
(* are live and neither of them is about to be deleted.                    *)
LEMMA AudioKeeps ==
    ASSUME TypeOK, GraphInv, AudioStep \/ AudioBegin
    PROVE  GraphInv'
<1>1. /\ UNCHANGED <<resource, layout, edges, engine, gpc, op>>
      /\ engine = "down" => stack' = <<>>
  BY DEF AudioStep, AudioPull, AudioReturn, AudioBegin, EngineLast
<1>2. OwnedSoFar' /\ EdgesFit' /\ OpConsistent'
  BY <1>1 DEF OwnedSoFar, Held, Live, EdgesFit, Fits, OpConsistent
<1>3. EngineLast'
  BY <1>1 DEF EngineLast
<1>4. \A k \in DOMAIN stack' :
          \/ stack'[k].edge = NoEdge /\ engine = "up"
          \/ stack'[k].edge \in edges
          \/ k \in DOMAIN stack /\ stack'[k].edge = stack[k].edge
  <2>1. CASE AudioBegin
    BY <2>1 DEF AudioBegin
  <2>2. ASSUME NEW e \in edges, AudioPull(e)
        PROVE  \A k \in DOMAIN stack' :
                   \/ stack'[k].edge = e
                   \/ k \in DOMAIN stack /\ stack'[k].edge = stack[k].edge
    <3>1. stack \in Seq(Frame) /\ stack # <<>> /\ Len(stack) \in DOMAIN stack
      BY <2>2 DEF AudioPull, TypeOK
    <3> DEFINE seen  == [stack EXCEPT ![Len(stack)].seen = @ \cup {e}]
               frame == [edge |-> e, seen |-> {}]
    <3>2. seen \in Seq(Frame) /\ Len(seen) = Len(stack)
      <4>1. stack[Len(stack)] \in Frame /\ e \in Edge
        BY <3>1 DEF TypeOK
      <4>2. [stack[Len(stack)] EXCEPT !.seen = @ \cup {e}] \in Frame
        BY <4>1 DEF Frame
      <4>. QED  BY <3>1, <4>2
    <3>3. \A k \in DOMAIN stack : seen[k].edge = stack[k].edge
      BY <3>1 DEF Frame
    <3>4. stack' = Append(seen, frame)
      BY <2>2 DEF AudioPull
    <3> HIDE DEF seen, frame
    <3>5. \A k \in DOMAIN stack' :
              (k \in DOMAIN stack /\ stack'[k] = seen[k]) \/ stack'[k] = frame
      BY <3>1, <3>2, <3>4
    <3>. QED  BY <3>3, <3>5 DEF frame
  <2>3. CASE AudioReturn
    BY <2>3 DEF AudioReturn, TypeOK
  <2>. QED  BY <2>1, <2>2, <2>3 DEF AudioStep
<1>5. AudioSafe'
  <2>1. SUFFICES ASSUME NEW k \in DOMAIN stack' PROVE Live(Reading(stack[k]))'
    BY DEF AudioSafe
  <2>2. CASE stack'[k].edge = NoEdge /\ engine = "up"
    BY <1>1, <2>2, NodeGraphAssumption DEF Reading, EngineLast, Live
  <2>3. CASE stack'[k].edge \in edges
    BY <1>1, <2>3, NodeGraphAssumption DEF Reading, EdgesFit, Fits, Live, TypeOK, Edge, NoEdge
  <2>4. CASE k \in DOMAIN stack /\ stack'[k].edge = stack[k].edge
    BY <1>1, <2>4 DEF Reading, AudioSafe, Live
  <2>. QED  BY <1>4, <2>2, <2>3, <2>4
<1>6. VictimUnused'
  <2>1. SUFFICES ASSUME gpc = "detached", NEW k \in DOMAIN stack'
                 PROVE  Reading(stack'[k]) # Victim
    BY <1>1 DEF VictimUnused, Victim, Reading
  <2>2. Victim \in Addr
    BY <2>1, OpFields DEF Victim, OpConsistent, TypeOK
  <2>3. CASE stack'[k].edge = NoEdge
    BY <2>2, <2>3, NodeGraphAssumption DEF Reading
  <2>4. CASE stack'[k].edge \in edges
    BY <2>1, <2>2, <2>4, NodeGraphAssumption DEF Reading, VictimUnused
  <2>5. CASE k \in DOMAIN stack /\ stack'[k].edge = stack[k].edge
    BY <2>1, <2>5 DEF Reading, VictimUnused
  <2>. QED  BY <1>4, <2>3, <2>4, <2>5
<1>. QED  BY <1>2, <1>3, <1>5, <1>6

(* The invariant holds at first ...                                        *)
LEMMA IInvInit == Init => IInv
<1>1. SUFFICES ASSUME Init PROVE IInv
  OBVIOUS
<1>2. TypeOK
  BY <1>1 DEF Init, TypeOK, GamePc, Op, NoOp
<1>3. OwnedSoFar /\ EdgesFit /\ OpConsistent /\ VictimUnused /\ AudioSafe
  BY <1>1 DEF Init, OwnedSoFar, Held, Live, Node, EdgesFit, OpConsistent,
              VictimUnused, AudioSafe
<1>4. EngineLast
  BY <1>1 DEF Init, EngineLast, Node
<1>. QED  BY <1>2, <1>3, <1>4 DEF IInv

(* ... and every step of either thread keeps it.                           *)
LEMMA IInvStep == IInv /\ [Next]_vars => IInv'
<1>1. SUFFICES ASSUME TypeOK, GraphInv, [Next]_vars PROVE GraphInv'
  BY TypeStep DEF IInv
<1>2. CASE UNCHANGED vars
  BY <1>1, <1>2 DEF vars, OwnedSoFar, Held, Live, EdgesFit, Fits, OpConsistent,
                    VictimUnused, Victim, Reading, EngineLast, AudioSafe
<1>3. CASE Start
  BY <1>1, <1>3, DestructKeeps, SwapKeeps, AttachKeeps, EngineKeeps DEF Start
<1>4. CASE Continue
  BY <1>1, <1>4, DetachKeeps, DeleteKeeps, ReleaseKeeps, MoveKeeps, FinishAttachKeeps,
     ConstructKeeps, EngineKeeps DEF Continue
<1>5. CASE AudioStep \/ AudioBegin
  BY <1>1, <1>5, AudioKeeps
<1>. QED  BY <1>1, <1>2, <1>3, <1>4, <1>5 DEF Next

-----------------------------------------------------------------------------
(* Theorems                                                                *)

(* The invariant holds throughout, whatever the two threads do.            *)
THEOREM Inductive == Spec => []IInv
  BY IInvInit, IInvStep, PTL DEF Spec

(* Every variable of the graph stays in its set. *)
THEOREM TypeCorrect == Spec => []TypeOK
  BY Inductive, PTL DEF IInv

(* No edge ever names a dead node or a bus its nodes do not have, and no   *)
(* output bus feeds two inputs.                                            *)
THEOREM GraphIsSound == Spec => []GraphSound
<1>1. IInv => GraphSound
  BY DEF IInv, EdgesFit, Fits, GraphSound
<1>. QED  BY <1>1, Inductive, PTL

(* Both ends of an edge agree on their channels for as long as it exists.  *)
THEOREM ChannelsAlwaysAgree == Spec => []ChannelsAgree
<1>1. IInv => ChannelsAgree
  <2>1. SUFFICES ASSUME IInv, NEW e \in edges
                 PROVE  OutChannels([node |-> e.src, index |-> e.out])
                            = InChannels([node |-> e.dst, index |-> e.in])
    BY DEF ChannelsAgree
  <2>2. Fits(e) /\ e.src # Null /\ e.dst # Null
    BY <2>1 DEF IInv, EdgesFit, Fits, Live
  <2>. QED  BY <2>2 DEF Fits, OutChannels, InChannels, Channels
<1>. QED  BY <1>1, Inductive, PTL

(* The audio thread never reads a node that has been deleted.              *)
THEOREM AudioIsSafe == Spec => []AudioSafe
  BY Inductive, PTL DEF IInv

(* Between operations every node has exactly one wrapper, and no wrapper   *)
(* dangles.                                                                *)
THEOREM NodesAreOwned == Spec => []Owned
<1>1. IInv => Owned
  <2>1. SUFFICES ASSUME IInv, Ready PROVE Owned
    BY DEF Owned
  <2>2. \A h \in Handle : Held(h) <=> resource[h] # Null
    BY <2>1 DEF Ready, Held
  <2>3. ASSUME NEW a \in Addr, Live(a)
        PROVE  \E h \in Handle : {g \in Handle : resource[g] = a} = {h}
    <3>1. PICK h \in Handle : Held(h) /\ resource[h] = a
      BY <2>1, <2>3 DEF IInv, OwnedSoFar
    <3>. QED  BY <2>1, <2>2, <2>3, <3>1 DEF IInv, OwnedSoFar, Live
  <2>. QED  BY <2>1, <2>2, <2>3 DEF Owned, IInv, OwnedSoFar
<1>. QED  BY <1>1, Inductive, PTL

(* CanAttachTo answers as ma_node_attach_output_bus would.                 *)
THEOREM CanAttachPromise == Spec => []CanAttachIsExact
<1>1. TypeOK => CanAttachIsExact
  <2>1. SUFFICES ASSUME TypeOK, NEW n \in {Null} \cup {x \in Node : Live(x)},
                        NEW m \in {Null} \cup {x \in Node : Live(x)},
                        NEW i \in Index, NEW j \in Index
                 PROVE  CanAttachTo([node |-> n, index |-> i], [node |-> m, index |-> j])
                        <=> LibraryAccepts([node |-> n, index |-> i], [node |-> m, index |-> j])
    BY DEF CanAttachIsExact
  <2>2. i \in Nat /\ j \in Nat
    BY DEF Index
  <2>3. CASE n = Null \/ m = Null
    BY <2>3 DEF CanAttachTo, LibraryAccepts, OutChannels, InChannels
  <2>4. CASE n # Null /\ m # Null
    <3>1. layout[n].outs \in Seq(Nat \ {0}) /\ layout[m].ins \in Seq(Nat \ {0})
      BY <2>1, <2>4, LiveLayout
    <3>2. i < Len(layout[n].outs) => layout[n].outs[i + 1] # 0
      BY <2>2, <3>1
    <3>. QED  BY <2>2, <2>4, <3>1, <3>2 DEF CanAttachTo, LibraryAccepts, OutChannels,
                                           InChannels, Channels
  <2>. QED  BY <2>3, <2>4
<1>. QED  BY <1>1, TypeCorrect, PTL

==============================================================================
