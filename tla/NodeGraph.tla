------------------------------ MODULE NodeGraph ------------------------------
(***************************************************************************)
(* Node wrappers, Buses and the audio thread.  A node wrapper owns an      *)
(* ma_node (CResource); OutputBus and InputBus are plain copies of its     *)
(* pointer and an index; AttachTo joins an output bus to an input bus, and *)
(* miniaudio's audio thread walks those edges from the engine's endpoint   *)
(* while the game thread keeps attaching, re-initialising and destroying   *)
(* nodes.                                                                  *)
(*                                                                         *)
(* One game thread drives every wrapper (they are not synchronised); its   *)
(* operations that wait for the audio thread take several steps, recorded  *)
(* in gpc and op.  ma_node_uninit and ma_node_attach_output_bus are        *)
(* external: only what the wrappers rely on is modelled, that an output    *)
(* bus is taken off its edge first and that the call returns only when the *)
(* audio thread has let go of it.                                          *)
(***************************************************************************)
EXTENDS Naturals, Sequences, FiniteSets

CONSTANTS Handle,    \* node wrappers
          Custom,    \* those derived from TBaseNode
          Addr,      \* heap blocks for nodes
          Endpoint,  \* &engine->nodeGraph.endpoint
          Null,      \* nullptr, and the layout of a block that holds no node
          Layout,    \* [ins, outs], the channels of each bus of a node
          EndpointLayout

ASSUME NodeGraphAssumption ==
    /\ Custom \subseteq Handle
    /\ Endpoint \notin Addr
    /\ Null \notin Addr \cup Layout \cup {Endpoint, EndpointLayout}
    /\ Layout \cup {EndpointLayout} \subseteq
           [ins : Seq(Nat \ {0}), outs : Seq(Nat \ {0})]

VARIABLES resource, \* [Handle -> Addr \cup {Null}], resource_ of each wrapper
          layout,   \* [Addr \cup {Endpoint} -> Layout \cup {Null}]
          edges,    \* attached output buses
          engine,   \* the engine: "down", "up" or "stopping"
          gpc,      \* what the game thread is in the middle of
          op,       \* the operation gpc belongs to
          stack     \* the audio thread's read calls, innermost last

vars == <<resource, layout, edges, engine, gpc, op, stack>>

Node  == Addr \cup {Endpoint}
Index == 0..2           \* bus indices the game asks for; 2 is never a bus here
Bus   == [node : Node \cup {Null}, index : Index]
Edge  == [src : Addr, out : Index, dst : Node, in : Index]
NoEdge == [src |-> Null, out |-> 0, dst |-> Null, in |-> 0]
Frame == [edge : Edge \cup {NoEdge}, seen : SUBSET Edge]

Op == [do : {"none"}] \cup [do : {"clear"}, h : Handle]
      \cup [do : {"move"}, h : Handle, from : Handle]
      \cup [do : {"init"}, h : Handle, layout : Layout]
      \cup [do : {"attach"}, edge : Edge] \cup [do : {"stop"}]
NoOp == [do |-> "none"]

(* "uninit": inside ma_node_uninit; "detached": it has returned; "deleted":*)
(* destruct() is over, resource_ still dangles; "attach": the output bus   *)
(* has left its old edge; "stopping": inside ma_engine_uninit.             *)
GamePc == {"ready", "uninit", "detached", "deleted", "attach", "stopping"}

TypeOK ==
    /\ resource \in [Handle -> Addr \cup {Null}]
    /\ layout \in [Node -> Layout \cup {EndpointLayout, Null}]
    /\ edges \subseteq Edge
    /\ engine \in {"down", "up", "stopping"}
    /\ gpc \in GamePc /\ op \in Op
    /\ stack \in Seq(Frame)

Init == /\ resource = [h \in Handle |-> Null]
        /\ layout = [n \in Node |-> Null]
        /\ edges = {}
        /\ engine = "down"
        /\ gpc = "ready" /\ op = NoOp
        /\ stack = <<>>

-----------------------------------------------------------------------------
(* Buses                                                                   *)

Live(n) == n # Null /\ layout[n] # Null

(* ma_node_get_output_channels and ma_node_get_input_channels: 0 for a     *)
(* null node and for an index the node does not have.                      *)
Channels(buses, i) == IF i < Len(buses) THEN buses[i + 1] ELSE 0
OutChannels(b) == IF b.node = Null THEN 0 ELSE Channels(layout[b.node].outs, b.index)
InChannels(b)  == IF b.node = Null THEN 0 ELSE Channels(layout[b.node].ins, b.index)

(* Mutant: a CanAttachTo that compares the two counts and no more. *)
CanAttachAnyCount(o, i) ==
    OutChannels(o) = InChannels(i) /\ o.node # i.node

(* Mutant: a CanAttachTo that only asks whether both buses exist. *)
CanAttachUnequal(o, i) ==
    OutChannels(o) # 0 /\ InChannels(i) # 0 /\ o.node # i.node

CanAttachTo(o, i) ==
    /\ OutChannels(o) # 0
    /\ OutChannels(o) = InChannels(i)
    /\ o.node # i.node

(* The checks of ma_node_attach_output_bus itself. *)
LibraryAccepts(o, i) ==
    /\ o.node # Null /\ i.node # Null /\ o.node # i.node
    /\ o.index < Len(layout[o.node].outs) /\ i.index < Len(layout[i.node].ins)
    /\ layout[o.node].outs[o.index + 1] = layout[i.node].ins[i.index + 1]

(* An edge leaves the output bus b. *)
From(b) == {e \in edges : e.src = b.node /\ e.out = b.index}

InFlight == {stack[k].edge : k \in DOMAIN stack} \ {NoEdge}

(* Taken off their edge, but the audio thread still reads through them. *)
Draining == InFlight \ edges

(* Nodes reachable from n along edges, n included. *)
Downstream(n) ==
    LET succ(S) == S \cup {e.dst : e \in {x \in edges : x.src \in S}}
        reach[k \in Nat] == IF k = 0 THEN {n} ELSE succ(reach[k - 1])
    IN reach[Cardinality(Addr)]

-----------------------------------------------------------------------------
(* The game thread's operations                                            *)

Ready == gpc = "ready"

(* Mutant: a destruct() that deletes without UninitFunction. *)
DestructWithoutUninit(o) ==
    /\ Ready
    /\ op' = o
    /\ gpc' = IF resource[o.h] = Null THEN "deleted" ELSE "detached"
    /\ UNCHANGED <<resource, layout, edges, engine, stack>>

(* Every operation that begins with destruct(): UninitFunction, if there   *)
(* is anything to uninitialise, comes next.                                *)
Destruct(o) ==
    /\ Ready
    /\ op' = o
    /\ gpc' = IF resource[o.h] = Null THEN "deleted" ELSE "uninit"
    /\ UNCHANGED <<resource, layout, edges, engine, stack>>

(* Destructor, clear(), reset(). *)
Clear(h) == Destruct([do |-> "clear", h |-> h])

MoveAssign(g, h) == g # h /\ Destruct([do |-> "move", h |-> g, from |-> h])

Rebuild(h, l) == Destruct([do |-> "init", h |-> h, layout |-> l])

(* TBaseNode::Init asks for no engine: it destructs what it holds and lets *)
(* ma_node_init reject the null graph.                                     *)
InitCustom(h, l) == h \in Custom /\ Rebuild(h, l)

(* SplitterNode::Init, and the like of it in the other wrappers, once past *)
(* their argument checks, give up first when there is no engine.           *)
InitBuiltin(h, l) == h \notin Custom /\ engine = "up" /\ Rebuild(h, l)

Swap(g, h) ==
    /\ Ready
    /\ resource' = [resource EXCEPT ![g] = resource[h], ![h] = resource[g]]
    /\ UNCHANGED <<layout, edges, engine, gpc, op, stack>>

Victim == resource[op.h]

(* Mutant: waiting for the audio thread before taking the bus off its edge.*)
DetachOutputWaitFirst ==
    /\ gpc = "uninit"
    /\ ~\E e \in InFlight : e.src = Victim
    /\ \E e \in edges : e.src = Victim /\ edges' = edges \ {e}
    /\ UNCHANGED <<resource, layout, engine, gpc, op, stack>>

(* ma_node_uninit: the output buses one at a time, each waited for ...     *)
DetachOutput ==
    /\ gpc = "uninit"
    /\ ~\E e \in Draining : e.src = Victim
    /\ \E e \in edges : e.src = Victim /\ edges' = edges \ {e}
    /\ UNCHANGED <<resource, layout, engine, gpc, op, stack>>

(* ... then, when no output bus is being read, every edge that ends at the *)
(* node.                                                                   *)
DetachInputs ==
    /\ gpc = "uninit"
    /\ ~\E e \in edges \cup Draining : e.src = Victim
    /\ edges' = {e \in edges : e.dst # Victim}
    /\ gpc' = "detached"
    /\ UNCHANGED <<resource, layout, engine, op, stack>>

(* `delete resource_'. *)
Delete ==
    /\ gpc = "detached"
    /\ layout' = [layout EXCEPT ![Victim] = Null]
    /\ gpc' = "deleted"
    /\ UNCHANGED <<resource, edges, engine, op, stack>>

Done == gpc' = "ready" /\ op' = NoOp

FinishClear ==
    /\ gpc = "deleted" /\ op.do = "clear"
    /\ resource' = [resource EXCEPT ![op.h] = Null]
    /\ Done
    /\ UNCHANGED <<layout, edges, engine, stack>>

FinishMove ==
    /\ gpc = "deleted" /\ op.do = "move"
    /\ resource' = [resource EXCEPT ![op.h] = resource[op.from], ![op.from] = Null]
    /\ Done
    /\ UNCHANGED <<layout, edges, engine, stack>>

(* new and ma_node_init succeed. *)
Construct(a) ==
    /\ gpc = "deleted" /\ op.do = "init"
    /\ engine = "up" /\ layout[a] = Null
    /\ layout' = [layout EXCEPT ![a] = op.layout]
    /\ resource' = [resource EXCEPT ![op.h] = a]
    /\ Done
    /\ UNCHANGED <<edges, engine, stack>>

(* Mutant: the failure path forgets release(). *)
ConstructFailsNoRelease ==
    /\ gpc = "deleted" /\ op.do = "init"
    /\ Done
    /\ UNCHANGED <<resource, layout, edges, engine, stack>>

(* ma_node_init fails, always so on a null graph: release() and delete. *)
ConstructFails ==
    /\ gpc = "deleted" /\ op.do = "init"
    /\ resource' = [resource EXCEPT ![op.h] = Null]
    /\ Done
    /\ UNCHANGED <<layout, edges, engine, stack>>

-----------------------------------------------------------------------------
(* A Bus is a bare pointer and an index, free to be copied and kept.  The  *)
(* game may use it while some node lives at that address, so every Bus     *)
(* value that names a live node can be one it took from a node that has    *)
(* gone since, from a wrapper, or from GetEndpointBus.                     *)
Usable(b) == Live(b.node)

(* Mutant: the arguments of ma_node_attach_output_bus in the wrong order.  *)
EdgeOfSwapped(o, i) ==
    [src |-> i.node, out |-> i.index, dst |-> o.node, in |-> o.index]

EdgeOf(o, i) == [src |-> o.node, out |-> o.index, dst |-> i.node, in |-> i.index]

(* Mutant: an attachment that forgets the edge the bus had. *)
AttachToKeepsOldEdge(o, i) ==
    /\ Ready /\ CanAttachTo(o, i)
    /\ o.node \notin Downstream(i.node)
    /\ gpc' = "attach" /\ op' = [do |-> "attach", edge |-> EdgeOf(o, i)]
    /\ UNCHANGED <<resource, layout, edges, engine, stack>>

(* OutputBus::AttachTo(InputBus), for a game that closes no cycle (nothing *)
(* here looks for one).  An output bus that is attached already leaves its *)
(* old edge first.                                                         *)
AttachTo(o, i) ==
    /\ Ready /\ CanAttachTo(o, i)
    /\ o.node \notin Downstream(i.node)
    /\ edges' = edges \ From(o)
    /\ gpc' = "attach" /\ op' = [do |-> "attach", edge |-> EdgeOf(o, i)]
    /\ UNCHANGED <<resource, layout, engine, stack>>

FinishAttach ==
    /\ gpc = "attach"
    /\ ~\E e \in Draining : e.src = op.edge.src /\ e.out = op.edge.out
    /\ edges' = edges \cup {op.edge}
    /\ Done
    /\ UNCHANGED <<resource, layout, engine, stack>>

-----------------------------------------------------------------------------
(* Engine::Init on an empty engine. *)
EngineInit ==
    /\ Ready /\ engine = "down"
    /\ engine' = "up"
    /\ layout' = [layout EXCEPT ![Endpoint] = EndpointLayout]
    /\ UNCHANGED <<resource, edges, gpc, op, stack>>

(* The engine goes only after its nodes: a node keeps a pointer to it. *)
EngineStop ==
    /\ Ready /\ engine = "up"
    /\ \A h \in Handle : resource[h] = Null
    /\ engine' = "stopping"
    /\ gpc' = "stopping" /\ op' = [do |-> "stop"]
    /\ UNCHANGED <<resource, layout, edges, stack>>

(* ma_engine_uninit returns when the device's callback has. *)
EngineGone ==
    /\ gpc = "stopping" /\ stack = <<>>
    /\ engine' = "down"
    /\ layout' = [layout EXCEPT ![Endpoint] = Null]
    /\ Done
    /\ UNCHANGED <<resource, edges, stack>>

-----------------------------------------------------------------------------
(* The audio thread: one device callback reads the endpoint, which reads   *)
(* each edge into it once, and so on up the graph.                         *)
Top == stack[Len(stack)]
Reading(f) == IF f.edge = NoEdge THEN Endpoint ELSE f.edge.src

AudioBegin ==
    /\ engine = "up" /\ stack = <<>>
    /\ stack' = <<[edge |-> NoEdge, seen |-> {}]>>
    /\ UNCHANGED <<resource, layout, edges, engine, gpc, op>>

AudioPull(e) ==
    /\ stack # <<>> /\ e.dst = Reading(Top) /\ e \notin Top.seen
    /\ stack' = Append([stack EXCEPT ![Len(stack)].seen = @ \cup {e}],
                       [edge |-> e, seen |-> {}])
    /\ UNCHANGED <<resource, layout, edges, engine, gpc, op>>

AudioReturn ==
    /\ stack # <<>>
    /\ stack' = SubSeq(stack, 1, Len(stack) - 1)
    /\ UNCHANGED <<resource, layout, edges, engine, gpc, op>>

-----------------------------------------------------------------------------
Start == \/ \E h \in Handle :
               \/ Clear(h)
               \/ \E g \in Handle : MoveAssign(g, h) \/ Swap(g, h)
               \/ \E l \in Layout : InitCustom(h, l) \/ InitBuiltin(h, l)
         \/ \E o, i \in {b \in Bus : Usable(b)} : o.node # Endpoint /\ AttachTo(o, i)
         \/ EngineInit \/ EngineStop

Continue == \/ DetachOutput \/ DetachInputs \/ Delete
            \/ FinishClear \/ FinishMove \/ FinishAttach
            \/ (\E a \in Addr : Construct(a)) \/ ConstructFails
            \/ EngineGone

AudioStep == (\E e \in edges : AudioPull(e)) \/ AudioReturn

Next == Start \/ Continue \/ AudioStep \/ AudioBegin

(* The game thread carries on with a call it has made and the device's     *)
(* callback runs to its end; neither has to begin anything.                *)
Fairness == WF_vars(Continue) /\ WF_vars(AudioStep)

Spec == Init /\ [][Next]_vars /\ Fairness

-----------------------------------------------------------------------------
(* PROPERTIES                                                              *)

(* No edge names a dead node or a bus its nodes do not have, and no output *)
(* bus feeds two inputs: re-initialising or destroying either end removes  *)
(* the edge before the block is deleted (destruct() calls Uninit first).   *)
GraphSound ==
    /\ \A e \in edges :
          /\ Live(e.src) /\ Live(e.dst)
          /\ e.out < Len(layout[e.src].outs) /\ e.in < Len(layout[e.dst].ins)
    /\ \A e, f \in edges : e.src = f.src /\ e.out = f.out => e = f

(* Both ends of an edge carry the same number of channels, even when the   *)
(* Bus that made it was taken from a node that has gone since and another  *)
(* one has its address: CanAttachTo reads the counts when it is asked.     *)
ChannelsAgree ==
    \A e \in edges : Live(e.src) /\ Live(e.dst) =>
        OutChannels([node |-> e.src, index |-> e.out])
            = InChannels([node |-> e.dst, index |-> e.in])

(* Whatever the audio thread is reading is alive until it has finished,    *)
(* including the nodes of edges the game thread has detached meanwhile.    *)
AudioSafe == \A k \in DOMAIN stack : Live(Reading(stack[k]))

(* Between operations a wrapper holds an initialised node or nothing, no   *)
(* two of them the same, and every node in the graph has its wrapper: the  *)
(* failure paths of Init leave neither a dangling nor a lost node.         *)
Owned ==
    Ready => /\ \A h \in Handle : resource[h] # Null => Live(resource[h])
             /\ \A a \in Addr : Live(a) =>
                    \E h \in Handle : {g \in Handle : resource[g] = a} = {h}

(* CanAttachTo promises exactly what ma_node_attach_output_bus will do: a  *)
(* caller that is told yes gets an edge, one that is told no would not.    *)
CanAttachIsExact ==
    \A n, m \in {Null} \cup {x \in Node : Live(x)}, i, j \in Index :
        LET o == [node |-> n, index |-> i]
            t == [node |-> m, index |-> j]
        IN CanAttachTo(o, t) <=> LibraryAccepts(o, t)

(* Every call of the game thread returns, those that wait for the audio    *)
(* thread included.                                                        *)
CallsReturn == (gpc # "ready") ~> Ready
==============================================================================
