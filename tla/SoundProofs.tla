----------------------------- MODULE SoundProofs -----------------------------
(***************************************************************************)
(* Proofs about Sound, for any number of sounds, data sources and files    *)
(* and any heap.                                                           *)
(***************************************************************************)
EXTENDS Sound, FiniteSetTheorems, TLAPS

-----------------------------------------------------------------------------
(* The parts of the inductive invariant                                    *)

Wrapper == Handle \cup Source

(* A wrapper whose pointer can be used: only the one whose destruct() has  *)
(* just deleted has a pointer that dangles.                                *)
Held(w) == resource[w] # Null /\ ~(gpc \in {"destructed", "loaded"} /\ w = op.h)

(* Every pointer is to a block of its kind, ... *)
HeldRight ==
    /\ \A h \in Handle : Held(h) => IsSound(resource[h])
    /\ \A d \in Source : Held(d) => block[resource[d]].is = "source"

(* ... no two are the same, ... *)
HeldOnce ==
    \A v, w \in Wrapper : Held(v) /\ Held(w) /\ resource[v] = resource[w] => v = w

(* ... and a block that nobody points to is the ma_sound that reset() has  *)
(* not taken yet.                                                          *)
HeapHeld ==
    \A a \in Addr : block[a] # Free =>
        \/ \E w \in Wrapper : Held(w) /\ resource[w] = a
        \/ gpc # "ready" /\ a = op.at

(* What the game thread knows in the middle of an operation: among others  *)
(* that the data source it was given still has its wrapper.                *)
OpConsistent ==
    gpc # "ready" =>
        /\ op.do \in {"clear", "move", "init"} /\ op.h \in Handle
        /\ gpc = "destruct" => resource[op.h] # Null
        /\ gpc = "loaded" => op.do = "init" /\ op.reads \in File
        /\ op.do = "move" => op.from \in Handle /\ op.from # op.h
        /\ op.at # Null => op.do = "init" /\ block[op.at] = Fresh("sound")
        /\ op.do = "init" => /\ op.reads \in Addr \cup File
                             /\ op.attach => op.channels = EndpointChannels
        /\ op.reads \in Addr => \E d \in Source : resource[d] = op.reads

SoundInv ==
    /\ HeldRight /\ HeldOnce /\ HeapHeld /\ OpConsistent
    /\ AudioReadsLive /\ SourcesOutliveSounds /\ ChannelsNeverRefused

IInv == TypeOK /\ SoundInv /\ LoadsFollowSounds

-----------------------------------------------------------------------------
(* Steps that leave every wrapper and every block as it is, but for what   *)
(* an initialised sound is doing.                                          *)
Quiet == \/ \E h \in Handle : \/ AskSource(h) \/ AttachToEndpoint(h)
                              \/ \E p \in BOOLEAN : SetPlaying(h, p)
         \/ EngineInit \/ EngineReset \/ (\E a \in Addr : AudioBegin(a)) \/ SourceRead
         \/ \E p \in BOOLEAN : AudioEnd(p)

SameButPlaying(a) ==
    block'[a] = block[a] \/ (IsSound(a) /\ IsSound(a)' /\ block'[a].reads = block[a].reads)

LEMMA ServeTypes ==
    ASSUME TypeOK, NEW base \in Addr, Serve(base)
    PROVE  served' \in [object : Addr \cup Source \cup {Null}, meant : Source \cup {Null}]
  BY DEF Serve, Callee

LEMMA BlockFields ==
    ASSUME TypeOK, NEW a \in Addr
    PROVE  block[a] \in Block /\ block[a].playing \in BOOLEAN
  BY DEF TypeOK, Block

LEMMA QuietSteps ==
    ASSUME TypeOK, SoundInv, Quiet
    PROVE  /\ UNCHANGED <<resource, gpc, op, outcome, loads>>
           /\ block' \in [Addr -> Block] /\ engine' \in BOOLEAN
           /\ reading' \in Addr \cup {Null} /\ (reading' # Null => IsSound(reading)')
           /\ served' \in [object : Addr \cup Source \cup {Null}, meant : Source \cup {Null}]
           /\ \A a \in Addr : SameButPlaying(a)
<1>. USE DEF SoundInv
<1>1. CASE (\E h \in Handle : AskSource(h)) \/ SourceRead
  <2>1. /\ UNCHANGED <<resource, block, engine, gpc, op, outcome, reading, loads>>
        /\ served' \in [object : Addr \cup Source \cup {Null}, meant : Source \cup {Null}]
    BY <1>1, ServeTypes DEF AskSource, SourceRead
  <2>. QED  BY <2>1 DEF TypeOK, AudioReadsLive, IsSound, SameButPlaying
<1>2. CASE EngineInit \/ EngineReset \/ \E a \in Addr : AudioBegin(a)
  BY <1>2 DEF EngineInit, EngineReset, AudioBegin, TypeOK, AudioReadsLive, IsSound,
              SameButPlaying
<1>3. ASSUME NEW h \in Handle, AttachToEndpoint(h) \/ \E p \in BOOLEAN : SetPlaying(h, p)
      PROVE  /\ UNCHANGED <<resource, engine, gpc, op, outcome, reading, served, loads>>
             /\ block' \in [Addr -> Block] /\ \A a \in Addr : SameButPlaying(a)
  <2>1. resource[h] \in Addr /\ IsSound(resource[h])
    BY <1>3 DEF AttachToEndpoint, SetPlaying, OnSound, Ready, HeldRight, Held, TypeOK
  <2>2. PICK p \in BOOLEAN :
            \/ block' = [block EXCEPT ![resource[h]].attached = TRUE]
            \/ block' = [block EXCEPT ![resource[h]].playing = p]
    BY <1>3 DEF AttachToEndpoint, SetPlaying
  <2>3. block' \in [Addr -> Block]
    <3>1. block[resource[h]] \in Block /\ block \in [Addr -> Block]
      BY <2>1 DEF TypeOK
    <3>2. CASE block' = [block EXCEPT ![resource[h]].attached = TRUE]
      BY <2>1, <3>1, <3>2 DEF Block
    <3>3. CASE block' = [block EXCEPT ![resource[h]].playing = p]
      BY <2>1, <3>1, <3>3 DEF Block
    <3>. QED  BY <2>2, <3>2, <3>3
  <2>4. \A a \in Addr : SameButPlaying(a)
    BY <2>1, <2>2 DEF TypeOK, Block, SameButPlaying, IsSound
  <2>. QED  BY <1>3, <2>3, <2>4 DEF AttachToEndpoint, SetPlaying
<1>4. ASSUME NEW p \in BOOLEAN, AudioEnd(p)
      PROVE  /\ UNCHANGED <<resource, engine, gpc, op, outcome, served, loads>>
             /\ reading' = Null /\ block' \in [Addr -> Block]
             /\ \A a \in Addr : SameButPlaying(a)
  <2>1. reading \in Addr /\ IsSound(reading) /\ block[reading].playing \in BOOLEAN
    BY <1>4, BlockFields DEF AudioEnd, AudioReadsLive, TypeOK
  <2>2. PICK q \in BOOLEAN : block' = [block EXCEPT ![reading].playing = q]
    BY <1>4, <2>1 DEF AudioEnd
  <2>3. block' \in [Addr -> Block]
    BY <2>1, <2>2 DEF TypeOK, Block
  <2>4. \A a \in Addr : SameButPlaying(a)
    BY <2>1, <2>2 DEF TypeOK, Block, SameButPlaying, IsSound
  <2>. QED  BY <1>4, <2>3, <2>4 DEF AudioEnd
<1>. QED
  BY <1>1, <1>2, <1>3, <1>4 DEF Quiet, TypeOK, AudioReadsLive, IsSound, SameButPlaying

LEMMA QuietKeeps ==
    ASSUME TypeOK, SoundInv, Quiet
    PROVE  SoundInv'
<1>. USE DEF SoundInv
<1>1. /\ UNCHANGED <<resource, gpc, op, outcome>>
      /\ reading' # Null => IsSound(reading)'
      /\ \A a \in Addr : SameButPlaying(a)
  BY QuietSteps
<1>2. \A a \in Addr : /\ IsSound(a)' <=> IsSound(a)
                      /\ IsSource(a)' <=> IsSource(a)
                      /\ block'[a].is = block[a].is /\ block'[a].reads = block[a].reads
                      /\ block'[a] # Free => block[a] # Free
                      /\ block[a] = Fresh("sound") => block'[a] = block[a]
  BY <1>1 DEF SameButPlaying, IsSound, IsSource, Free, Fresh
<1>3. \A w \in Wrapper : /\ Held(w)' <=> Held(w)
                         /\ Held(w) => resource[w] \in Addr
  BY <1>1 DEF Held, TypeOK, Wrapper
<1>4. HeldRight'
  BY <1>1, <1>2, <1>3 DEF HeldRight, Wrapper, IsSound
<1>5. HeldOnce' /\ HeapHeld'
  BY <1>1, <1>2, <1>3 DEF HeldOnce, HeapHeld
<1>6. OpConsistent'
  BY <1>1, <1>2 DEF OpConsistent, TypeOK, Op
<1>7. SourcesOutliveSounds'
  BY <1>1, <1>2 DEF SourcesOutliveSounds, Sounds
<1>8. AudioReadsLive' /\ ChannelsNeverRefused'
  BY <1>1 DEF AudioReadsLive, ChannelsNeverRefused
<1>. QED  BY <1>4, <1>5, <1>6, <1>7, <1>8

-----------------------------------------------------------------------------
(* The operations that begin with destruct().                              *)
Begins(h) ==
    \/ Clear(h)
    \/ \E g \in Handle : MoveAssign(g, h)
    \/ \E attach \in BOOLEAN :
          \/ \E f \in File : \/ InitFile(h, f, attach)
                             \/ \E a \in Addr : InitSourceChannels(h, a, f, attach)
          \/ \E a \in Addr, d \in Source : InitFromDataSource(h, a, d, attach)

LEMMA BeginSteps ==
    ASSUME TypeOK, NEW h \in Handle, Begins(h)
    PROVE  /\ gpc = "ready" /\ op' \in Op
           /\ op'.do \in {"clear", "move", "init"} /\ op'.h \in Handle
           /\ op'.do = "move" => op'.from \in Handle /\ op'.from # op'.h
           /\ op'.do = "init" => /\ op'.reads \in Addr \cup File
                                 /\ op'.attach => op'.channels = EndpointChannels
           /\ op'.reads \in Addr => \E d \in Source : resource[d] = op'.reads
           /\ gpc' = IF resource[op'.h] = Null THEN "destructed" ELSE "destruct"
           /\ \/ op'.at = Null /\ block' = block
              \/ /\ op'.at \in Addr /\ op'.do = "init" /\ block[op'.at] = Free
                 /\ block' = [block EXCEPT ![op'.at] = Fresh("sound")]
           /\ UNCHANGED <<resource, engine, outcome, reading, served, loads>>
<1>. USE SoundAssumption
<1>1. CASE Clear(h)
  BY <1>1 DEF Clear, Destruct, Ready, NoOp, Op
<1>2. ASSUME NEW g \in Handle, MoveAssign(g, h)
      PROVE  /\ op' = [NoOp EXCEPT !.do = "move", !.h = g, !.from = h] /\ g # h
             /\ Destruct(op', block) /\ op' \in Op
  BY <1>2 DEF MoveAssign, Destruct, NoOp, Op
<1>3. ASSUME NEW attach \in BOOLEAN, NEW f \in File, InitFile(h, f, attach)
      PROVE  /\ op' = Request(h, Null, f, EndpointChannels, attach)
             /\ Destruct(op', block) /\ op' \in Op
  BY <1>3 DEF InitFile, Destruct, Request, NoOp, Op, Channels
<1>4. ASSUME NEW attach \in BOOLEAN, NEW f \in File, NEW a \in Addr,
             InitSourceChannels(h, a, f, attach)
      PROVE  /\ op' = Request(h, a, f, FileChannels[f], FALSE) /\ block[a] = Free
             /\ Destruct(op', [block EXCEPT ![a] = Fresh("sound")]) /\ op' \in Op
  BY <1>4 DEF InitSourceChannels, ResetToNew, Destruct, Request, NoOp, Op, Channels
<1>5. ASSUME NEW attach \in BOOLEAN, NEW a \in Addr, NEW d \in Source,
             InitFromDataSource(h, a, d, attach)
      PROVE  /\ op' = Request(h, a, resource[d], EndpointChannels, attach)
             /\ resource[d] \in Addr /\ block[a] = Free
             /\ Destruct(op', [block EXCEPT ![a] = Fresh("sound")]) /\ op' \in Op
  BY <1>5 DEF InitFromDataSource, ResetToNew, Destruct, Request, NoOp, Op, Channels, TypeOK
<1>6. CASE \E g \in Handle : MoveAssign(g, h)
  <2>1. PICK g \in Handle : MoveAssign(g, h)
    BY <1>6
  <2>2. op'.do = "move" /\ op'.h = g /\ op'.from = h /\ op'.at = Null /\ op'.reads = Null
    BY <1>2, <2>1 DEF NoOp
  <2>. QED  BY <1>2, <2>1, <2>2 DEF Destruct, Ready
<1>7. CASE \E attach \in BOOLEAN, f \in File : InitFile(h, f, attach)
  <2>1. PICK attach \in BOOLEAN, f \in File : InitFile(h, f, attach)
    BY <1>7
  <2>2. /\ op'.do = "init" /\ op'.h = h /\ op'.at = Null /\ op'.reads = f
        /\ op'.attach => op'.channels = EndpointChannels
    <3>1. op' = Request(h, Null, f, EndpointChannels, attach)
      BY <1>3, <2>1
    <3>. QED  BY <3>1 DEF Request, NoOp
  <2>. QED  BY <1>3, <2>1, <2>2 DEF Destruct, Ready
<1>8. CASE \E attach \in BOOLEAN, f \in File, a \in Addr : InitSourceChannels(h, a, f, attach)
  <2>1. PICK attach \in BOOLEAN, f \in File, a \in Addr : InitSourceChannels(h, a, f, attach)
    BY <1>8
  <2>2. op'.do = "init" /\ op'.h = h /\ op'.at = a /\ op'.reads = f /\ ~op'.attach
    <3>1. op' = Request(h, a, f, FileChannels[f], FALSE)
      BY <1>4, <2>1
    <3>. QED  BY <3>1 DEF Request, NoOp
  <2>3. /\ op' \in Op /\ Destruct(op', [block EXCEPT ![a] = Fresh("sound")])
        /\ block[a] = Free
    BY <1>4, <2>1
  <2>. QED  BY <2>2, <2>3 DEF Destruct, Ready
<1>9. CASE \E attach \in BOOLEAN, a \in Addr, d \in Source : InitFromDataSource(h, a, d, attach)
  <2>1. PICK attach \in BOOLEAN, a \in Addr, d \in Source : InitFromDataSource(h, a, d, attach)
    BY <1>9
  <2>2. /\ op'.do = "init" /\ op'.h = h /\ op'.at = a /\ op'.reads = resource[d]
        /\ op'.channels = EndpointChannels
    <3>1. op' = Request(h, a, resource[d], EndpointChannels, attach)
      BY <1>5, <2>1
    <3>. QED  BY <3>1 DEF Request, NoOp
  <2>. QED  BY <1>5, <2>1, <2>2 DEF Destruct, Ready
<1>. QED  BY <1>1, <1>6, <1>7, <1>8, <1>9 DEF Begins

(* Nothing changes but the block that `new' may have taken, which was free *)
(* and has no wrapper yet.                                                 *)
LEMMA BeginKeeps ==
    ASSUME TypeOK, SoundInv, NEW h \in Handle, Begins(h)
    PROVE  SoundInv'
<1>. USE DEF SoundInv
<1>1. /\ gpc = "ready" /\ op' \in Op
      /\ op'.do \in {"clear", "move", "init"} /\ op'.h \in Handle
      /\ op'.do = "move" => op'.from \in Handle /\ op'.from # op'.h
      /\ op'.do = "init" => /\ op'.reads \in Addr \cup File
                            /\ op'.attach => op'.channels = EndpointChannels
      /\ op'.reads \in Addr => \E d \in Source : resource[d] = op'.reads
      /\ gpc' = IF resource[op'.h] = Null THEN "destructed" ELSE "destruct"
      /\ UNCHANGED <<resource, engine, outcome, reading, served, loads>>
  BY BeginSteps
<1>2. /\ op'.at # Null => /\ op'.at \in Addr /\ op'.do = "init"
                          /\ block'[op'.at] = Fresh("sound")
      /\ \A a \in Addr : block'[a] = block[a] \/ (block[a] = Free /\ a = op'.at)
  BY BeginSteps, SoundAssumption DEF TypeOK
<1>3. \A a \in Addr : /\ IsSound(a)' <=> IsSound(a)
                      /\ IsSource(a)' <=> IsSource(a)
                      /\ block[a] # Free => block'[a] = block[a]
  <2>1. SUFFICES ASSUME NEW a \in Addr, block'[a] # block[a]
                 PROVE  /\ ~IsSound(a)' /\ ~IsSound(a) /\ ~IsSource(a)' /\ ~IsSource(a)
                        /\ block[a] = Free
    BY DEF IsSound, IsSource
  <2>2. block[a] = Free /\ block'[a] = Fresh("sound")
    BY <1>2, <2>1, SoundAssumption
  <2>. QED  BY <2>2 DEF IsSound, IsSource, Free, Fresh
<1>4. \A w \in Wrapper : /\ Held(w)' <=> Held(w)
                         /\ Held(w) <=> resource[w] # Null
                         /\ resource[w] # Null => resource[w] \in Addr
  BY <1>1 DEF Held, TypeOK, Wrapper
<1>5. HeldRight'
  <2>1. \A k \in Handle : Held(k)' => IsSound(resource[k])'
    BY <1>1, <1>3, <1>4 DEF HeldRight, Wrapper, IsSound
  <2>2. ASSUME NEW d \in Source, Held(d)' PROVE block'[resource[d]].is = "source"
    <3>1. block[resource[d]].is = "source" /\ resource[d] \in Addr
      BY <1>4, <2>2 DEF HeldRight, Wrapper
    <3>. QED  BY <1>3, <3>1 DEF Free, Fresh
  <2>. QED  BY <1>1, <2>1, <2>2 DEF HeldRight
<1>6. HeldOnce'
  BY <1>1, <1>4 DEF HeldOnce
<1>7. HeapHeld'
  <2>1. gpc' # "ready"
    BY <1>1
  <2>2. ASSUME NEW a \in Addr, block'[a] # Free
        PROVE  a = op'.at \/ \E w \in Wrapper : Held(w)' /\ resource'[w] = a
    BY <1>1, <1>2, <1>4, <2>2 DEF HeapHeld
  <2>. QED  BY <2>1, <2>2 DEF HeapHeld, Free, Fresh
<1>8. OpConsistent'
  BY <1>1, <1>2 DEF OpConsistent
<1>9. SourcesOutliveSounds' /\ AudioReadsLive'
  BY <1>1, <1>3 DEF SourcesOutliveSounds, AudioReadsLive, Sounds, IsSound, IsSource,
                    Free, Fresh, TypeOK
<1>10. ChannelsNeverRefused'
  BY <1>1 DEF ChannelsNeverRefused
<1>. QED  BY <1>5, <1>6, <1>7, <1>8, <1>9, <1>10

-----------------------------------------------------------------------------
(* The operations that begin with destruct(), from there to their end.     *)

(* A block that is free, or that reset() has yet to take, has no wrapper.  *)
LEMMA NobodyHolds ==
    ASSUME TypeOK, SoundInv, NEW a \in Addr, block[a] \in {Free, Fresh("sound")},
           NEW w \in Wrapper, Held(w)
    PROVE  resource[w] \in Addr /\ resource[w] # a
<1>1. resource[w] \in Addr
  BY DEF Held, TypeOK, Wrapper
<1>2. ~IsSound(a) /\ block[a].is # "source"
  BY DEF IsSound, Free, Fresh
<1>. QED  BY <1>1, <1>2 DEF SoundInv, HeldRight, Wrapper

LEMMA DisposeKeeps ==
    ASSUME TypeOK, SoundInv, Dispose
    PROVE  SoundInv'
<1>. USE DEF SoundInv
<1>1. /\ gpc = "destruct" /\ gpc' = "destructed" /\ reading # Victim
      /\ block' = [block EXCEPT ![Victim] = Free]
      /\ UNCHANGED <<resource, op, outcome, reading>>
  BY DEF Dispose
<1>2. /\ op.h \in Handle /\ resource[op.h] = Victim /\ Victim \in Addr
      /\ Held(op.h) /\ IsSound(Victim)
  BY <1>1 DEF OpConsistent, Victim, Held, HeldRight, TypeOK
<1>3. /\ block'[Victim] = Free
      /\ \A a \in Addr : a # Victim => block'[a] = block[a]
  BY <1>1, <1>2 DEF TypeOK
<1>4. \A w \in Wrapper : /\ Held(w)' <=> Held(w) /\ w # op.h
                         /\ Held(w)' => resource[w] \in Addr /\ resource[w] # Victim
  BY <1>1, <1>2 DEF Held, HeldOnce, TypeOK, Wrapper
<1>5. HeldRight'
  <2>1. ASSUME NEW h \in Handle, Held(h)' PROVE IsSound(resource[h])'
    BY <1>1, <1>3, <1>4, <2>1 DEF HeldRight, Wrapper, IsSound
  <2>2. ASSUME NEW d \in Source, Held(d)' PROVE block'[resource[d]].is = "source"
    BY <1>1, <1>3, <1>4, <2>2 DEF HeldRight, Wrapper
  <2>. QED  BY <1>1, <2>1, <2>2 DEF HeldRight
<1>6. HeldOnce'
  BY <1>1, <1>4 DEF HeldOnce
<1>7. HeapHeld'
  BY <1>1, <1>2, <1>3, <1>4 DEF HeapHeld
<1>8. OpConsistent'
  <2>1. op.at # Null => op.at \in Addr /\ block[op.at] = Fresh("sound")
    BY <1>1 DEF OpConsistent, TypeOK, Op
  <2>2. ~(block[Victim] = Fresh("sound"))
    BY <1>2 DEF IsSound, Fresh
  <2>. QED  BY <1>1, <1>3, <2>1, <2>2 DEF OpConsistent
<1>9. SourcesOutliveSounds'
  <2>1. SUFFICES ASSUME NEW a \in Sounds', block'[a].reads \in Addr
                 PROVE  /\ IsSource(block[a].reads)'
                        /\ \E d \in Source : resource'[d] = block'[a].reads
    BY DEF SourcesOutliveSounds
  <2>2. a \in Sounds /\ block'[a] = block[a]
    BY <1>3, <2>1 DEF Sounds, IsSound, Free, Fresh
  <2>3. IsSource(block[a].reads) /\ \E d \in Source : resource[d] = block[a].reads
    BY <2>1, <2>2 DEF SourcesOutliveSounds
  <2>4. block[a].reads # Victim
    BY <1>2, <2>3 DEF IsSource, IsSound
  <2>. QED  BY <1>1, <1>3, <2>1, <2>2, <2>3, <2>4 DEF IsSource
<1>10. AudioReadsLive' /\ ChannelsNeverRefused'
  BY <1>1, <1>3 DEF AudioReadsLive, ChannelsNeverRefused, IsSound, TypeOK
<1>. QED  BY <1>5, <1>6, <1>7, <1>8, <1>9, <1>10

LEMMA ClearKeeps ==
    ASSUME TypeOK, SoundInv, FinishClear
    PROVE  SoundInv'
<1>. USE DEF SoundInv
<1>1. /\ gpc = "destructed" /\ gpc' = "ready" /\ op.h \in Handle /\ op.at = Null
      /\ resource' = [resource EXCEPT ![op.h] = Null]
      /\ UNCHANGED <<block, outcome, reading>>
  BY DEF FinishClear, Done, OpConsistent
<1>2. \A w \in Wrapper : /\ Held(w)' <=> Held(w)
                         /\ Held(w) => resource'[w] = resource[w] /\ resource[w] \in Addr
                         /\ w # op.h => resource'[w] = resource[w]
  BY <1>1 DEF Held, TypeOK, Wrapper
<1>3. HeldRight'
  BY <1>1, <1>2 DEF HeldRight, Wrapper, IsSound
<1>4. HeldOnce'
  BY <1>1, <1>2 DEF HeldOnce
<1>5. HeapHeld'
  BY <1>1, <1>2, SoundAssumption DEF HeapHeld
<1>6. SourcesOutliveSounds'
  BY <1>1, <1>2, SoundAssumption DEF SourcesOutliveSounds, Sounds, IsSound, IsSource, Wrapper
<1>7. AudioReadsLive' /\ ChannelsNeverRefused' /\ OpConsistent'
  BY <1>1 DEF AudioReadsLive, ChannelsNeverRefused, IsSound, OpConsistent
<1>. QED  BY <1>3, <1>4, <1>5, <1>6, <1>7

LEMMA MoveKeeps ==
    ASSUME TypeOK, SoundInv, FinishMove
    PROVE  SoundInv'
<1>. USE DEF SoundInv
<1>1. /\ gpc = "destructed" /\ gpc' = "ready" /\ op.at = Null
      /\ op.h \in Handle /\ op.from \in Handle /\ op.from # op.h
      /\ resource' = [resource EXCEPT ![op.h] = resource[op.from], ![op.from] = Null]
      /\ UNCHANGED <<block, outcome, reading>>
  BY DEF FinishMove, Done, OpConsistent
<1>2. \A w \in Wrapper : /\ w = op.h => resource'[w] = resource[op.from]
                         /\ w = op.from => resource'[w] = Null
                         /\ w # op.h /\ w # op.from => resource'[w] = resource[w]
  BY <1>1 DEF TypeOK, Wrapper
<1>3. \A w \in Wrapper : Held(w)' =>
          \/ w = op.h /\ Held(op.from) /\ resource'[w] = resource[op.from]
          \/ w \notin {op.h, op.from} /\ Held(w) /\ resource'[w] = resource[w]
  BY <1>1, <1>2 DEF Held, Wrapper
<1>4. HeldRight'
  <2>1. ASSUME NEW h \in Handle, Held(h)' PROVE IsSound(resource[h])'
    <3>1. h \in Wrapper /\ op.from \in Wrapper
      BY <1>1 DEF Wrapper
    <3>2. PICK k \in Handle : Held(k) /\ resource'[h] = resource[k]
      BY <1>1, <1>3, <2>1, <3>1
    <3>. QED  BY <1>1, <3>2 DEF HeldRight, IsSound
  <2>2. ASSUME NEW d \in Source, Held(d)' PROVE block'[resource'[d]].is = "source"
    BY <1>1, <1>3, <2>2, SoundAssumption DEF HeldRight, Wrapper
  <2>. QED  BY <2>1, <2>2 DEF HeldRight
<1>5. HeldOnce'
  BY <1>1, <1>3 DEF HeldOnce, Wrapper
<1>6. HeapHeld'
  <2>1. ASSUME NEW a \in Addr, block'[a] # Free
        PROVE  \E w \in Wrapper : Held(w)' /\ resource'[w] = a
    <3>1. PICK w \in Wrapper : Held(w) /\ resource[w] = a
      BY <1>1, <2>1, SoundAssumption DEF HeapHeld
    <3>2. CASE w = op.from
      <4>1. PICK v \in Wrapper : resource'[v] = a
        BY <1>1, <1>2, <3>1, <3>2 DEF Wrapper
      <4>2. a # Null
        BY <3>1 DEF Held
      <4>. QED  BY <1>1, <4>1, <4>2 DEF Held
    <3>3. CASE w # op.from
      BY <1>1, <1>2, <3>1, <3>3 DEF Held, Wrapper
    <3>. QED  BY <3>2, <3>3
  <2>. QED  BY <1>1, <2>1 DEF HeapHeld, Free, Fresh
<1>7. SourcesOutliveSounds'
  <2>1. \A d \in Source : resource'[d] = resource[d]
    BY <1>1, <1>2, SoundAssumption DEF Wrapper
  <2>2. SUFFICES ASSUME NEW a \in Sounds, block[a].reads \in Addr
                 PROVE  /\ IsSource(block[a].reads)
                        /\ \E d \in Source : resource'[d] = block[a].reads
    BY <1>1 DEF SourcesOutliveSounds, Sounds, IsSound, IsSource
  <2>. QED  BY <2>1, <2>2 DEF SourcesOutliveSounds
<1>8. AudioReadsLive' /\ ChannelsNeverRefused' /\ OpConsistent'
  BY <1>1 DEF AudioReadsLive, ChannelsNeverRefused, IsSound, OpConsistent
<1>. QED  BY <1>4, <1>5, <1>6, <1>7, <1>8

(* The file that is loaded is not on this heap.                            *)
LEMMA LoadKeeps ==
    ASSUME TypeOK, SoundInv, Load
    PROVE  SoundInv'
<1>. USE DEF SoundInv
<1>1. /\ gpc = "destructed" /\ gpc' = "loaded" /\ op.do = "init" /\ op.reads \in File
      /\ UNCHANGED <<resource, block, op, outcome, reading>>
  BY DEF Load
<1>2. \A w \in Wrapper : Held(w)' <=> Held(w)
  BY <1>1 DEF Held
<1>3. HeldRight' /\ HeldOnce' /\ HeapHeld'
  BY <1>1, <1>2 DEF HeldRight, HeldOnce, HeapHeld, Wrapper, IsSound
<1>4. OpConsistent'
  BY <1>1 DEF OpConsistent
<1>5. AudioReadsLive' /\ SourcesOutliveSounds' /\ ChannelsNeverRefused'
  BY <1>1 DEF AudioReadsLive, SourcesOutliveSounds, ChannelsNeverRefused, Sounds, IsSound, IsSource
<1>. QED  BY <1>3, <1>4, <1>5

LEMMA InitFailsKeeps ==
    ASSUME TypeOK, SoundInv, InitFails
    PROVE  SoundInv'
<1>. USE DEF SoundInv
<1>1. /\ gpc \in {"destructed", "loaded"} /\ gpc' = "ready" /\ op.h \in Handle
      /\ op.attach => op.channels = EndpointChannels
      /\ resource' = [resource EXCEPT ![op.h] = Null]
      /\ outcome' = "failed" /\ UNCHANGED reading
  BY DEF InitFails, Refused, Mismatch, Done, OpConsistent
<1>2. /\ op.at # Null => op.at \in Addr /\ block[op.at] = Fresh("sound") /\ block'[op.at] = Free
      /\ \A a \in Addr : a # op.at => block'[a] = block[a]
  BY DEF InitFails, Refused, OpConsistent, TypeOK, Op
<1>3. \A a \in Addr : /\ IsSound(a)' => IsSound(a) /\ block'[a] = block[a]
                      /\ IsSound(a) => IsSound(a)'
                      /\ IsSource(a) => IsSource(a)'
  <2>1. SUFFICES ASSUME NEW a \in Addr, a = op.at
                 PROVE  ~IsSound(a)' /\ ~IsSound(a) /\ ~IsSource(a)
    BY <1>2 DEF IsSound, IsSource
  <2>2. block[a] = Fresh("sound") /\ block'[a] = Free
    BY <1>2, <2>1, SoundAssumption
  <2>. QED  BY <2>2 DEF IsSound, IsSource, Free, Fresh
<1>4. \A w \in Wrapper : /\ Held(w)' <=> Held(w)
                         /\ w # op.h => resource'[w] = resource[w]
                         /\ Held(w) => /\ resource'[w] = resource[w] /\ resource[w] \in Addr
                                       /\ block'[resource[w]] = block[resource[w]]
  <2>1. \A w \in Wrapper : /\ Held(w)' <=> Held(w)
                           /\ w # op.h => resource'[w] = resource[w]
                           /\ Held(w) => resource'[w] = resource[w] /\ resource[w] \in Addr
    BY <1>1 DEF Held, TypeOK, Wrapper
  <2>2. \A w \in Wrapper : Held(w) => resource[w] # op.at
    BY <1>2, <2>1, NobodyHolds, SoundAssumption
  <2>. QED  BY <1>2, <2>1, <2>2
<1>5. HeldRight' /\ HeldOnce'
  BY <1>4 DEF HeldRight, HeldOnce, IsSound, Wrapper
<1>6. HeapHeld'
  <2>1. ASSUME NEW a \in Addr, block'[a] # Free
        PROVE  \E w \in Wrapper : Held(w)' /\ resource'[w] = a
    BY <1>2, <1>4, <2>1, SoundAssumption DEF HeapHeld
  <2>. QED  BY <1>1, <2>1 DEF HeapHeld, Free, Fresh
<1>7. SourcesOutliveSounds'
  <2>1. \A d \in Source : resource'[d] = resource[d]
    BY <1>1, <1>4, SoundAssumption DEF Wrapper
  <2>2. SUFFICES ASSUME NEW a \in Sounds, block'[a] = block[a], block[a].reads \in Addr
                 PROVE  /\ IsSource(block[a].reads)'
                        /\ \E d \in Source : resource'[d] = block[a].reads
    BY <1>3 DEF SourcesOutliveSounds, Sounds, IsSource
  <2>. QED  BY <1>3, <2>1, <2>2 DEF SourcesOutliveSounds
<1>8. AudioReadsLive' /\ ChannelsNeverRefused' /\ OpConsistent'
  BY <1>1, <1>3 DEF AudioReadsLive, ChannelsNeverRefused, OpConsistent, TypeOK, IsSound
<1>. QED  BY <1>5, <1>6, <1>7, <1>8

LEMMA InitKeeps ==
    ASSUME TypeOK, SoundInv, NEW a \in Addr, FinishInit(a)
    PROVE  SoundInv'
<1>. USE DEF SoundInv
<1>1. /\ gpc \in {"destructed", "loaded"} /\ gpc' = "ready" /\ op.h \in Handle
      /\ block[a] \in {Free, Fresh("sound")} /\ (op.at # Null => a = op.at)
      /\ resource' = [resource EXCEPT ![op.h] = a]
      /\ outcome' = "success" /\ UNCHANGED reading
  BY DEF FinishInit, Sourced, Done, OpConsistent
<1>2. /\ block'[a].is = "sound" /\ block'[a].ready /\ block'[a].reads = op.reads
      /\ \A b \in Addr : b # a => block'[b] = block[b]
  BY DEF FinishInit, TypeOK
<1>3. ~IsSound(a) /\ ~IsSource(a) /\ IsSound(a)'
  BY <1>1, <1>2 DEF IsSound, IsSource, Free, Fresh
<1>4. \A w \in Wrapper : /\ w # op.h => resource'[w] = resource[w]
                         /\ w = op.h => resource'[w] = a
                         /\ Held(w)' <=> Held(w) \/ w = op.h
                         /\ Held(w) => /\ w # op.h /\ resource[w] \in Addr /\ resource[w] # a
                                       /\ block'[resource[w]] = block[resource[w]]
  <2>1. \A w \in Wrapper : /\ w # op.h => resource'[w] = resource[w]
                           /\ w = op.h => resource'[w] = a
                           /\ Held(w) => w # op.h
    BY <1>1 DEF Held, TypeOK, Wrapper
  <2>2. \A w \in Wrapper : Held(w) => resource[w] \in Addr /\ resource[w] # a
    BY <1>1, NobodyHolds
  <2>. QED  BY <1>1, <1>2, <2>1, <2>2, SoundAssumption DEF Held
<1>5. HeldRight'
  <2>1. ASSUME NEW h \in Handle, Held(h)' PROVE IsSound(resource[h])'
    BY <1>3, <1>4, <2>1 DEF HeldRight, Wrapper, IsSound
  <2>2. ASSUME NEW d \in Source, Held(d)' PROVE block'[resource'[d]].is = "source"
    BY <1>1, <1>4, <2>2, SoundAssumption DEF HeldRight, Wrapper
  <2>. QED  BY <2>1, <2>2 DEF HeldRight
<1>6. HeldOnce'
  BY <1>4 DEF HeldOnce
<1>7. HeapHeld'
  <2>1. ASSUME NEW b \in Addr, block'[b] # Free
        PROVE  \E w \in Wrapper : Held(w)' /\ resource'[w] = b
    <3>1. CASE b = a
      BY <1>1, <1>4, <3>1 DEF Wrapper
    <3>2. CASE b # a
      BY <1>1, <1>2, <1>4, <2>1, <3>2, SoundAssumption DEF HeapHeld, OpConsistent
    <3>. QED  BY <3>1, <3>2
  <2>. QED  BY <1>1, <2>1 DEF HeapHeld, Free, Fresh
<1>8. SourcesOutliveSounds'
  <2>1. \A d \in Source : resource'[d] = resource[d]
    BY <1>1, <1>4, SoundAssumption DEF Wrapper
  <2>2. \A b \in Addr : IsSource(b) => b # a /\ block'[b] = block[b]
    BY <1>2, <1>3
  <2> DEFINE Served(b) == /\ block'[b].is = "source" /\ block'[b].ready
                          /\ \E d \in Source : resource'[d] = b
  <2>3. ASSUME op.reads \in Addr PROVE Served(op.reads)
    <3>1. IsSource(op.reads)
      BY <2>3, SoundAssumption DEF FinishInit
    <3>. QED  BY <1>1, <2>1, <2>2, <2>3, <3>1 DEF OpConsistent, IsSource
  <2>4. ASSUME NEW b \in Sounds, block[b].reads \in Addr PROVE Served(block[b].reads)
    BY <2>1, <2>2, <2>4 DEF SourcesOutliveSounds, IsSource
  <2>5. \A b \in Sounds' : b = a \/ (b \in Sounds /\ block'[b] = block[b])
    BY <1>2 DEF Sounds, IsSound
  <2>6. ASSUME NEW b \in Sounds', block'[b].reads \in Addr PROVE Served(block'[b].reads)
    BY <1>2, <2>3, <2>4, <2>5, <2>6
  <2>. QED  BY <2>6 DEF SourcesOutliveSounds, IsSource
<1>9. AudioReadsLive' /\ ChannelsNeverRefused' /\ OpConsistent'
  BY <1>1, <1>2, <1>3 DEF AudioReadsLive, ChannelsNeverRefused, OpConsistent, TypeOK, IsSound
<1>. QED  BY <1>5, <1>6, <1>7, <1>8, <1>9

-----------------------------------------------------------------------------
(* DataSource<T> operations: between those of the sounds, when nothing     *)
(* dangles.  The base that goes is one that no sound reads.                *)
OnSource(d) == \/ \E a \in Addr, ready \in BOOLEAN : SourceInit(d, a, ready)
               \/ SourceClear(d)
               \/ \E e \in Source : SourceMove(d, e)

LEMMA SoundsStay ==
    ASSUME TypeOK, SoundInv, NEW d \in Source, OnSource(d), NEW a \in Addr,
           IsSound(a) \/ IsSound(a)'
    PROVE  block'[a] = block[a]
<1>1. resource[d] # Null => resource[d] \in Addr /\ block[resource[d]].is = "source"
  BY DEF OnSource, SourceInit, SourceClear, SourceMove, Unused, Ready, SoundInv, HeldRight,
         Held, TypeOK
<1>2. \/ block'[a] = Destructed(d)[a]
      \/ Destructed(d)[a] = Free /\ block'[a].is = "source"
  BY DEF OnSource, SourceInit, SourceClear, SourceMove, Fresh, Destructed
<1>. QED  BY <1>1, <1>2, SoundAssumption DEF IsSound, Destructed, Free, Fresh

LEMMA SourceGoneKeeps ==
    ASSUME TypeOK, SoundInv, NEW d \in Source,
           SourceClear(d) \/ \E e \in Source : SourceMove(d, e)
    PROVE  SoundInv'
<1>. USE DEF SoundInv
<1>1. /\ gpc = "ready" /\ UNCHANGED <<gpc, op, outcome, reading>>
      /\ \A a \in Sounds : block[a].reads # resource[d]
      /\ block' = Destructed(d)
  BY DEF SourceClear, SourceMove, Unused, Ready
<1>2. PICK e \in Wrapper \cup {Null} :
          /\ e # d /\ (e # Null => e \in Source)
          /\ \A w \in Wrapper : /\ w = d => resource'[w] = IF e = Null THEN Null ELSE resource[e]
                                /\ w = e => resource'[w] = Null
                                /\ w # d /\ w # e => resource'[w] = resource[w]
  <2>1. CASE SourceClear(d)
    <3>1. \A w \in Wrapper : /\ w = d => resource'[w] = Null
                             /\ w # d => resource'[w] = resource[w]
      BY <2>1 DEF SourceClear, TypeOK, Wrapper
    <3>. QED  BY <3>1, SoundAssumption DEF Wrapper
  <2>2. ASSUME NEW e \in Source, SourceMove(d, e)
        PROVE  /\ e # d
               /\ \A w \in Wrapper : /\ w = d => resource'[w] = resource[e]
                                     /\ w = e => resource'[w] = Null
                                     /\ w # d /\ w # e => resource'[w] = resource[w]
    BY <2>2 DEF SourceMove, TypeOK, Wrapper
  <2>. QED  BY <2>1, <2>2, SoundAssumption DEF Wrapper
<1>3. \A w \in Wrapper : /\ Held(w) <=> resource[w] # Null
                         /\ Held(w)' <=> resource'[w] # Null
                         /\ resource[w] # Null => resource[w] \in Addr
  BY <1>1 DEF Held, TypeOK, Wrapper
<1>4. \A a \in Addr : block'[a] = IF a = resource[d] THEN Free ELSE block[a]
  BY <1>1 DEF Destructed
<1>5. resource[d] # Null => resource[d] \in Addr /\ block[resource[d]].is = "source"
  BY <1>3 DEF HeldRight, Wrapper
<1>6. \A w \in Wrapper : resource'[w] # Null =>
          \E v \in Wrapper : /\ v # d /\ resource[v] = resource'[w] /\ resource[v] # Null
                             /\ v = w \/ (w = d /\ v = e /\ v \in Source)
  BY <1>2 DEF Wrapper
<1>7. \A v \in Wrapper : v # d /\ resource[v] # Null =>
          resource[v] # resource[d] /\ block'[resource[v]] = block[resource[v]]
  BY <1>3, <1>4 DEF HeldOnce, Wrapper
<1>8. HeldRight'
  <2>1. ASSUME NEW h \in Handle, resource'[h] # Null PROVE IsSound(resource[h])'
    <3>1. h # d /\ resource'[h] = resource[h]
      BY <1>6, <2>1, SoundAssumption DEF Wrapper
    <3>. QED  BY <1>3, <1>7, <2>1, <3>1 DEF HeldRight, IsSound, Wrapper
  <2>2. ASSUME NEW s \in Source, resource'[s] # Null PROVE block'[resource'[s]].is = "source"
    <3>1. PICK v \in Source : v # d /\ resource[v] = resource'[s] /\ resource[v] # Null
      BY <1>6, <2>2 DEF Wrapper
    <3>. QED  BY <1>3, <1>7, <3>1 DEF HeldRight, Wrapper
  <2>. QED  BY <1>3, <2>1, <2>2 DEF HeldRight, Wrapper
<1>9. HeldOnce'
  <2>1. SUFFICES ASSUME NEW v \in Wrapper, NEW w \in Wrapper,
                        resource'[v] # Null, resource'[v] = resource'[w]
                 PROVE  v = w
    BY <1>3 DEF HeldOnce
  <2>2. PICK x \in Wrapper : /\ resource[x] = resource'[v] /\ resource[x] # Null
                             /\ x = v \/ (v = d /\ x = e)
    BY <1>6, <2>1
  <2>3. PICK y \in Wrapper : /\ resource[y] = resource'[w] /\ resource[y] # Null
                             /\ y = w \/ (w = d /\ y = e)
    BY <1>6, <2>1
  <2>4. x = y
    BY <1>3, <2>1, <2>2, <2>3 DEF HeldOnce
  <2>. QED  BY <1>2, <2>1, <2>2, <2>3, <2>4
<1>10. \A a \in Addr, v \in Wrapper : resource[v] = a /\ a # resource[d] =>
          \E w \in Wrapper : resource'[w] = a /\ (v \in Source => w \in Source)
  <2>1. SUFFICES ASSUME NEW v \in Wrapper, resource[v] # resource[d], resource[v] \in Addr
                 PROVE  \E w \in Wrapper : /\ resource'[w] = resource[v]
                                           /\ v \in Source => w \in Source
    OBVIOUS
  <2>2. CASE v = e
    BY <1>2, <2>1, <2>2, SoundAssumption DEF Wrapper
  <2>3. CASE v # e
    BY <1>2, <2>1, <2>3
  <2>. QED  BY <2>2, <2>3
<1>11. HeapHeld'
  <2>1. ASSUME NEW a \in Addr, block'[a] # Free
        PROVE  \E w \in Wrapper : resource'[w] = a
    BY <1>1, <1>3, <1>4, <1>10, <2>1 DEF HeapHeld
  <2>. QED  BY <1>3, <2>1, SoundAssumption DEF HeapHeld, Free, Fresh
<1>12. \A a \in Addr : IsSound(a) \/ IsSound(a)' => block'[a] = block[a]
  BY SoundsStay DEF OnSource
<1>13. SourcesOutliveSounds'
  <2>1. SUFFICES ASSUME NEW a \in Sounds, block[a].reads \in Addr
                 PROVE  /\ block'[block[a].reads].is = "source" /\ block'[block[a].reads].ready
                        /\ \E s \in Source : resource'[s] = block[a].reads
    BY <1>12 DEF SourcesOutliveSounds, Sounds, IsSound, IsSource
  <2>2. PICK s \in Source : resource[s] = block[a].reads
    BY <2>1 DEF SourcesOutliveSounds
  <2>3. block[a].reads # resource[d] /\ IsSource(block[a].reads)
    BY <1>1, <2>1 DEF SourcesOutliveSounds
  <2>. QED  BY <1>4, <1>10, <2>1, <2>2, <2>3 DEF IsSource, Wrapper
<1>14. AudioReadsLive' /\ ChannelsNeverRefused' /\ OpConsistent'
  BY <1>1, <1>12 DEF AudioReadsLive, ChannelsNeverRefused, OpConsistent, TypeOK, IsSound
<1>. QED  BY <1>8, <1>9, <1>11, <1>13, <1>14

LEMMA SourceInitKeeps ==
    ASSUME TypeOK, SoundInv, NEW d \in Source, NEW a \in Addr, NEW ready \in BOOLEAN,
           SourceInit(d, a, ready)
    PROVE  SoundInv'
<1>. USE DEF SoundInv
<1>1. /\ gpc = "ready" /\ UNCHANGED <<gpc, op, outcome, reading>>
      /\ \A b \in Sounds : block[b].reads # resource[d]
      /\ block[a] = Free \/ a = resource[d]
  BY DEF SourceInit, Unused, Ready, Destructed
<1>2. /\ block'[a].is = "source"
      /\ \A b \in Addr : b # a => block'[b] = IF b = resource[d] THEN Free ELSE block[b]
  BY DEF SourceInit, Destructed, Fresh
<1>3. \A w \in Wrapper : /\ w = d => resource'[w] = a
                         /\ w # d => resource'[w] = resource[w]
  BY DEF SourceInit, TypeOK, Wrapper
<1>4. \A w \in Wrapper : /\ Held(w) <=> resource[w] # Null
                         /\ Held(w)' <=> resource'[w] # Null
                         /\ resource[w] # Null => resource[w] \in Addr
  BY <1>1 DEF Held, TypeOK, Wrapper
<1>5. resource[d] # Null => resource[d] \in Addr /\ block[resource[d]].is = "source"
  BY <1>4 DEF HeldRight, Wrapper
<1>6. \A w \in Wrapper : w # d /\ resource[w] # Null =>
          /\ resource[w] # resource[d] /\ resource[w] # a
          /\ block'[resource[w]] = block[resource[w]]
  <2>1. SUFFICES ASSUME NEW w \in Wrapper, w # d, resource[w] # Null
                 PROVE  resource[w] # resource[d] /\ resource[w] # a
    BY <1>2, <1>4
  <2>2. resource[w] # resource[d]
    BY <1>4, <2>1 DEF HeldOnce, Wrapper
  <2>3. block[a] = Free => resource[w] # a
    BY <1>4, <2>1, NobodyHolds
  <2>. QED  BY <1>1, <2>2, <2>3
<1>7. HeldRight'
  <2>1. ASSUME NEW h \in Handle, resource'[h] # Null PROVE IsSound(resource[h])'
    BY <1>3, <1>4, <1>6, <2>1, SoundAssumption DEF HeldRight, IsSound, Wrapper
  <2>2. ASSUME NEW s \in Source, resource'[s] # Null PROVE block'[resource'[s]].is = "source"
    BY <1>2, <1>3, <1>4, <1>6, <2>2 DEF HeldRight, Wrapper
  <2>. QED  BY <1>4, <2>1, <2>2 DEF HeldRight, Wrapper
<1>8. HeldOnce'
  BY <1>3, <1>4, <1>6 DEF HeldOnce
<1>9. HeapHeld'
  <2>1. ASSUME NEW b \in Addr, block'[b] # Free
        PROVE  \E w \in Wrapper : resource'[w] = b
    <3>1. CASE b = a
      BY <1>3, <3>1 DEF Wrapper
    <3>2. CASE b # a
      <4>1. b # resource[d] /\ block[b] # Free
        BY <1>2, <2>1, <3>2
      <4>2. PICK w \in Wrapper : resource[w] = b
        BY <1>1, <4>1 DEF HeapHeld
      <4>. QED  BY <1>3, <4>1, <4>2
    <3>. QED  BY <3>1, <3>2
  <2>2. ASSUME NEW b \in Addr, block'[b] # Free
        PROVE  \E w \in Wrapper : Held(w)' /\ resource'[w] = b
    BY <1>4, <2>1, <2>2, SoundAssumption
  <2>. QED  BY <2>2 DEF HeapHeld, Free, Fresh
<1>10. \A b \in Addr : IsSound(b) \/ IsSound(b)' => block'[b] = block[b]
  BY SoundsStay DEF OnSource
<1>11. SourcesOutliveSounds'
  <2>1. SUFFICES ASSUME NEW b \in Sounds, block[b].reads \in Addr
                 PROVE  /\ block'[block[b].reads].is = "source" /\ block'[block[b].reads].ready
                        /\ \E s \in Source : resource'[s] = block[b].reads
    BY <1>10 DEF SourcesOutliveSounds, Sounds, IsSound, IsSource
  <2>2. PICK s \in Source : resource[s] = block[b].reads
    BY <2>1 DEF SourcesOutliveSounds
  <2>3. block[b].reads # resource[d] /\ IsSource(block[b].reads)
    BY <1>1, <2>1 DEF SourcesOutliveSounds
  <2>4. s # d /\ s \in Wrapper /\ resource[s] # Null
    BY <2>1, <2>2, <2>3, SoundAssumption DEF Wrapper
  <2>. QED  BY <1>3, <1>6, <2>1, <2>2, <2>3, <2>4 DEF IsSource
<1>12. AudioReadsLive' /\ ChannelsNeverRefused' /\ OpConsistent'
  BY <1>1, <1>10 DEF AudioReadsLive, ChannelsNeverRefused, OpConsistent, TypeOK, IsSound
<1>. QED  BY <1>7, <1>8, <1>9, <1>11, <1>12

-----------------------------------------------------------------------------
(* The sounds that the resource manager serves, and how many.              *)
FromFile == {a \in Sounds : block[a].reads \in File}

Made == Cardinality(FromFile)

LEMMA Count ==
    ASSUME LoadsFollowSounds
    PROVE  /\ loads = Made + InHand /\ Made \in Nat /\ loads \in Nat
           /\ \A a \in Addr :
                 Cardinality(FromFile \cup {a}) = IF a \in FromFile THEN Made ELSE Made + 1
           /\ \A a \in Addr :
                 Cardinality(FromFile \ {a}) = IF a \in FromFile THEN Made - 1 ELSE Made
<1>. USE DEF Made
<1>1. loads = Made + InHand /\ InHand \in Nat
  BY DEF LoadsFollowSounds, FromFile, InHand
<1>2. IsFiniteSet(FromFile)
  BY FS_Subset, SoundAssumption DEF FromFile, Sounds
<1>. QED  BY <1>1, <1>2, FS_CardinalityType, FS_AddElement, FS_RemoveElement

(* A file is loaded for the sound that is made from it, and given back     *)
(* with the sound or when there comes to be none; nothing else makes or    *)
(* ends a sound.                                                           *)
LEMMA LoadsKeep ==
    ASSUME TypeOK, SoundInv, LoadsFollowSounds, [Next]_vars
    PROVE  loads' = Made' + InHand' /\ LoadsFollowSounds'
<1>. USE DEF SoundInv
<1>1. SUFFICES loads' = Made' + InHand'
  BY DEF LoadsFollowSounds, FromFile, Made
<1>2. ASSUME loads' = loads + InHand' - InHand,
             \A a \in Addr : IsSound(a) \/ IsSound(a)' =>
                                 block'[a] = block[a] \/ SameButPlaying(a)
      PROVE  loads' = Made' + InHand'
  <2>1. FromFile' = FromFile
    BY <1>2 DEF FromFile, Sounds, IsSound, SameButPlaying
  <2>2. Made' = Made
    BY <2>1 DEF Made
  <2>. QED  BY <1>2, <2>2, Count DEF InHand
<1>. USE DEF InHand
<1>3. CASE Quiet
  BY <1>2, <1>3, Count, QuietSteps
<1>4. ASSUME NEW h \in Handle, Begins(h) PROVE loads' = Made' + InHand'
  <2>1. \A a \in Addr : block'[a] = block[a] \/ (block[a] = Free /\ block'[a] = Fresh("sound"))
    BY <1>4, BeginSteps DEF TypeOK
  <2>2. \A a \in Addr : IsSound(a) \/ IsSound(a)' => block'[a] = block[a]
    BY <2>1 DEF IsSound, Free, Fresh
  <2>3. /\ gpc = "ready" /\ gpc' \in {"destruct", "destructed"} /\ loads' = loads
    BY <1>4, BeginSteps
  <2>. QED  BY <1>2, <2>2, <2>3, Count
<1>5. CASE Dispose
  <2>1. Victim \in Addr /\ IsSound(Victim)
    BY <1>5 DEF Dispose, OpConsistent, Victim, Held, HeldRight, TypeOK
  <2>2. \A a \in Addr : block'[a] = IF a = Victim THEN Free ELSE block[a]
    BY <1>5, <2>1 DEF Dispose, TypeOK
  <2>3. FromFile' = FromFile \ {Victim}
    BY <2>1, <2>2 DEF FromFile, Sounds, IsSound, Free, Fresh
  <2>4. /\ loads' = loads - (IF Victim \in FromFile THEN 1 ELSE 0)
        /\ gpc = "destruct" /\ gpc' = "destructed"
    BY <1>5, <2>1 DEF Dispose, LoadedBy, FromFile, Sounds, IsSound
  <2>5. Made' = Made - (IF Victim \in FromFile THEN 1 ELSE 0)
    BY <2>1, <2>3, Count DEF Made
  <2>. QED  BY <2>4, <2>5, Count
<1>6. CASE FinishClear \/ FinishMove \/ UNCHANGED vars
  <2>1. loads' = loads + InHand' - InHand /\ UNCHANGED block
    BY <1>6, Count DEF FinishClear, FinishMove, Done, vars
  <2>. QED  BY <1>2, <2>1
<1>7. CASE InitFails
  <2>1. ASSUME NEW a \in Addr, block'[a] # block[a]
        PROVE  block[a] = Fresh("sound") /\ block'[a] = Free
    BY <1>7, <2>1 DEF InitFails, Refused, OpConsistent, TypeOK
  <2>2. \A a \in Addr : IsSound(a) \/ IsSound(a)' => block'[a] = block[a]
    BY <2>1 DEF IsSound, Free, Fresh
  <2>3. loads' = loads + InHand' - InHand
    BY <1>7, Count DEF InitFails, Refused, Done
  <2>. QED  BY <1>2, <2>2, <2>3
<1>8. ASSUME NEW a \in Addr, FinishInit(a) PROVE loads' = Made' + InHand'
  <2>1. block[a] = Free \/ block[a] = Fresh("sound")
    BY <1>8 DEF FinishInit, Sourced, OpConsistent
  <2>2. a \notin FromFile
    BY <2>1 DEF FromFile, Sounds, IsSound, Free, Fresh
  <2>3. /\ block'[a].is = "sound" /\ block'[a].ready /\ block'[a].reads = op.reads
        /\ \A b \in Addr : b # a => block'[b] = block[b]
    BY <1>8 DEF FinishInit, TypeOK
  <2>4. FromFile' = IF op.reads \in File THEN FromFile \cup {a} ELSE FromFile
    BY <2>2, <2>3 DEF FromFile, Sounds, IsSound
  <2>5. Made' = IF op.reads \in File THEN Made + 1 ELSE Made
    BY <2>2, <2>4, Count DEF Made
  <2>6. /\ loads' = loads /\ gpc' = "ready"
        /\ gpc = IF op.reads \in File THEN "loaded" ELSE "destructed"
    BY <1>8 DEF FinishInit, Sourced, Done
  <2>. QED  BY <2>5, <2>6, Count
<1>9. ASSUME NEW d \in Source, OnSource(d) PROVE loads' = Made' + InHand'
  <2>1. loads' = loads + InHand' - InHand
    BY <1>9, Count DEF OnSource, SourceInit, SourceClear, SourceMove
  <2>. QED  BY <1>2, <1>9, <2>1, SoundsStay
<1>10. CASE Load
  <2>1. loads' = loads + InHand' - InHand /\ UNCHANGED block
    BY <1>10, Count DEF Load
  <2>. QED  BY <1>2, <2>1
<1>. QED
  BY <1>3, <1>4, <1>5, <1>6, <1>7, <1>8, <1>9, <1>10 DEF Next, Quiet, Begins, OnSource

-----------------------------------------------------------------------------
(* Types                                                                   *)

LEMMA HeapTypes ==
    /\ Free \in Block /\ Fresh("sound") \in Block /\ Fresh("source") \in Block
    /\ NoOp \in Op
  BY DEF Free, Fresh, Block, NoOp, Op

LEMMA SourceTypes ==
    ASSUME TypeOK, NEW d \in Source, OnSource(d)
    PROVE  TypeOK'
<1>1. Destructed(d) \in [Addr -> Block]
  BY HeapTypes DEF Destructed, TypeOK
<1>2. ASSUME NEW a \in Addr, NEW ready \in BOOLEAN, SourceInit(d, a, ready) PROVE TypeOK'
  <2>1. [Fresh("source") EXCEPT !.ready = ready] \in Block
    BY DEF Fresh, Block
  <2>2. block' \in [Addr -> Block]
    BY <1>1, <1>2, <2>1 DEF SourceInit
  <2>. QED  BY <1>2, <2>2 DEF SourceInit, TypeOK
<1>3. CASE SourceClear(d)
  BY <1>1, <1>3 DEF SourceClear, TypeOK
<1>4. CASE \E e \in Source : SourceMove(d, e)
  BY <1>1, <1>4 DEF SourceMove, TypeOK
<1>. QED  BY <1>2, <1>3, <1>4 DEF OnSource

LEMMA TypeKeeps ==
    ASSUME TypeOK, SoundInv, LoadsFollowSounds, [Next]_vars
    PROVE  TypeOK'
<1>. USE DEF SoundInv
<1>1. CASE Quiet
  BY <1>1, QuietSteps DEF TypeOK
<1>2. ASSUME NEW h \in Handle, Begins(h) PROVE TypeOK'
  BY <1>2, BeginSteps, HeapTypes DEF TypeOK
<1>3. CASE Dispose
  <2>1. loads' \in Nat
    <3>1. FromFile' \subseteq Addr
      BY DEF FromFile, Sounds
    <3>2. Made' \in Nat /\ InHand' \in Nat
      BY <3>1, FS_Subset, FS_CardinalityType, SoundAssumption DEF Made, InHand
    <3>. QED  BY <3>2, LoadsKeep
  <2>. QED  BY <1>3, <2>1, HeapTypes DEF Dispose, TypeOK
<1>4. CASE FinishClear
  BY <1>4, HeapTypes DEF FinishClear, Done, TypeOK
<1>5. CASE FinishMove
  BY <1>5, HeapTypes DEF FinishMove, Done, TypeOK, OpConsistent
<1>6. CASE InitFails
  <2>1. loads' \in Nat
    BY <1>6, Count DEF InitFails, Refused, InHand, TypeOK
  <2>. QED  BY <1>6, <2>1, HeapTypes DEF InitFails, Refused, Done, TypeOK
<1>7. ASSUME NEW a \in Addr, FinishInit(a) PROVE TypeOK'
  <2>1. /\ op \in Op /\ gpc # "ready" /\ op.do = "init"
        /\ op.reads \in Addr \cup File /\ op.h \in Handle
    BY <1>7 DEF FinishInit, Sourced, OpConsistent, TypeOK
  <2>2. [is |-> "sound", ready |-> TRUE, reads |-> op.reads, channels |-> op.channels,
         attached |-> op.attach, playing |-> FALSE] \in Block
    BY <2>1 DEF Op, Block
  <2>3. block' \in [Addr -> Block]
    BY <1>7, <2>2 DEF FinishInit, TypeOK
  <2>4. /\ served' \in [object : Addr \cup Source \cup {Null}, meant : Source \cup {Null}]
        /\ loads' \in Nat
    BY <1>7, <2>1, ServeTypes DEF FinishInit, TypeOK
  <2>. QED  BY <1>7, <2>1, <2>3, <2>4, HeapTypes DEF FinishInit, Done, TypeOK
<1>8. ASSUME NEW d \in Source, OnSource(d) PROVE TypeOK'
  BY <1>8, SourceTypes
<1>9. CASE UNCHANGED vars
  BY <1>9 DEF vars, TypeOK
<1>10. CASE Load
  BY <1>10 DEF Load, TypeOK
<1>. QED
  BY <1>1, <1>2, <1>3, <1>4, <1>5, <1>6, <1>7, <1>8, <1>9, <1>10 DEF Next, Quiet, Begins, OnSource

-----------------------------------------------------------------------------
(* The invariant holds at first ...                                        *)
LEMMA IInvInit == Init => IInv
<1>1. SUFFICES ASSUME Init PROVE IInv
  OBVIOUS
<1>2. TypeOK
  BY <1>1, HeapTypes DEF Init, TypeOK, NotServed
<1>3. \A a \in Addr : block[a] = Free /\ ~IsSound(a)
  BY <1>1 DEF Init, IsSound, Free, Fresh
<1>4. SoundInv
  BY <1>1, <1>3 DEF Init, SoundInv, HeldRight, HeldOnce, HeapHeld, Held, Wrapper, OpConsistent,
                    AudioReadsLive, SourcesOutliveSounds, Sounds, ChannelsNeverRefused
<1>5. LoadsFollowSounds
  <2>1. {a \in Sounds : block[a].reads \in File} = {}
    BY <1>3 DEF Sounds
  <2>2. loads = 0 /\ InHand = 0
    BY <1>1 DEF Init, InHand
  <2>. QED  BY <2>1, <2>2, FS_EmptySet DEF LoadsFollowSounds
<1>. QED  BY <1>2, <1>4, <1>5 DEF IInv

(* ... and every step of either thread keeps it.                           *)
LEMMA IInvStep == IInv /\ [Next]_vars => IInv'
<1>1. SUFFICES ASSUME TypeOK, SoundInv, LoadsFollowSounds, [Next]_vars PROVE SoundInv'
  BY TypeKeeps, LoadsKeep DEF IInv
<1>2. CASE UNCHANGED vars
  BY <1>1, <1>2 DEF vars, SoundInv, HeldRight, HeldOnce, HeapHeld, Held, OpConsistent,
                    AudioReadsLive, SourcesOutliveSounds, Sounds, IsSound, IsSource,
                    ChannelsNeverRefused
<1>3. CASE Quiet
  BY <1>1, <1>3, QuietKeeps
<1>4. CASE \E h \in Handle : Begins(h)
  BY <1>1, <1>4, BeginKeeps
<1>5. CASE \/ Dispose \/ FinishClear \/ FinishMove \/ Load \/ InitFails
           \/ \E a \in Addr : FinishInit(a)
  BY <1>1, <1>5, DisposeKeeps, ClearKeeps, MoveKeeps, LoadKeeps, InitFailsKeeps, InitKeeps
<1>6. CASE \E d \in Source : OnSource(d)
  BY <1>1, <1>6, SourceGoneKeeps, SourceInitKeeps DEF OnSource
<1>. QED
  BY <1>1, <1>2, <1>3, <1>4, <1>5, <1>6 DEF Next, Quiet, Begins, OnSource

-----------------------------------------------------------------------------
(* Theorems                                                                *)

(* The invariant holds throughout, whatever the two threads do.            *)
THEOREM Inductive == Spec => []IInv
  BY IInvInit, IInvStep, PTL DEF Spec

(* Every variable of the model stays in its set. *)
THEOREM TypeCorrect == Spec => []TypeOK
  BY Inductive, PTL DEF IInv

(* The audio thread never reads a sound that has been uninitialised.       *)
THEOREM AudioIsSafe == Spec => []AudioReadsLive
  BY Inductive, PTL DEF IInv, SoundInv

(* The base a sound reads stays alive and owned, wherever wrappers move.   *)
THEOREM SourcesStay == Spec => []SourcesOutliveSounds
  BY Inductive, PTL DEF IInv, SoundInv

(* As many files are loaded as there are sounds made from files.           *)
THEOREM LoadsAreBalanced == Spec => []LoadsFollowSounds
  BY Inductive, PTL DEF IInv

(* No sound is refused for the channels of its file.                       *)
THEOREM NeverRefused == Spec => []ChannelsNeverRefused
  BY Inductive, PTL DEF IInv, SoundInv

(* Between operations every block has exactly one wrapper, and no wrapper  *)
(* dangles.                                                                *)
THEOREM BlocksAreOwned == Spec => []Owned
<1>1. IInv => Owned
  <2>1. SUFFICES ASSUME IInv, Ready PROVE Owned
    BY DEF Owned
  <2>2. /\ TypeOK /\ HeldRight /\ HeldOnce /\ HeapHeld
        /\ \A w \in Wrapper : Held(w) <=> resource[w] # Null
    BY <2>1 DEF IInv, SoundInv, Ready, Held
  <2>3. ASSUME NEW a \in Addr, block[a] # Free
        PROVE  Cardinality({w \in DOMAIN resource : resource[w] = a}) = 1
    <3>1. PICK w \in Wrapper : Held(w) /\ resource[w] = a
      BY <2>1, <2>2, <2>3 DEF HeapHeld, Ready
    <3>2. {v \in DOMAIN resource : resource[v] = a} = {w}
      BY <2>2, <3>1 DEF HeldOnce, TypeOK, Wrapper
    <3>. QED  BY <3>2, FS_Singleton
  <2>. QED  BY <2>1, <2>2, <2>3 DEF Owned, HeldRight, Wrapper
<1>. QED  BY <1>1, Inductive, PTL

==============================================================================
