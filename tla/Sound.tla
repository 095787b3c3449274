-------------------------------- MODULE Sound --------------------------------
(***************************************************************************)
(* Sounds, the data sources and files they read, and the audio thread that *)
(* reads through both.  A Sound owns a heap ma_sound (CResource).  One made *)
(* from a file owns what it reads; one made from a DataSource<T> keeps the *)
(* pointer to the ma_data_source_base that the DataSource owns.            *)
(*                                                                         *)
(* One game thread drives all wrappers.  A Sound's destruct() waits, in    *)
(* ma_sound_uninit, for the audio thread, so the operations that begin     *)
(* with it take several steps (gpc, op); those of a DataSource wait for    *)
(* nothing.  What the game has to do by itself: a DataSource stays as long *)
(* as a sound reads it, the engine as long as there is a sound.            *)
(***************************************************************************)
EXTENDS Integers, FiniteSets

CONSTANTS Handle,   \* Sound wrappers
          Source,   \* DataSource<T> wrappers, and T's object inside each
          Addr,     \* heap blocks, for sounds and data source bases alike
          Null,
          File,     \* files the engine's VFS can read
          FileChannels,     \* [File -> Nat]
          EndpointChannels  \* of the engine's endpoint

ASSUME SoundAssumption ==
    /\ Handle \cap Source = {} /\ Addr \cap File = {} /\ Addr \cap Source = {}
    /\ Null \notin Addr \cup File \cup Handle \cup Source
    /\ IsFiniteSet(Addr)
    /\ FileChannels \in [File -> Nat] /\ EndpointChannels \in Nat

VARIABLES resource, \* [Handle \cup Source -> Addr \cup {Null}]
          block,    \* the heap
          engine,   \* GetMiniaudioEngine answers an initialised engine
          gpc, op,  \* what the game thread is in the middle of
          outcome,  \* how its last Sound Init ended
          reading,  \* the sound the audio thread is reading, or Null
          served,   \* the last call of a data source callback
          loads     \* resource manager data sources made for sounds

vars == <<resource, block, engine, gpc, op, outcome, reading, served, loads>>

Channels == {FileChannels[f] : f \in File} \cup {EndpointChannels}

(* ready: initialised; reads: the file, or the base of a data source.      *)
Block == [is : {"free", "sound", "source"}, ready : BOOLEAN,
          reads : Addr \cup File \cup {Null}, channels : Channels \cup {0},
          attached : BOOLEAN, playing : BOOLEAN]
Fresh(kind) == [is |-> kind, ready |-> FALSE, reads |-> Null, channels |-> 0,
                attached |-> FALSE, playing |-> FALSE]
Free == Fresh("free")

Op == [do : {"none", "clear", "move", "init"}, h : Handle \cup {Null},
       from : Handle \cup {Null}, at : Addr \cup {Null},
       reads : Addr \cup File \cup {Null}, channels : Channels \cup {0}, attach : BOOLEAN]
NoOp == [do |-> "none", h |-> Null, from |-> Null, at |-> Null, reads |-> Null,
         channels |-> 0, attach |-> FALSE]

NotServed == [object |-> Null, meant |-> Null]

TypeOK ==
    /\ resource \in [Handle \cup Source -> Addr \cup {Null}]
    /\ block \in [Addr -> Block]
    /\ engine \in BOOLEAN
    /\ gpc \in {"ready", "destruct", "destructed", "loaded"} /\ op \in Op
    /\ outcome \in {"none", "success", "failed", "mismatch"}
    /\ reading \in Addr \cup {Null}
    /\ served \in [object : Addr \cup Source \cup {Null}, meant : Source \cup {Null}]
    /\ loads \in Nat

Init == /\ resource = [w \in Handle \cup Source |-> Null]
        /\ block = [a \in Addr |-> Free]
        /\ engine = FALSE
        /\ gpc = "ready" /\ op = NoOp /\ outcome = "none"
        /\ reading = Null /\ served = NotServed /\ loads = 0

-----------------------------------------------------------------------------
Ready == gpc = "ready"
IsSound(a)  == block[a].is = "sound" /\ block[a].ready
IsSource(a) == block[a].is = "source" /\ block[a].ready
Sounds == {a \in Addr : IsSound(a)}

(* SourceRead, SourceSeek, SourceGetDataFormat and the rest cast the base  *)
(* they are called with to DataSourceType*; meant is the wrapper whose     *)
(* mInternalSource the base was made for.                                  *)
Callee(base) == base
Serve(base) ==
    served' = [object |-> Callee(base),
               meant |-> IF \E d \in Source : resource[d] = base
                         THEN CHOOSE d \in Source : resource[d] = base ELSE Null]

-----------------------------------------------------------------------------
(* Sound operations                                                        *)

(* They begin with destruct(); heap: with what `new' in the argument of    *)
(* reset() has made before it.                                             *)
Destruct(o, heap) ==
    /\ Ready
    /\ op' = o /\ block' = heap
    /\ gpc' = IF resource[o.h] = Null THEN "destructed" ELSE "destruct"
    /\ UNCHANGED <<resource, engine, outcome, reading, served, loads>>

Clear(h) == Destruct([NoOp EXCEPT !.do = "clear", !.h = h], block)

MoveAssign(g, h) ==
    g # h /\ Destruct([NoOp EXCEPT !.do = "move", !.h = g, !.from = h], block)

Request(h, at, reads, channels, attach) ==
    [NoOp EXCEPT !.do = "init", !.h = h, !.at = at, !.reads = reads,
                 !.channels = channels, !.attach = attach]

(* emplace(); attach unless flags has MA_SOUND_FLAG_NO_DEFAULT_ATTACHMENT. *)
InitFile(h, f, attach) ==
    engine /\ Destruct(Request(h, Null, f, EndpointChannels, attach), block)

(* reset(new ma_sound()). *)
ResetToNew(h, a, reads, channels, attach) ==
    /\ engine /\ block[a] = Free
    /\ Destruct(Request(h, a, reads, channels, attach),
                [block EXCEPT ![a] = Fresh("sound")])

(* Mutant: the caller's flags as they are. *)
InitSourceChannelsAttached(h, a, f, attach) == ResetToNew(h, a, f, FileChannels[f], attach)

(* bUseSourceChannelCount: not attached, whatever the flags. *)
InitSourceChannels(h, a, f, attach) == ResetToNew(h, a, f, FileChannels[f], FALSE)

InitFromDataSource(h, a, d, attach) ==
    /\ resource[d] # Null
    /\ ResetToNew(h, a, resource[d], EndpointChannels, attach)

-----------------------------------------------------------------------------
Victim == resource[op.h]
LoadedBy(b) == IF b.ready /\ b.reads \in File THEN 1 ELSE 0

(* Mutant: a deletion that does not go through ma_sound_uninit. *)
DisposeRaw ==
    /\ gpc = "destruct" /\ reading # Victim
    /\ block' = [block EXCEPT ![Victim] = Free]
    /\ gpc' = "destructed"
    /\ UNCHANGED <<resource, engine, op, outcome, reading, served, loads>>

(* Mutant: a deletion that does not wait. *)
DisposeAtOnce ==
    /\ gpc = "destruct"
    /\ loads' = loads - LoadedBy(block[Victim])
    /\ block' = [block EXCEPT ![Victim] = Free]
    /\ gpc' = "destructed"
    /\ UNCHANGED <<resource, engine, op, outcome, reading, served>>

(* Mutant: every sound gives back what it reads. *)
DisposeAny ==
    /\ gpc = "destruct" /\ reading # Victim
    /\ loads' = loads - 1
    /\ block' = [block EXCEPT ![Victim] = Free]
    /\ gpc' = "destructed"
    /\ UNCHANGED <<resource, engine, op, outcome, reading, served>>

(* ma_sound_uninit leaves the graph, waits for the audio thread and gives  *)
(* back the file it has had loaded; then `delete'.                         *)
Dispose ==
    /\ gpc = "destruct" /\ reading # Victim
    /\ loads' = loads - LoadedBy(block[Victim])
    /\ block' = [block EXCEPT ![Victim] = Free]
    /\ gpc' = "destructed"
    /\ UNCHANGED <<resource, engine, op, outcome, reading, served>>

Done == gpc' = "ready" /\ op' = NoOp

FinishClear ==
    /\ gpc = "destructed" /\ op.do = "clear"
    /\ resource' = [resource EXCEPT ![op.h] = Null]
    /\ Done /\ UNCHANGED <<block, engine, outcome, reading, served, loads>>

FinishMove ==
    /\ gpc = "destructed" /\ op.do = "move"
    /\ resource' = [resource EXCEPT ![op.h] = resource[op.from], ![op.from] = Null]
    /\ Done /\ UNCHANGED <<block, engine, outcome, reading, served, loads>>

(* The library has a file loaded before it initialises the sound.          *)
Load ==
    /\ gpc = "destructed" /\ op.do = "init" /\ op.reads \in File
    /\ loads' = loads + 1
    /\ gpc' = "loaded"
    /\ UNCHANGED <<resource, block, engine, op, outcome, reading, served>>

(* There is something for the sound to read: the file that was loaded, or  *)
(* a base.                                                                 *)
Sourced == /\ op.do = "init"
           /\ gpc = IF op.reads \in File THEN "loaded" ELSE "destructed"

(* The library attaches a sound only where the channel counts agree.       *)
Mismatch == op.attach /\ op.channels # EndpointChannels

(* It takes a base only if ma_data_source_init has been through with it.   *)
FinishInit(a) ==
    /\ Sourced /\ ~Mismatch
    /\ IF op.at = Null THEN block[a] = Free ELSE a = op.at
    /\ block' = [block EXCEPT ![a] = [is |-> "sound", ready |-> TRUE, reads |-> op.reads,
                                      channels |-> op.channels, attached |-> op.attach,
                                      playing |-> FALSE]]
    /\ resource' = [resource EXCEPT ![op.h] = a]
    /\ IF op.reads \in File THEN UNCHANGED served ELSE IsSource(op.reads) /\ Serve(op.reads)
    /\ outcome' = "success"
    /\ Done /\ UNCHANGED <<engine, reading, loads>>

(* The file does not load, or the sound fails after it has: the library    *)
(* gives it back.                                                          *)
Refused ==
    /\ gpc \in {"destructed", "loaded"} /\ op.do = "init"
    /\ loads' = IF gpc = "loaded" THEN loads - 1 ELSE loads
    /\ outcome' = IF Mismatch THEN "mismatch" ELSE "failed"
    /\ Done /\ UNCHANGED <<engine, reading, served>>

(* Mutant: the wrapper keeps the sound that was not initialised. *)
InitFailsHeld ==
    /\ Refused /\ resource' = [resource EXCEPT ![op.h] = op.at] /\ UNCHANGED block

(* release() and delete. *)
InitFails ==
    /\ Refused
    /\ block' = IF op.at = Null THEN block ELSE [block EXCEPT ![op.at] = Free]
    /\ resource' = [resource EXCEPT ![op.h] = Null]

-----------------------------------------------------------------------------
(* The forwarders: nothing on an empty wrapper.                            *)
OnSound(h) == Ready /\ resource[h] # Null

SetPlaying(h, playing) ==
    /\ OnSound(h)
    /\ block' = [block EXCEPT ![resource[h]].playing = playing]
    /\ UNCHANGED <<resource, engine, gpc, op, outcome, reading, served, loads>>

(* GetLengthInFrames, GetCursorInFrames, SetLooping and those in seconds   *)
(* ask the data source, on the game's thread.                              *)
AskSource(h) ==
    /\ OnSound(h) /\ block[resource[h]].reads \in Addr
    /\ Serve(block[resource[h]].reads)
    /\ UNCHANGED <<resource, block, engine, gpc, op, outcome, reading, loads>>

(* The user handles the attachment of a sound made without. *)
AttachToEndpoint(h) ==
    /\ OnSound(h) /\ block[resource[h]].channels = EndpointChannels
    /\ block' = [block EXCEPT ![resource[h]].attached = TRUE]
    /\ UNCHANGED <<resource, engine, gpc, op, outcome, reading, served, loads>>

-----------------------------------------------------------------------------
(* DataSource<T> operations.  The game's part: no sound reads the base.    *)
Unused(d) == Ready /\ \A a \in Sounds : block[a].reads # resource[d]

Destructed(d) == [a \in Addr |-> IF a = resource[d] THEN Free ELSE block[a]]

(* Init: emplace(), whose failure leaves the base where it is.             *)
SourceInit(d, a, ready) ==
    /\ Unused(d) /\ Destructed(d)[a] = Free
    /\ block' = [Destructed(d) EXCEPT ![a] = [Fresh("source") EXCEPT !.ready = ready]]
    /\ resource' = [resource EXCEPT ![d] = a]
    /\ UNCHANGED <<engine, gpc, op, outcome, reading, served, loads>>

SourceClear(d) ==
    /\ Unused(d)
    /\ block' = Destructed(d)
    /\ resource' = [resource EXCEPT ![d] = Null]
    /\ UNCHANGED <<engine, gpc, op, outcome, reading, served, loads>>

(* Mutant: a move that takes the pointer before destruct(). *)
SourceMoveFirst(d, e) ==
    /\ Unused(d) /\ d # e
    /\ block' = Destructed(e)
    /\ resource' = [resource EXCEPT ![d] = resource[e], ![e] = Null]
    /\ UNCHANGED <<engine, gpc, op, outcome, reading, served, loads>>

(* Only the target's base goes: a sound may be reading the one that moves. *)
SourceMove(d, e) ==
    /\ Unused(d) /\ d # e
    /\ block' = Destructed(d)
    /\ resource' = [resource EXCEPT ![d] = resource[e], ![e] = Null]
    /\ UNCHANGED <<engine, gpc, op, outcome, reading, served, loads>>

-----------------------------------------------------------------------------
EngineInit == /\ Ready /\ ~engine /\ engine' = TRUE
              /\ UNCHANGED <<resource, block, gpc, op, outcome, reading, served, loads>>

EngineReset == /\ Ready /\ engine /\ engine' = FALSE
               /\ \A h \in Handle : resource[h] = Null
               /\ UNCHANGED <<resource, block, gpc, op, outcome, reading, served, loads>>

(* The audio thread reads the sounds that play one after the other.        *)
AudioBegin(a) ==
    /\ engine /\ reading = Null
    /\ IsSound(a) /\ block[a].attached /\ block[a].playing
    /\ reading' = a
    /\ UNCHANGED <<resource, block, engine, gpc, op, outcome, served, loads>>

SourceRead ==
    /\ reading # Null /\ block[reading].reads \in Addr
    /\ Serve(block[reading].reads)
    /\ UNCHANGED <<resource, block, engine, gpc, op, outcome, reading, loads>>

(* A sound that does not loop stops at its end. *)
AudioEnd(playing) ==
    /\ reading # Null /\ reading' = Null
    /\ block' = [block EXCEPT ![reading].playing = @ /\ playing]
    /\ UNCHANGED <<resource, engine, gpc, op, outcome, served, loads>>

Next ==
    \/ \E h \in Handle :
          \/ Clear(h) \/ AskSource(h) \/ AttachToEndpoint(h)
          \/ \E p \in BOOLEAN : SetPlaying(h, p)
          \/ \E g \in Handle : MoveAssign(g, h)
          \/ \E attach \in BOOLEAN :
                \/ \E f \in File : \/ InitFile(h, f, attach)
                                   \/ \E a \in Addr : InitSourceChannels(h, a, f, attach)
                \/ \E a \in Addr, d \in Source : InitFromDataSource(h, a, d, attach)
    \/ Dispose \/ FinishClear \/ FinishMove \/ Load \/ InitFails
    \/ \E a \in Addr : FinishInit(a)
    \/ \E d \in Source :
          \/ \E a \in Addr, ready \in BOOLEAN : SourceInit(d, a, ready)
          \/ SourceClear(d)
          \/ \E e \in Source : SourceMove(d, e)
    \/ EngineInit \/ EngineReset
    \/ \E a \in Addr : AudioBegin(a)
    \/ SourceRead
    \/ \E p \in BOOLEAN : AudioEnd(p)

Spec == Init /\ [][Next]_vars

-----------------------------------------------------------------------------
(* PROPERTIES                                                              *)

(* The sound the audio thread is reading is initialised until it is done:  *)
(* re-initialising it, moving another one over it or destroying it waits.  *)
AudioReadsLive == reading # Null => IsSound(reading)

(* The base that a sound reads is initialised and owned by a DataSource,   *)
(* through moves of the wrappers on either side and the reuse of blocks:   *)
(* it is on the heap so that it need not move when the DataSource does.    *)
SourcesOutliveSounds ==
    \A a \in Sounds : block[a].reads \in Addr =>
        /\ IsSource(block[a].reads)
        /\ \E d \in Source : resource[d] = block[a].reads

(* The file that an Init has had loaded and has made no sound of yet.      *)
InHand == IF gpc = "loaded" THEN 1 ELSE 0

(* The resource manager serves as many files as there are sounds made from *)
(* files: no path out of an Init, and no order of moves and destructions,  *)
(* leaves one loaded or unloads one twice.                                 *)
LoadsFollowSounds == loads = Cardinality({a \in Sounds : block[a].reads \in File}) + InHand

(* Between operations each wrapper holds an initialised sound or nothing,  *)
(* and every block has exactly one wrapper.                                *)
Owned ==
    Ready => /\ \A h \in Handle : resource[h] # Null => IsSound(resource[h])
             /\ \A a \in Addr : block[a] # Free =>
                    Cardinality({w \in DOMAIN resource : resource[w] = a}) = 1

(* No sound is refused for the channels of its file: "miniaudio won't      *)
(* initialize the sound if the channel count requested doesn't match the   *)
(* default attachment" (MiniaudioWrappers.cpp:262), so those that ask for  *)
(* their own channels are never attached by Init.                          *)
ChannelsNeverRefused == outcome # "mismatch"

(* A data source callback works on the user's object inside the DataSource *)
(* that owns the base it is called with.                                   *)
ServedBySource == served.object \in {served.meant, Null}
==============================================================================
