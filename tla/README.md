# MiniaudioCpp in TLA+

MiniaudioCpp wraps the C library miniaudio in C++20: owning handles for C
objects, node wrappers with typed buses, an engine and sounds, data sources,
and a virtual file system. Its own logic is about *life time* and *order*: which
handle frees which block, what the audio thread may still be reading when a
node goes, which members must follow a node when it changes hands, and what a
stream answers at its end. This directory models that logic, model-checks it
with TLC and proves its safety with TLAPS. miniaudio itself
(`ma_*`) is not part of the repository's logic: it appears only as far as the
wrappers rely on it, and those definitions are marked external.

Paths below are relative to the repository root; `W.h` and `W.cpp` stand for
`MiniaudioCpp/include/MiniaudioCpp/MiniaudioWrappers.h` and
`MiniaudioCpp/src/MiniAudioInterface/MiniaudioWrappers.cpp`.

## 1. Inventory

| Component | State | Operations | Interacts with |
|---|---|---|---|
| **CResource** (`CResource.h`) | one pointer, `resource_` | adopt, move, `clear`, `reset`, `release`, `swap`, `emplace`, destructor | heap; `InitFunction`/`UninitFunction` of miniaudio |
| **C bindings, uninit wrapper** (`C_ResourceHandling.h`) | none (allocation callbacks are global) | template list of `ma_*` init/uninit pairs; adapter that adds the allocation callbacks | CResource |
| **Topology and Buses** (`NodeTraits.h`) | `Bus`: a bare node pointer and an index | `InBus`/`OutBus`, `GetNumChannels`, `CanAttachTo`, `AttachTo`, volume | `ma_node_*`; the edges are miniaudio's |
| **Node wrappers** (`W.h`, `W.cpp`: `TBaseNode`, `SplitterNode`, `EngineNode`) | a CResource | `Init` with failure paths, start/stop, destruction | engine, audio thread |
| **Filter nodes** (`W.cpp`: `LPFNode`, `HPFNode`) | a CResource, `mOrder`, `mCutoffFrequency` | `Init`, `SetCutoffFrequency`, getters | `ma_lpf_node_reinit`, audio thread |
| **Engine and logging** (`W.cpp`) | a CResource; one global `ma_log` | `Init`, `GetEndpointBus`, getters | every node; the device's audio thread |
| **Sound** (`W.cpp`) | a CResource | three `Init`s, seek, volume, pitch, spatialisation | engine, data source, VFS |
| **Process callback data** (`W.h`) | spans over miniaudio's frame buffers | `GetInputBuffer`, `GetOutputBuffer`, silence | audio thread |
| **Data source wrapper** (`W.h`) | a CResource of `ma_data_source_base` | static callbacks to a user type | audio thread |
| **VFS** (`VFS.h`, stream readers) | per open file: reader, `FileSize` (two answers of the client) | open, close, read, seek, tell, info | miniaudio's resource manager, `std::istream` |
| **Tracking allocator** (the test program's `main.cpp`) | a count of bytes, a size prefix in each block | allocate, reallocate, free callbacks | miniaudio on any thread; the uninit wrapper |
| **Errors and assertions, platform, build** | handler pointers | macros | everything |

What is hard in it, and what makes each component correct:

* **Two threads, no locks.** The game thread drives every wrapper and miniaudio's
  device thread walks the node graph at the same time. The only synchronisation
  is inside `ma_node_uninit`, `ma_node_attach_output_bus` and `ma_engine_uninit`.
  Correct means: whatever the audio thread is reading is alive, edges describe
  buses that exist, and calls that wait for the audio thread return.
* **Pointers that dangle for a moment.** `CResource::destruct()` deletes and
  leaves `resource_` as it was; each caller must overwrite it before its
  operation ends. `emplace` has two points (`new`, `InitFunction`) at which it
  may fail. Correct means: one owner for each block, no owner of a freed block,
  no block without an owner, and `Uninit` before `delete` for what was
  initialised.
* **Bare pointers in Buses** outlive their node, and the allocator reuses
  addresses. Correct means: an edge never joins buses of different channel
  counts or buses that do not exist, whatever node the address belongs to now.
* **Members beside the handle.** The filter wrappers copy what the node was made
  with. Correct means: wrapper and node agree for as long as the wrapper holds it.
* **Arithmetic at the ends.** `FileSize - position` in `size_t`, `tellg` answering
  -1, frame counts in and out that differ, a size stored as an `int`. Correct
  means: a plain file, no sample outside its buffer, an exact count.
* **Callbacks that change.** Allocation callbacks are a global, read when a node is made
  and again when it goes; every `Engine::Init` copies them into the one log. Correct
  means: a block goes back the way it came.
* **Objects that read other objects.** A sound reads a data source it does not
  own, through moves of the wrappers on either side. Correct means: what it
  reads is alive and is the right object.

`PROJECT.json` lists each of these at its line under `hazards`.

## 2. Modules

| Module | Models | Uses |
|---|---|---|
| `CResource` | the handle, the heap, clients of `release()` | |
| `Ownership` | abstract: the life of a heap block | |
| `CResourceOwnership` | the refinement mapping between the two | both |
| `NodeGraph`, `MCNodeGraph` | node wrappers, Buses, engine, audio thread | |
| `FilterNode` | `LPFNode`, `HPFNode` and what they inherit from CResource | |
| `VFS`, `MCVFS` | the VFS callbacks over an `std::istream` reader | |
| `ByteFile` | abstract: what miniaudio expects of an open file | `VFS` instantiates it |
| `ProcessCallback`, `MCProcessCallback` | `sProcess` and `ProcessCallbackData`: frame buffers inside a node's Process | |
| `Sound`, `MCSound` | sounds, `DataSource<T>`, loaded files, audio thread | |
| `Allocator`, `MCAllocator` | the tracking callbacks on several threads, and which callbacks are used when | |
| `CResourceProofs`, `CResourceOwnershipProofs`, `NodeGraphProofs`, `FilterNodeProofs`, `VFSProofs`, `ProcessCallbackProofs`, `SoundProofs`, `AllocatorProofs` | theorems (section 4) | the module of the name |

### CResource

`resource[h]` is `resource_` of the handle in storage `h`, `block[a]` the state of
a heap block (`free`, `raw` after `new T()`, `live` after a successful
`InitFunction`), `client` the blocks held as raw pointers by callers of
`release()` or of plain `new`. An operation that cannot fail half-way is one
action: construction by adoption or move, move assignment, destructor, `clear`
(and `= nullptr`), `reset`, `release`, `swap`. `emplace` is four: `EmplaceDestruct`,
`EmplaceNew` or `EmplaceThrow`, `InitOk` or `InitError`; `pc[h]` records how far it
got, and `DropFailed` is the wrappers' common answer to an error,
`if (!JPL_ENSURE(!result)) delete release();`. `InitHeld` is `Sound::Init`, which
adopts a fresh block and initialises it in place. Handles share nothing
but the heap, so the steps of one emplace may interleave with operations on the
others.

A client adopts and deletes only pointers it owns, and after moving a block
that a client had not initialised, destruction calls `Uninit` on a raw block: the
code does so (the test suite adopts a bare `ma_engine`), and whether it is
harmless is miniaudio's affair.

`Ownership` states the contract pointwise: each step takes every block through
one of `Keep`, `Allocate`, `Initialise`, `Transfer`, `Dispose`. The owner of a
block is computed (`OwnerOf`) from the handles and the clients. `intact` is the
one escape clause: it becomes false when `operator new` throws inside an emplace
(see the findings).

### NodeGraph

A wrapper owns a node (`resource`), a node has a layout (the channels of its
input and output buses), `edges` are attached output buses, `engine` is the
engine's life. A call of the game thread that waits takes several steps, kept in
`gpc` and `op`:

    destruct():      Destruct -> DetachOutput* -> DetachInputs -> Delete
    clear / move:    destruct(), FinishClear / FinishMove
    Init:            destruct(), Construct / ConstructFails
    AttachTo:        AttachTo (leave the old edge) -> FinishAttach (wait, join)
    engine down:     EngineStop -> EngineGone

The audio thread is a stack of read calls: `AudioBegin` enters the
endpoint, `AudioPull` follows an edge, `AudioReturn` ends a read, at any point
(a node need not read all its inputs). `Draining` are the edges that have been
taken off but are still being read through: what `ma_node_uninit` and
`ma_node_attach_output_bus` wait for. `AudioSafe` is thus not assumed: it follows
from the order of `destruct()` (Uninit, then delete), and fails when that order
is broken.

What the game is assumed to do, each because the code leaves it to the caller:
one game thread; a `Bus` is used only while *some* node lives at its address
(not necessarily the one it was taken from); attachments close no cycle
(nothing looks for one; the audio thread would read round it for ever); the
engine goes down after its nodes.

### FilterNode

`mOrder` and `mCutoffFrequency` next to the node's own order and cutoff. Init
(order clamped to 1..`MA_MAX_FILTER_ORDER`; `LPFNode` looks at the channel count
first, `HPFNode` leaves that to miniaudio), failed Init, `SetCutoffFrequency`
(`ma_lpf_node_reinit` refuses to change the order), the implicit moves,
`std::swap`, and the interface inherited from CResource: `clear`, `swap`,
`release`/`reset`. The last three do not know the members; `bypassed` records
that one of them has moved a node between wrappers.

### VFS

One open file with its stream position and failbit, all numbers being words of
width w (`Words` = 2^w) and the subtraction in `Read` modulo 2^w. The reader is
the one the test suite uses, over a memory stream (which refuses a position
past its end) or a file stream (which does not). `file.size` is what `onGetFileSize`
answered, `file.length` what the reader's stream holds: two callbacks of the client's
answer them, and they may differ (the suite's `fakeFileSize` is such an answer). The
failbit is never cleared by a callback, so a refused position stays with the file until
it is closed. `strayed` records that a seek has left the file, or that the two lengths
differ.
`reply` is what the last callback answered, with the bytes it really delivered.
`ByteFile` is a file in plain integers: a seek lands at base + offset, a read
delivers what is left and says when it was short.

### ProcessCallback

One call of `sProcess` at a time. `call` holds its arguments, `output` the memory
at `ppFramesOut`, in samples, one stretch per bus that goes on past the end of the
buffer (`Beyond`), so that an overrun can be seen. A sample is a token that says
where it came from: stale, silence, the node's own, sample `i` of input bus `b`.
Process does any sequence of what the class offers: `FillOutputBusWithSilence`,
`FillOutputWithSilence`, `CopyInputsToOutputs`, or writing the span of
`GetOutputBuffer`. `Legal` is what miniaudio calls a node with: a node without
inputs gets none (and the copy's loop runs zero times), a passthrough node one buffer
for both, only a node with `MA_NODE_FLAG_DIFFERENT_PROCESSING_RATES` more frames in
than out.
`GetOutputBuffer` takes its length from the *input's* frame count, as the code
does; the properties say how far one gets with that.

### Sound

`resource` covers the wrappers of both kinds, `block` the heap blocks of both, so
that an address can come back as the other kind. An operation of a `Sound` starts
with `destruct()`, which waits in `ma_sound_uninit` for the audio thread:

    clear / move:         Destruct -> Dispose -> FinishClear / FinishMove
    Init (file):          Destruct -> Dispose -> Load -> FinishInit / InitFails
    Init (own channels),
    InitFromDataSource:   the same, with the block of reset(new ma_sound());
                          nothing to Load for a data source

`Dispose` is enabled only while the audio thread reads another sound; the mutant
without that guard and the one without `ma_sound_uninit` show what it is for.
`loads` counts what the resource manager has loaded for sounds: `Load` adds one, and
`InitFails`, which may come before it or after, gives back what there is. `served` is the
last data source callback: the object its cast produces and the one the base was
made for.

The game keeps a DataSource as long as a sound reads it, and the engine as long as
there is a sound. It may *move* both wrappers at any time, which is why the base is
on the heap. `DataSource` operations wait for nothing.

### Allocator

A callback is as many steps as it has accesses to the heap, to the atomic count
and to the size prefix; `running` says where each thread is. A block in `memory` is
`free`, in a `callback`'s hands, its `user`'s, or `lost` (below); it has the `user` it was
asked for (a node, the log, an engine), the callbacks that were its `maker`, and the int
in its prefix, `box`. `used`, and the sum of size and prefix in `Malloc`, are modulo 2^w
of `size_t`, the prefix a signed int of its own width.

Which callbacks serve whom: nodes get the global `callbacks` at Init and, through
`impl::uninit`, whatever the global points to by then; log messages those that the last
`Engine::Init` copied (`LogInit`, any number of times: the suite initialises further
engines while one is up, `MiniaudioWrappersTest.cpp:513-557`); the engine and what it
makes the null ones of `Engine::Init`, for `ma_engine_uninit` takes none. Null or
default callbacks are one step (`Take`, `Return`).

The client may change the global at any time (`SetCallbacks` has no guard), a size need
not fit an `int`, and one may be so large, or a reallocated block so small, that the block
has no room for its prefix. The code bears none of these, and `spoilt` records that one
has happened:

* `wide`: a size above the largest int. The count is off from then on, by a multiple of
  what the int wraps round at.
* `cut`: a block shorter than its prefix. The prefix reads as any of `Garbage`.
* `changed`: other callbacks under a user that has a block. A block without a prefix that
  comes to a tracking callback is read as if it had one (`Handed`), and a pointer
  that is not the heap's frees the block or leaves it `lost` (`HeapFree`).

Sizes are at least one byte; no caller asks for none.

## 3. Runs

| Run | Question | Answer |
|---|---|---|
| `cresource` | Does each block have exactly one owner until it is freed, through every operation of three handles? Does CResource implement `Ownership`? | yes |
| `cresource_throw` | And when `operator new` throws inside emplace? | no (finding 1) |
| `nodegraph` | May nodes be re-attached, re-initialised, moved and destroyed at any point of an audio callback? Do the waiting calls return? | yes |
| `filternode` | Do the members agree with the node, unless it was moved by CResource's own interface? | yes |
| `filternode_swap` | And when it was? | no (finding 2) |
| `vfs` | Is the buffer never overrun, and is a session that seeks inside the file a plain file? | yes |
| `vfs_seek_past_end` | Does a short read always say so? | no (finding 3) |
| `process` | Does anything a Process does leave its buffers? Are copies faithful, and is silence whole when the frame counts agree? | yes, unless the node resamples |
| `process_source` | And is it whole for a node without inputs? | no (finding 4) |
| `sound` | Is everything the audio thread reads alive, every file given back once, and no sound refused for its channels? | yes |
| `sound_datasource` | Do the callbacks of a DataSource get the user's object? | no (finding 5) |
| `allocator` | Is the count exact at every step of two threads, and do blocks go back the way they came? | yes, for sizes that fit an `int` (else up to a multiple of its range), until callbacks change under a living block (finding 6) |

Every property has a mutant: a variant of an operation with a plausible bug
(a move that copies, a `clear` that keeps the pointer, a test of `result` turned
round, a detach that waits first) under which TLC finds the property violated.
Mutants stand just before the operation they vary.

**Bounds.** No module caps a counter; every state space is finite by its
constants. For safety the proofs of section 4 remove the bounds.

* `CResource`: 3 handles, 3 blocks. An action touches at most two handles and
  three blocks; the third handle is an emplace in the middle of which the other two
  move or swap, and a third block is one the allocator can hand out
  meanwhile. The violation needs 2 and 2. No deadlock: a handle can always be
  destroyed, also after a throw.
* `NodeGraph`: 2 wrappers (one derived from `TBaseNode`, one built-in), 2 blocks
  and the endpoint, so an address can be reused by a node of another layout and
  an edge can lead node to node to endpoint. The two layouts
  (`Splitter`: mono to two mono buses; `Downmix`: stereo to mono) and a mono
  endpoint with two buses of its own make all cases: equal and different
  counts, missing buses, two attached outputs. Bus indices 0..2, 2 never being
  a bus. The audio thread's stack is at most the longest path, for the game closes no
  cycle.
* `FilterNode`: two wrappers of one type and one of the other, two blocks, two
  cutoffs, orders 0, 2 and 9 (below, inside and above the range).
* `VFS`: sizes 0, 1, 3; reads of 0, 1, 2, 4 bytes; offsets -4..4; words of 4
  bits. All sizes and reads are far below half a word, as in reality, and the
  offsets reach past both ends and past -1.
* `ProcessCallback`: 0 to 2 frames of one or two channels, and six nodes: no
  inputs; more outputs than inputs with unequal channels both ways; more inputs than
  outputs; null input; in place; resampling. Two frames of two channels tell a copy
  of frames from one of samples. `Extent` 4 is one sample more than the indices of the
  largest buffer, so an overrun shows. `process_source` has the first node only.
* `Sound`: two sounds, two data sources, four blocks, so that all wrappers may be full;
  a mono and a stereo file at a stereo endpoint. Blocks are interchangeable (symmetry;
  the run has no liveness). `sound_datasource` needs one of each.
* `Allocator`: two threads and two blocks, so that a block freed by one thread can be the
  other's while a callback of the first still runs. An `int` of 3 bits and a `size_t` of 4:
  size 2 fits both, 14 is wide, and wraps round in the sum with the prefix of 3 bytes, 1
  is less than the 2 bytes of the int once `ma_realloc` leaves the prefix out. What a
  missing prefix reads as matters to no property, so one value is enough. Blocks and
  threads are interchangeable.

**Fairness** (only `NodeGraph` has liveness). `WF(Continue)`: the game thread goes
on with a call it has made. `WF(AudioStep)`: a device callback runs to its end.
Both are weak: a thread that can go on does. Starting a call or a callback is not
fair: a game need not call, a device need not fire. `CallsReturn` still has to
cope with a device that fires again and again: once an output bus is off its
edge, new reads cannot enter it.

The runs that find a violation check invariants, so their counterexamples need
no fairness.

## 4. Proofs

Every invariant and action property of a passing run is also a theorem, for any
constants that satisfy the module's assumption, and so are both refinements. All
follow one scheme. `IInv` is `TypeOK` and an inductive invariant in named parts;
each way of changing the state has a lemma `...Keeps` that preserves it; `IInvInit`,
`IInvStep` and `Inductive` put them together; a theorem per property follows. TLC has
checked every `IInv` on the bounds of section 3.

**Assumptions.** Constants are sets of any size; `Null` and the engine's endpoint
are no blocks. `FilterNode`: the two types of wrapper are disjoint, cutoffs are not
0. `VFS`: `Words` is even and not 0, file sizes and requests are below half of it
(as in reality), offsets are what an `ma_int64` holds; `FileSize` and the stream's
length are independent. `ProcessCallback`: frame counts are naturals, buses have
channels, a passthrough node has one bus either way with equal channels (the library
accepts no other). `Sound`: the heap is finite. `Allocator`: what an `int` wraps round at
divides what `size_t` does and is even, the int fits into the prefix, sizes are at least
1, and a thread is not a block.

### CResource, Ownership

`TypeOK`, `SingleOwner`, `ValidOwner`, `NothingLost`, `UninitBeforeFree` and
`ImplementsOwnership`. The invariants are not inductive one by one: to know that a
freed block has no other owner one needs `UniqueOwner`, to know that a new block has
none `NoDangling`, and both need to know what a handle inside emplace holds.
`PcConsistent` says that: `made` and `failed` handles hold a raw block, an `unborn`
one holds nothing. All of it ends with a throw:

    IInv == TypeOK /\ (~thrown => PcConsistent /\ UniqueOwner /\ NoDangling /\ NoLeak)

The operations have five shapes, and each shape is one lemma: a handle disposes of
its block and takes another pointer or none (`DisposeStep`), a block moves between
handles (`MoveStep`, `SwapStep`), is allocated (`AllocateStep`), initialised
(`InitStep`), freed after a failed Init (`DropStep`), passed to the client or freed
by it (`ReleaseStep`, `ClientDeleteStep`). `OwnedStep` maps each action to its shape.

For the refinement: under `IInv` the `CHOOSE` in `OwnerOf` has at most one candidate,
and every action takes every block through one step of its life cycle; a step
after, or by, a throw is the escape clause.

### NodeGraph

`TypeOK`, `GraphSound`, `ChannelsAgree`, `AudioSafe`, `Owned`, `CanAttachIsExact`,
for any layouts and any depth of the audio thread's stack.

* `Owned` is about states between operations. `OwnedSoFar` says it of all states,
  leaving out the one pointer that dangles between `delete` and the assignment after it.
* `EdgesFit`: an edge has passed `ma_node_attach_output_bus`. It carries
  `GraphSound` and `ChannelsAgree`, and needs `OpConsistent`: the edge that an
  attachment is about to make still fits, because its nodes cannot change meanwhile.
* `AudioSafe` needs `VictimUnused`: when `ma_node_uninit` has returned, no edge and
  no frame of the stack names the node. `EngineLast` says the same of the endpoint.

### FilterNode

`TypeOK` and `MembersInSync`. In sync is not inductive alone: two wrappers of one
node would part at the next cutoff, and an Init might be given a block that a wrapper
still holds. `HeldOnce` and `HeldLive` exclude this, and survive the swaps that
bypass the members. `ReinitSucceedsUntilBypassed` is the other half of finding 2: the
assertion in `SetCutoffFrequency` holds until a node has been handed on that way.

### VFS, ByteFile

`TypeOK`, `NoOverrun`, `ImplementsByteFile` for every width. `ToWordType`,
`ToWordSame` and `ToWordNegative` are the facts about the conversion to `size_t`.
The invariant is `InsideFile`: until the session has strayed `FileSize` is the length, the
stream has not failed and the cursor is in the file, so that no subtraction wraps.
`NoOverrun` holds whatever the lengths and seeks.
`SeekInside` is the heart of the refinement: a position computed modulo 2^w
that is inside the file is the one that was asked for, since half a word lies between
a negative one and any file. `ShortReadsAreTold` is the other half of finding 3.

### ProcessCallback

`TypeOK`, `InsideBuffers`, `SilenceWhenCountsAgree`, `CopyFaithful`, for all frame
and channel counts. `CopyFits` and `SpanFits` bound the products the `memcpy` and the
spans are computed with. The invariant adds `CallLegal` (the library's promise about
frame counts lasts through the call) and `InPlaceFresh` (a node in place has its input
under its output until it writes).

### Sound

`TypeOK`, `AudioReadsLive`, `SourcesOutliveSounds`, `LoadsFollowSounds`,
`ChannelsNeverRefused`, `Owned`. `HeldRight`, `HeldOnce` and `HeapHeld` are `Owned` at
every step, the dangling pointer left out; `HeapHeld` also accounts for the `ma_sound`
that `reset(new ma_sound())` has made and not yet taken. `OpConsistent` is what the game
thread knows between `Destruct` and the end of its operation: its own block is untouched
and the data source it was given still has a wrapper. `LoadsFollowSounds` compares a
counter with a cardinality, hence the finite heap; `InHand` is the file that an Init has
had loaded and has made no sound of, which the failing path must give back.

### Allocator

`TypeOK`, `OneThreadPerBlock`, `Accounted`, and the action property `FreedByMaker`, for
any number of threads and blocks. `MakersKnown` carries `FreedByMaker`: until callbacks have
changed under a user, its blocks were made by the callbacks it has now, and only a block of
tracking ones is in a callback's hands. `SetCallbacks` and `LogInit` preserve it because
they either concern a user without blocks or set `changed`.

`Accounted` states the count as the cardinality of a set, one pair for each byte of a
prefix or in a thread's hands, so that its proof needs no induction: a step adds or removes
the bytes of one thread (`BytesChange`) or hands them on (`BytesMove`). It has two parts,
modulo `Words` until anything has gone wrong and modulo `IntWords` after sizes that are
too wide, and both are one argument about congruence for a modulus `m` (`Kept(m)`,
`KeptStep`): `ModStep`, `ModDiff`, `ModShift` and `ModTwice` are the arithmetic, and
`ToIntMod` is what the cast `(int)sz` keeps. The invariant `CountInv` needs all of `IInv`: a
prefix read without synchronisation is exact only because no two threads have one block.
`CountReturnsToZero` follows: when no user has a block that the tracking callbacks made,
the count is zero, or a multiple of an int's range once a size was too wide. After a `cut`
or a `changed` only `TypeOK` and `OneThreadPerBlock` are claimed.

### Only model-checked

* `CallsReturn`: liveness under fairness, out of the prover's reach.
* The five violations. For findings 2 and 3 the theorems named above say exactly
  what must have happened before; for 1 and 4, `~thrown` in `IInv` and the equal frame
  counts of `SilenceWhenCountsAgree` do. Of finding 5 nothing is claimed.
* That no run deadlocks, and that every action can happen.

## 5. Findings

1. **emplace is not exception safe** (`CResource.h:80`). `destruct()` deletes and
   leaves `resource_`; if `new element_type()` then throws, the handle keeps a
   freed pointer, which its destructor uninitialises and deletes again. TLC shows
   the block given to another handle in between. `resource_ = nullptr` in
   `destruct()` removes it.
2. **Filter wrappers come apart under the inherited `swap`** (`W.cpp:470`).
   CResource's public `swap`, `release` and `reset` exchange nodes without
   `mOrder` and `mCutoffFrequency`. The next `SetCutoffFrequency` asks miniaudio
   to re-initialise with another order, is refused, and its assertion fails.
3. **Reads after a seek out of the file** (`VFS.h:136`). The `size_t` subtraction
   wraps; `Read` reports all the bytes asked for with `MA_SUCCESS` although the
   stream delivered fewer.
4. **The output span has the input's length** (`W.h:99`). On a node without inputs
   `FillOutputWithSilence` writes nothing, and the output keeps what it held. On one
   with different processing rates the span is longer than its buffer. With
   `*pFrameCountOut` both go away.
5. **Data source callbacks cast the wrong object** (`W.h:468`). They get the
   `ma_data_source_base` that `Init` emplaced on the heap and cast it to the user's
   type, whose instance is `mInternalSource`.

6. **Uninit does pass the callbacks** (`C_ResourceHandling.h:66`). The comment above says
   "nullptr allocation callbacks"; the code passes `gEngineAllocationCallbacks`, and has to:
   `FreedByMaker` holds, and fails for an uninit as the comment has it (the mutant
   `FreeByDefault`). The comment is out of date, the code is right.

Seen while modelling the test program's callbacks, and not claimed by any property:

* The reallocation asks for `sz` bytes and gives out a pointer behind the prefix, so
  every reallocated block is too short for its user (`main.cpp:118`), and one of less than
  `sizeof(int)` bytes for its own prefix (`cut`).
* A failed reallocation leaves the new size in count and prefix, which agree, so
  `Accounted` holds; neither is the size of the block any more.
* A size above `INT_MAX` takes the count off for good; by how much is the second part of
  `Accounted`.

## 6. Not modelled

* `StartNode`/`StopNode`, `SeekToFrame`, volume, pitch and fades: single values in
  miniaudio, stored by one call, with no state in the wrappers.
* The inside of the one global `ma_log`. Every `Engine::Init` initialises it again, also
  under an engine that logs to it, as the suite does twice
  (`MiniaudioWrappersTest.cpp:513-557`). `Allocator` has which callbacks its messages get;
  what a second `ma_log_init` does to a lock and a list in use is miniaudio's.
* A data source whose `Init` failed: that the library refuses the base is a guard of
  `FinishInit`. `ma_data_source_init` fails only for a missing configuration or
  vtable, which `DataSource::Init` always passes.
* `TBaseNode::Init` without an engine, on a wrapper that still holds a node: no engine stops
  under a living node in the model.
* A copy in a passthrough node after it has written: `CopyFaithful` is about copies that
  come first.
* A file whose length changes while it is open.
* What a user's data source does in its callbacks, and whether it may be called from
  two threads at once: its own contract.
* The inside of miniaudio: mixing, resampling, filter coefficients, its job
  queue. A re-initialised filter may be torn for one callback.
* `CResource::operator==` (a `memcmp` of what the pointers name), const getters,
  error macros and platform definitions: they change no state.
* Use of a `Bus` at an address where no node lives, `GetEndpointBus` of an empty
  engine, exceptions thrown through miniaudio's C frames: undefined behaviour
  that the code leaves to its callers.

## 7. Plan

Modelled, in the order of their importance: `CResource` with `Ownership` and its
proofs, `NodeGraph`, `VFS` with `ByteFile`, `FilterNode`, `Sound` with `DataSource`,
`ProcessCallback`, `Allocator`; then the proofs of all safety properties and of both
refinements. What is left:

1. An abstract specification of the node graph (a set of nodes with an owner each and
   a set of edges between live ones, without audio thread and steps in between) that
   `NodeGraph` is proved to implement; `EdgesFit` and `OwnedSoFar` are the invariants it needs.
2. The same for `Sound`: a map from sounds to what they read.
3. Action properties of `Sound` and `FilterNode`: what a step of one wrapper may
   never do to the node of another.
