--------------------------- MODULE AllocatorProofs ---------------------------
(***************************************************************************)
(* Proofs about Allocator, for any number of threads and blocks, any sizes *)
(* and any width of size_t and int.                                        *)
(***************************************************************************)
EXTENDS Allocator, FiniteSetTheorems, TLAPS

-----------------------------------------------------------------------------
(* The inductive invariant                                                 *)

(* Until the callbacks have changed under a user, its blocks were made by  *)
(* the callbacks it has now, and only tracking ones work on a block.       *)
MakersKnown ==
    "changed" \notin spoilt =>
        \A p \in Addr :
            /\ UserHolds(p) => memory[p].maker = Now(memory[p].user)
            /\ memory[p].held = "callback" =>
                  memory[p].maker = "tracked" /\ Now(memory[p].user) = "tracked"

AllocInv == MakersKnown /\ OneThreadPerBlock
IInv     == TypeOK /\ AllocInv

-----------------------------------------------------------------------------
(* What a step changes                                                     *)

(* What a thread is in the middle of.                                      *)
LEMMA RunningFields ==
    ASSUME TypeOK, NEW t \in Thread
    PROVE  /\ ~At(t, "idle") => Arg(t) \in Addr /\ memory[Arg(t)] \in Memory
           /\ ~At(t, "idle") /\ ~At(t, "free_count") /\ ~At(t, "free_release") =>
                 running[t].sz \in Size
  BY DEF TypeOK, Running, Idle, At, Arg

LEMMA SizeTypes == Prefix \in Nat /\ \A sz \in Size : sz \in Nat
  BY AllocatorAssumption

LEMMA ToIntType == ASSUME NEW sz \in Size PROVE ToInt(sz) \in Int
  BY AllocatorAssumption DEF ToInt

LEMMA CountType == ASSUME NEW n \in Int, used \in Int, CountBytes(n) PROVE used' \in 0..(Words - 1)
  BY AllocatorAssumption DEF CountBytes

LEMMA GotoType ==
    ASSUME TypeOK, NEW t \in Thread,
           \/ At(t, "alloc_count") /\ Goto(t, "alloc_store")
           \/ At(t, "free_count") /\ Goto(t, "free_release")
           \/ At(t, "realloc_count") /\ Goto(t, "realloc_store")
           \/ At(t, "realloc_store") /\ Goto(t, "realloc_move")
    PROVE  running' \in [Thread -> Running]
<1>1. ASSUME NEW place, Goto(t, place), [running[t] EXCEPT !.at = place] \in Running
      PROVE  running' \in [Thread -> Running]
  BY <1>1 DEF Goto, TypeOK
<1>2. CASE At(t, "alloc_count") /\ Goto(t, "alloc_store")
  <2>1. running[t] \in [at : {"alloc_count"}, p : Addr, sz : Size]
    BY <1>2 DEF At, TypeOK, Running, Idle
  <2>. QED  BY <1>1, <1>2, <2>1 DEF Running
<1>3. CASE At(t, "free_count") /\ Goto(t, "free_release")
  <2>1. running[t] \in [at : {"free_count"}, p : Addr]
    BY <1>3 DEF At, TypeOK, Running, Idle
  <2>. QED  BY <1>1, <1>3, <2>1 DEF Running
<1>4. CASE At(t, "realloc_count") /\ Goto(t, "realloc_store")
  <2>1. running[t] \in [at : {"realloc_count"}, p : Addr, sz : Size]
    BY <1>4 DEF At, TypeOK, Running, Idle
  <2>. QED  BY <1>1, <1>4, <2>1 DEF Running
<1>5. CASE At(t, "realloc_store") /\ Goto(t, "realloc_move")
  <2>1. running[t] \in [at : {"realloc_store"}, p : Addr, sz : Size]
    BY <1>5 DEF At, TypeOK, Running, Idle
  <2>. QED  BY <1>1, <1>5, <2>1 DEF Running
<1>. QED  BY <1>2, <1>3, <1>4, <1>5

(* The heap after each thing that is done to a block.                      *)
LEMMA NoMemoryType == NoMemory \in Memory /\ Idle \in Running
  BY DEF NoMemory, Memory, User, Callbacks, Running

LEMMA Others ==
    ASSUME TypeOK, NEW p \in Addr, NEW m \in Memory, memory' = [memory EXCEPT ![p] = m]
    PROVE  /\ memory' \in [Addr -> Memory] /\ memory'[p] = m
           /\ \A q \in Addr : q # p => memory'[q] = memory[q]
  BY DEF TypeOK

LEMMA Freed ==
    ASSUME TypeOK, NEW p \in Addr, NEW by, HeapFree(p, by)
    PROVE  /\ memory' \in [Addr -> Memory]
           /\ memory'[p].held \in {"free", "lost"}
           /\ memory[p].maker = by => memory'[p] = NoMemory
           /\ \A q \in Addr : q # p => memory'[q] = memory[q]
<1>1. PICK m : /\ m = NoMemory \/ (memory[p].maker # by /\ m = [memory[p] EXCEPT !.held = "lost"])
               /\ memory' = [memory EXCEPT ![p] = m]
  BY DEF HeapFree
<1>2. m \in Memory /\ m.held \in {"free", "lost"}
  BY <1>1, NoMemoryType DEF TypeOK, Memory, NoMemory
<1>. QED  BY <1>1, <1>2, Others

LEMMA HandedOver ==
    ASSUME TypeOK, NEW p \in Addr, Handed(p)
    PROVE  /\ memory' \in [Addr -> Memory]
           /\ memory'[p].held = "callback" /\ memory'[p].maker = memory[p].maker
           /\ memory'[p].user = memory[p].user
           /\ memory[p].maker = "tracked" => memory'[p].box = memory[p].box
           /\ \A q \in Addr : q # p => memory'[q] = memory[q]
<1>1. PICK n : /\ n \in IF memory[p].maker = "tracked" THEN {memory[p].box} ELSE Garbage
               /\ memory' = [memory EXCEPT ![p] = [memory[p] EXCEPT !.held = "callback", !.box = n]]
  BY DEF Handed
<1>. DEFINE m == [memory[p] EXCEPT !.held = "callback", !.box = n]
<1>2. memory[p] \in Memory /\ n \in Int
  BY <1>1, AllocatorAssumption DEF TypeOK, Memory
<1>3. /\ m \in Memory /\ m.held = "callback" /\ m.maker = memory[p].maker
      /\ m.user = memory[p].user /\ m.box = n
  BY <1>2 DEF Memory
<1>. HIDE DEF m
<1>. QED  BY <1>1, <1>3, Others DEF m

LEMMA PrefixType ==
    ASSUME NEW room, NEW n \in Int, NEW k \in Prefixed(room, n)
    PROVE  k \in Int /\ (Cut(room) = {} => k = n)
  BY AllocatorAssumption DEF Prefixed, Cut

LEMMA Stored ==
    ASSUME TypeOK, NEW t \in Thread, AllocStore(t)
    PROVE  /\ memory' \in [Addr -> Memory] /\ Arg(t) \in Addr
           /\ memory'[Arg(t)].held = "user" /\ memory'[Arg(t)].maker = memory[Arg(t)].maker
           /\ memory'[Arg(t)].user = memory[Arg(t)].user
           /\ "cut" \notin spoilt' => memory'[Arg(t)].box = ToInt(running[t].sz)
           /\ \A q \in Addr : q # Arg(t) => memory'[q] = memory[q]
<1>. DEFINE p == Arg(t)
<1>1. p \in Addr /\ memory[p] \in Memory /\ running[t].sz \in Size
  BY RunningFields DEF AllocStore, At
<1>2. PICK n \in Prefixed(Room(running[t].sz), ToInt(running[t].sz)) :
          memory' = [memory EXCEPT ![p] = [memory[p] EXCEPT !.held = "user", !.box = n]]
  BY DEF AllocStore
<1>3. n \in Int /\ (Cut(Room(running[t].sz)) = {} => n = ToInt(running[t].sz))
  BY <1>1, ToIntType, PrefixType
<1>. DEFINE m == [memory[p] EXCEPT !.held = "user", !.box = n]
<1>4. /\ m \in Memory /\ m.held = "user" /\ m.maker = memory[p].maker
      /\ m.user = memory[p].user /\ m.box = n
  BY <1>1, <1>3 DEF Memory
<1>5. "cut" \notin spoilt' => Cut(Room(running[t].sz)) = {}
  BY DEF AllocStore, Spoil, Cut
<1>. HIDE DEF m, p
<1>. QED  BY <1>1, <1>2, <1>3, <1>4, <1>5, Others DEF m, p

LEMMA Moved ==
    ASSUME TypeOK, NEW t \in Thread, NEW q \in Addr, ReallocMove(t, q)
    PROVE  /\ memory' \in [Addr -> Memory] /\ Arg(t) \in Addr
           /\ q = Arg(t) \/ memory[q].held = "free"
           /\ memory'[q].held = "user" /\ memory'[q].maker = "tracked"
           /\ memory'[q].user = memory[Arg(t)].user
           /\ "cut" \notin spoilt' => memory'[q].box = memory[Arg(t)].box
           /\ q # Arg(t) => memory'[Arg(t)] = NoMemory
           /\ \A r \in Addr : r # q /\ r # Arg(t) => memory'[r] = memory[r]
<1>. DEFINE p == Arg(t)
            sz == running[t].sz
<1>1. /\ p \in Addr /\ memory[p] \in Memory /\ memory[p].box \in Int
      /\ q = p \/ memory[q].held = "free"
  BY RunningFields DEF ReallocMove, At, Memory
<1>2. PICK n \in Prefixed(sz, memory[p].box) :
          memory' = [memory EXCEPT ![p] = NoMemory,
                        ![q] = [memory[p] EXCEPT !.held = "user", !.maker = "tracked", !.box = n]]
  BY DEF ReallocMove
<1>3. n \in Int /\ (Cut(sz) = {} => n = memory[p].box)
  BY <1>1, PrefixType
<1>. DEFINE m == [memory[p] EXCEPT !.held = "user", !.maker = "tracked", !.box = n]
<1>4. /\ m \in Memory /\ m.held = "user" /\ m.maker = "tracked"
      /\ m.user = memory[p].user /\ m.box = n
  <2>1. ASSUME NEW old \in Memory
        PROVE  [old EXCEPT !.held = "user", !.maker = "tracked", !.box = n] \in
                   [held : {"user"}, user : {old.user}, maker : {"tracked"}, box : {n}]
    BY DEF Memory
  <2>2. memory[p].user \in User
    BY <1>1 DEF Memory
  <2>. HIDE DEF p
  <2>3. m \in [held : {"user"}, user : {memory[p].user}, maker : {"tracked"}, box : {n}]
    BY <1>1, <2>1
  <2>. HIDE DEF m
  <2>. QED  BY <1>3, <2>2, <2>3 DEF Memory, Callbacks
<1>5. "cut" \notin spoilt' => Cut(sz) = {}
  BY DEF ReallocMove, Spoil, Cut
<1>6. /\ memory' \in [Addr -> Memory] /\ memory'[q] = m
      /\ q # p => memory'[p] = NoMemory
      /\ \A r \in Addr : r # q /\ r # p => memory'[r] = memory[r]
  <2>. HIDE DEF p
  <2>. QED  BY <1>1, <1>2, <1>4, NoMemoryType DEF TypeOK
<1>. HIDE DEF m, p, sz
<1>. QED  BY <1>1, <1>3, <1>4, <1>5, <1>6 DEF p

LEMMA SpoiltType ==
    ASSUME TypeOK, NEW s, s \subseteq Mishap, Spoil(s)
    PROVE  spoilt' \subseteq Mishap /\ spoilt \subseteq spoilt' /\ s \subseteq spoilt'
  BY DEF TypeOK, Spoil

LEMMA Mishaps ==
    /\ \A sz \in Size : Wide(sz) \subseteq Mishap
    /\ \A room \in Int : Cut(room) \subseteq Mishap
    /\ \A user \in User, c \in Callbacks : Changes(user, c) \subseteq Mishap
  BY DEF Wide, Cut, Changes, Mishap

(* One thread's callback, or the library on it, takes a step. *)
ThreadStep(t) ==
    \/ AllocCount(t) \/ AllocStore(t) \/ FreeCount(t) \/ FreeRelease(t)
    \/ ReallocCount(t) \/ ReallocStore(t) \/ ReallocFails(t)
    \/ \E p \in Addr :
          \/ Return(t, p) \/ Free(t, p) \/ ReallocMove(t, p)
          \/ \E sz \in Size : \/ Realloc(t, p, sz)
                              \/ \E u \in User : Take(t, u, p, sz) \/ Malloc(t, u, p, sz)

LEMMA TypeStep ==
    ASSUME TypeOK, NEW t \in Thread, ThreadStep(t)
    PROVE  TypeOK' /\ spoilt \subseteq spoilt'
<1>1. ASSUME NEW p \in Addr, NEW sz \in Size, NEW u \in User, Take(t, u, p, sz)
      PROVE  TypeOK' /\ spoilt \subseteq spoilt'
  <2>1. [NoMemory EXCEPT !.held = "user", !.user = u] \in Memory
    BY NoMemoryType DEF Memory
  <2>. QED  BY <1>1, <2>1, Others DEF Take, TypeOK
<1>2. ASSUME NEW p \in Addr, Return(t, p) PROVE TypeOK' /\ spoilt \subseteq spoilt'
  BY <1>2, Freed DEF Return, TypeOK
<1>3. ASSUME NEW p \in Addr, NEW sz \in Size, NEW u \in User, Malloc(t, u, p, sz)
      PROVE  TypeOK' /\ spoilt \subseteq spoilt'
  <2>1. [NoMemory EXCEPT !.held = "callback", !.user = u, !.maker = "tracked"] \in Memory
    BY NoMemoryType DEF Memory, Callbacks
  <2>2. memory' \in [Addr -> Memory]
    BY <1>3, <2>1, Others DEF Malloc
  <2>3. spoilt' \subseteq Mishap /\ spoilt \subseteq spoilt'
    BY <1>3, SpoiltType, Mishaps DEF Malloc
  <2>. QED  BY <1>3, <2>2, <2>3 DEF Malloc, Enter, TypeOK, Running
<1>4. ASSUME NEW p \in Addr, Free(t, p) PROVE TypeOK' /\ spoilt \subseteq spoilt'
  BY <1>4, HandedOver DEF Free, Enter, TypeOK, Running
<1>5. ASSUME NEW p \in Addr, NEW sz \in Size, Realloc(t, p, sz)
      PROVE  TypeOK' /\ spoilt \subseteq spoilt'
  <2>1. memory' \in [Addr -> Memory]
    BY <1>5, HandedOver DEF Realloc
  <2>2. spoilt' \subseteq Mishap /\ spoilt \subseteq spoilt'
    BY <1>5, SpoiltType, Mishaps DEF Realloc
  <2>. QED  BY <1>5, <2>1, <2>2 DEF Realloc, Enter, TypeOK, Running
<1>6. CASE AllocCount(t) \/ FreeCount(t) \/ ReallocCount(t)
  <2>1. running' \in [Thread -> Running]
    BY <1>6, GotoType DEF AllocCount, FreeCount, ReallocCount
  <2>2. PICK n \in Int : CountBytes(n)
    <3>1. CASE AllocCount(t)
      <4>1. running[t].sz \in Nat
        BY <3>1, RunningFields, SizeTypes DEF AllocCount, At
      <4>. QED  BY <3>1, <4>1 DEF AllocCount
    <3>2. CASE FreeCount(t)
      <4>1. memory[Arg(t)].box \in Int
        BY <3>2, RunningFields DEF FreeCount, At, Memory
      <4>2. -memory[Arg(t)].box \in Int
        BY <4>1
      <4>. QED  BY <3>2, <4>2 DEF FreeCount
    <3>3. CASE ReallocCount(t)
      <4>1. memory[Arg(t)].box \in Int
        BY <3>3, RunningFields DEF ReallocCount, At, Memory
      <4>2. running[t].sz \in Nat
        BY <3>3, RunningFields, SizeTypes DEF ReallocCount, At
      <4>3. running[t].sz - memory[Arg(t)].box \in Int
        BY <4>1, <4>2
      <4>. QED  BY <3>3, <4>3 DEF ReallocCount
    <3>. QED  BY <1>6, <3>1, <3>2, <3>3
  <2>3. used' \in 0..(Words - 1)
    BY <2>2, CountType, AllocatorAssumption DEF TypeOK
  <2>. QED  BY <1>6, <2>1, <2>3 DEF AllocCount, FreeCount, ReallocCount, TypeOK
<1>7. CASE AllocStore(t)
  <2>1. Room(running[t].sz) \in Int
    BY <1>7, RunningFields, SizeTypes, AllocatorAssumption DEF Room, AllocStore, At
  <2>2. spoilt' \subseteq Mishap /\ spoilt \subseteq spoilt'
    BY <1>7, <2>1, SpoiltType, Mishaps DEF AllocStore
  <2>. QED  BY <1>7, <2>2, Stored DEF AllocStore, Leave, TypeOK, Running
<1>8. CASE FreeRelease(t)
  <2>1. memory' \in [Addr -> Memory]
    BY <1>8, Freed, RunningFields DEF FreeRelease, At
  <2>. QED  BY <1>8, <2>1 DEF FreeRelease, Leave, TypeOK, Running
<1>9. CASE ReallocStore(t)
  <2>1. Arg(t) \in Addr /\ ToInt(running[t].sz) \in Int
    BY <1>9, RunningFields, ToIntType DEF ReallocStore, At
  <2>2. memory' \in [Addr -> Memory]
    BY <1>9, <2>1 DEF ReallocStore, TypeOK, Memory
  <2>3. running' \in [Thread -> Running]
    BY <1>9, GotoType DEF ReallocStore
  <2>. QED  BY <1>9, <2>2, <2>3 DEF ReallocStore, TypeOK
<1>10. ASSUME NEW q \in Addr, ReallocMove(t, q) PROVE TypeOK' /\ spoilt \subseteq spoilt'
  <2>1. running[t].sz \in Nat
    BY <1>10, RunningFields, SizeTypes DEF ReallocMove, At
  <2>2. spoilt' \subseteq Mishap /\ spoilt \subseteq spoilt'
    BY <1>10, <2>1, SpoiltType, Mishaps DEF ReallocMove
  <2>. QED  BY <1>10, <2>2, Moved DEF ReallocMove, Leave, TypeOK, Running
<1>11. CASE ReallocFails(t)
  <2>1. Arg(t) \in Addr /\ memory[Arg(t)] \in Memory
    BY <1>11, RunningFields DEF ReallocFails, At
  <2>2. [memory[Arg(t)] EXCEPT !.held = "user"] \in Memory
    BY <2>1 DEF Memory
  <2>3. memory' \in [Addr -> Memory]
    BY <1>11, <2>1, <2>2 DEF ReallocFails, TypeOK
  <2>. QED  BY <1>11, <2>3 DEF ReallocFails, Leave, TypeOK, Running
<1>. QED
  BY <1>1, <1>2, <1>3, <1>4, <1>5, <1>6, <1>7, <1>8, <1>9, <1>10, <1>11 DEF ThreadStep

-----------------------------------------------------------------------------
(* The invariant, one lemma for each way of handling a block.              *)

(* The library takes a block from the heap or gives one back, without the  *)
(* tracking callbacks.                                                     *)
LEMMA UntrackedKeeps ==
    ASSUME TypeOK, AllocInv, NEW t \in Thread, NEW p \in Addr,
           Return(t, p) \/ \E sz \in Size, u \in User : Take(t, u, p, sz)
    PROVE  AllocInv'
<1>. USE DEF AllocInv
<1>1. /\ UNCHANGED <<callbacks, log, running, spoilt>>
      /\ memory[p].held # "callback" /\ memory'[p].held # "callback"
      /\ memory'[p].held = "user" =>
            memory'[p].maker = "default" /\ Now(memory'[p].user) = "default"
      /\ \A q \in Addr : q # p => memory'[q] = memory[q]
  <2>1. CASE Return(t, p)
    <3>1. memory[p].held = "user" /\ memory'[p].held \in {"free", "lost"}
      BY <2>1, Freed DEF Return, Served, UserHolds
    <3>. QED  BY <2>1, <3>1, Freed DEF Return
  <2>2. ASSUME NEW sz \in Size, NEW u \in User, Take(t, u, p, sz)
        PROVE  /\ memory[p].held = "free" /\ memory'[p].held = "user"
               /\ memory'[p].maker = "default" /\ Now(memory'[p].user) = "default"
               /\ \A q \in Addr : q # p => memory'[q] = memory[q]
               /\ UNCHANGED <<callbacks, log, running, spoilt>>
    BY <2>2 DEF Take, NoMemory, TypeOK
  <2>. QED  BY <2>1, <2>2
<1>2. \A s \in Thread : ~At(s, "idle") => Arg(s) \in Addr /\ memory'[Arg(s)] = memory[Arg(s)]
  BY <1>1, RunningFields DEF OneThreadPerBlock
<1>3. MakersKnown'
  BY <1>1 DEF MakersKnown, UserHolds, Now
<1>4. OneThreadPerBlock'
  BY <1>1, <1>2 DEF OneThreadPerBlock, At, Arg
<1>. QED  BY <1>3, <1>4

LEMMA MallocKeeps ==
    ASSUME TypeOK, AllocInv, NEW t \in Thread, NEW p \in Addr, NEW sz \in Size, NEW u \in User,
           Malloc(t, u, p, sz)
    PROVE  AllocInv'
<1>. USE DEF AllocInv
<1>1. /\ UNCHANGED <<callbacks, log>> /\ At(t, "idle") /\ memory[p].held = "free"
      /\ memory'[p].held = "callback" /\ memory'[p].maker = "tracked"
      /\ Now(memory'[p].user) = "tracked"
      /\ \A q \in Addr : q # p => memory'[q] = memory[q]
      /\ running'[t] = [at |-> "alloc_count", p |-> p, sz |-> sz]
      /\ \A s \in Thread : s # t => running'[s] = running[s]
      /\ spoilt \subseteq spoilt'
  BY DEF Malloc, Enter, NoMemory, TypeOK, Spoil
<1>2. \A s \in Thread : ~At(s, "idle") =>
          /\ s # t /\ Arg(s) \in Addr /\ Arg(s) # p /\ memory'[Arg(s)] = memory[Arg(s)]
  BY <1>1, RunningFields DEF OneThreadPerBlock
<1>3. MakersKnown'
  BY <1>1 DEF MakersKnown, UserHolds, Now
<1>4. OneThreadPerBlock'
  BY <1>1, <1>2 DEF OneThreadPerBlock, At, Arg
<1>. QED  BY <1>3, <1>4

(* A block goes from its user into a callback.                             *)
LEMMA EnterKeeps ==
    ASSUME TypeOK, AllocInv, NEW t \in Thread, NEW p \in Addr,
           Free(t, p) \/ \E sz \in Size : Realloc(t, p, sz)
    PROVE  AllocInv'
<1>. USE DEF AllocInv
<1>1. /\ UNCHANGED <<callbacks, log>> /\ At(t, "idle") /\ Served(p, "tracked") /\ Handed(p)
      /\ running'[t].p = p /\ running'[t].at \in {"free_count", "realloc_count"}
      /\ \A s \in Thread : s # t => running'[s] = running[s]
      /\ spoilt \subseteq spoilt'
  BY DEF Free, Realloc, Enter, TypeOK, Spoil
<1>2. /\ \A q \in Addr : q # p => memory'[q] = memory[q]
      /\ memory'[p].held = "callback" /\ memory'[p].maker = memory[p].maker
      /\ memory'[p].user = memory[p].user
  BY <1>1, HandedOver
<1>3. \A s \in Thread : ~At(s, "idle") =>
          /\ s # t /\ Arg(s) \in Addr /\ Arg(s) # p /\ memory'[Arg(s)] = memory[Arg(s)]
  BY <1>1, <1>2, RunningFields DEF OneThreadPerBlock, Served, UserHolds
<1>4. MakersKnown'
  BY <1>1, <1>2 DEF MakersKnown, Served, UserHolds, Now
<1>5. OneThreadPerBlock'
  BY <1>1, <1>2, <1>3 DEF OneThreadPerBlock, At, Arg
<1>. QED  BY <1>4, <1>5

(* A callback goes on: the count, or the prefix of its block.              *)
LEMMA WithinKeeps ==
    ASSUME TypeOK, AllocInv, NEW t \in Thread,
           AllocCount(t) \/ FreeCount(t) \/ ReallocCount(t) \/ ReallocStore(t)
    PROVE  AllocInv'
<1>. USE DEF AllocInv
<1>1. /\ UNCHANGED <<callbacks, log, spoilt>>
      /\ ~At(t, "idle") /\ ~At(t, "idle")'
      /\ running'[t].p = running[t].p
      /\ \A s \in Thread : s # t => running'[s] = running[s]
  BY DEF AllocCount, FreeCount, ReallocCount, ReallocStore, Goto, At, TypeOK, Running, Idle
<1>2. \A q \in Addr : /\ memory'[q].held = memory[q].held /\ memory'[q].maker = memory[q].maker
                      /\ memory'[q].user = memory[q].user
  <2>1. CASE ReallocStore(t)
    BY <2>1 DEF ReallocStore, TypeOK, Memory
  <2>. QED  BY <2>1 DEF AllocCount, FreeCount, ReallocCount
<1>3. \A s \in Thread : ~At(s, "idle") => Arg(s) \in Addr
  BY RunningFields
<1>4. MakersKnown'
  BY <1>1, <1>2 DEF MakersKnown, UserHolds, Now
<1>5. OneThreadPerBlock'
  BY <1>1, <1>2, <1>3 DEF OneThreadPerBlock, At, Arg
<1>. QED  BY <1>4, <1>5

(* A callback returns.                                                     *)
LEMMA LeaveKeeps ==
    ASSUME TypeOK, AllocInv, NEW t \in Thread,
           \/ AllocStore(t) \/ FreeRelease(t) \/ ReallocFails(t)
           \/ \E q \in Addr : ReallocMove(t, q)
    PROVE  AllocInv'
<1>. USE DEF AllocInv
<1>1. /\ UNCHANGED <<callbacks, log>> /\ spoilt \subseteq spoilt'
      /\ ~At(t, "idle") /\ Arg(t) \in Addr /\ memory[Arg(t)].held = "callback"
      /\ running'[t] = Idle /\ \A s \in Thread : s # t => running'[s] = running[s]
  <2>1. /\ UNCHANGED <<callbacks, log>> /\ spoilt \subseteq spoilt'
        /\ ~At(t, "idle") /\ Leave(t)
    BY DEF AllocStore, FreeRelease, ReallocFails, ReallocMove, At, Spoil
  <2>. QED  BY <2>1, RunningFields DEF Leave, OneThreadPerBlock, TypeOK
<1>2. PICK q \in Addr :
          /\ q = Arg(t) \/ memory[q].held = "free"
          /\ \A r \in Addr : r # q /\ r # Arg(t) => memory'[r] = memory[r]
          /\ q # Arg(t) => memory'[Arg(t)] = NoMemory
          /\ \/ memory'[q].held \in {"free", "lost"}
             \/ /\ memory'[q].held = "user" /\ memory'[q].user = memory[Arg(t)].user
                /\ memory'[q].maker \in {"tracked", memory[Arg(t)].maker}
  <2>1. CASE AllocStore(t)
    BY <1>1, <2>1, Stored
  <2>2. CASE FreeRelease(t)
    BY <1>1, <2>2, Freed DEF FreeRelease
  <2>3. CASE ReallocFails(t)
    <3>1. /\ memory'[Arg(t)].held = "user" /\ memory'[Arg(t)].maker = memory[Arg(t)].maker
          /\ memory'[Arg(t)].user = memory[Arg(t)].user
          /\ \A r \in Addr : r # Arg(t) => memory'[r] = memory[r]
      BY <1>1, <2>3 DEF ReallocFails, TypeOK, Memory
    <3>. QED  BY <1>1, <3>1
  <2>4. CASE \E q \in Addr : ReallocMove(t, q)
    BY <1>1, <2>4, Moved
  <2>. QED  BY <2>1, <2>2, <2>3, <2>4
<1>3. \A s \in Thread : s # t /\ ~At(s, "idle") =>
          Arg(s) \in Addr /\ memory'[Arg(s)] = memory[Arg(s)]
  BY <1>1, <1>2, RunningFields DEF OneThreadPerBlock
<1>4. MakersKnown'
  BY <1>1, <1>2 DEF MakersKnown, UserHolds, Now, NoMemory
<1>5. OneThreadPerBlock'
  BY <1>1, <1>3 DEF OneThreadPerBlock, At, Arg, Idle
<1>. QED  BY <1>4, <1>5

(* The client sets the global, or an engine copies it into the log: a user *)
(* that has a block keeps its callbacks, or the change is noted.           *)
LEMMA ChangeKeeps ==
    ASSUME TypeOK, AllocInv, LogInit \/ \E c \in Callbacks : SetCallbacks(c)
    PROVE  TypeOK' /\ AllocInv' /\ spoilt \subseteq spoilt'
<1>1. PICK user \in {"node", "log"}, c \in Callbacks :
          /\ Spoil(Changes(user, c)) /\ UNCHANGED <<memory, used, running>>
          /\ IF user = "node" THEN callbacks' = c /\ log' = log
             ELSE log' = c /\ callbacks' = callbacks
  BY DEF LogInit, SetCallbacks, TypeOK
<1>2. spoilt' \subseteq Mishap /\ spoilt \subseteq spoilt'
  BY <1>1, SpoiltType, Mishaps DEF User
<1>3. TypeOK'
  BY <1>1, <1>2 DEF TypeOK
<1>4. "changed" \notin spoilt' => c = Now(user) \/ ~Lives(user)
  BY <1>1 DEF Spoil, Changes
<1>5. MakersKnown'
  <2>. SUFFICES ASSUME "changed" \notin spoilt', NEW p \in Addr,
                       memory[p].held \in {"user", "callback"}
                PROVE  Now(memory[p].user)' = Now(memory[p].user)
    BY <1>1, <1>2 DEF AllocInv, MakersKnown, UserHolds, Now
  <2>1. CASE memory[p].user = user
    BY <1>1, <1>4, <2>1 DEF Lives, Now
  <2>2. CASE memory[p].user # user
    BY <1>1, <2>2 DEF Now
  <2>. QED  BY <2>1, <2>2
<1>6. OneThreadPerBlock'
  BY <1>1 DEF AllocInv, OneThreadPerBlock, At, Arg
<1>. QED  BY <1>2, <1>3, <1>5, <1>6 DEF AllocInv

-----------------------------------------------------------------------------
(* The invariant holds at first ...                                        *)
LEMMA IInvInit == Init => IInv
<1>1. SUFFICES ASSUME Init PROVE IInv
  OBVIOUS
<1>2. TypeOK
  <2>1. 0 \in 0..(Words - 1)
    BY AllocatorAssumption
  <2>. QED  BY <1>1, <2>1, NoMemoryType DEF Init, TypeOK, Callbacks
<1>3. AllocInv
  BY <1>1 DEF Init, AllocInv, MakersKnown, OneThreadPerBlock, NoMemory, Idle, At, UserHolds
<1>. QED  BY <1>2, <1>3 DEF IInv

(* ... and every step of every thread, and of the client, keeps it.        *)
LEMMA IInvStep == IInv /\ [Next]_vars => IInv' /\ spoilt \subseteq spoilt'
<1>1. SUFFICES ASSUME TypeOK, AllocInv, [Next]_vars PROVE IInv' /\ spoilt \subseteq spoilt'
  BY DEF IInv
<1>2. ASSUME NEW t \in Thread, ThreadStep(t) PROVE IInv' /\ spoilt \subseteq spoilt'
  BY <1>1, <1>2, TypeStep, UntrackedKeeps, MallocKeeps, EnterKeeps, WithinKeeps, LeaveKeeps
     DEF ThreadStep, IInv
<1>3. CASE LogInit \/ \E c \in Callbacks : SetCallbacks(c)
  BY <1>1, <1>3, ChangeKeeps DEF IInv
<1>4. CASE UNCHANGED vars
  BY <1>1, <1>4 DEF vars, IInv, TypeOK, AllocInv, MakersKnown, OneThreadPerBlock, UserHolds,
                    Now, At, Arg
<1>. QED  BY <1>1, <1>2, <1>3, <1>4 DEF Next, ThreadStep

-----------------------------------------------------------------------------
(* Theorems                                                                *)

(* The invariant holds throughout, however the threads interleave.         *)
THEOREM Inductive == Spec => []IInv
  BY IInvInit, IInvStep, PTL DEF Spec

(* Every variable stays in its set: the count in size_t's range.           *)
THEOREM TypeCorrect == Spec => []TypeOK
  BY Inductive, PTL DEF IInv

(* No two callbacks ever work on one block, none on a block in use, even   *)
(* when the callbacks change under a living node.                          *)
THEOREM BlocksAreNotShared == Spec => []OneThreadPerBlock
  BY Inductive, PTL DEF IInv, AllocInv

(* A block leaves its user only the way it came, as long as no callbacks   *)
(* are changed under a user that has one.                                  *)
THEOREM FreesMatch == Spec => FreedByMaker
<1>. DEFINE Leaves == \A p \in Addr :
                UserHolds(p) /\ ~UserHolds(p)' /\ "changed" \notin spoilt =>
                memory'[p].held = IF memory[p].maker = "tracked" THEN "callback" ELSE "free"
<1>1. IInv /\ [Next]_vars => Leaves
  <2>1. SUFFICES ASSUME IInv, [Next]_vars, NEW p \in Addr, UserHolds(p), ~UserHolds(p)',
                        "changed" \notin spoilt
                 PROVE  memory'[p].held = IF memory[p].maker = "tracked" THEN "callback" ELSE "free"
    OBVIOUS
  <2>2. memory'[p] # memory[p] /\ memory \in [Addr -> Memory] /\ TypeOK
    BY <2>1 DEF IInv, TypeOK, UserHolds
  <2>3. memory[p].maker = Now(memory[p].user)
    BY <2>1 DEF IInv, AllocInv, MakersKnown
  <2>4. PICK t \in Thread : ThreadStep(t)
    BY <2>1, <2>2 DEF Next, ThreadStep, SetCallbacks, LogInit, vars
  <2>5. ASSUME NEW q \in Addr, Return(t, q)
        PROVE  memory'[p].held = "free" /\ memory[p].maker = "default"
    <3>1. q = p
      BY <2>2, <2>5, Freed DEF Return
    <3>2. memory[p].maker = "default"
      BY <2>3, <2>5, <3>1 DEF Return, Served
    <3>. QED  BY <2>2, <2>5, <3>1, <3>2, Freed DEF Return, NoMemory
  <2>6. ASSUME NEW q \in Addr, Free(t, q) \/ \E sz \in Size : Realloc(t, q, sz)
        PROVE  memory'[p].held = "callback" /\ memory[p].maker = "tracked"
    <3>1. Served(q, "tracked") /\ Handed(q)
      BY <2>6 DEF Free, Realloc
    <3>2. q = p
      BY <2>2, <3>1, HandedOver
    <3>. QED  BY <2>2, <2>3, <3>1, <3>2, HandedOver DEF Served
  <2>7. ~\E q \in Addr, sz \in Size, u \in User : Take(t, u, q, sz) \/ Malloc(t, u, q, sz)
    BY <2>1, <2>2 DEF Take, Malloc, UserHolds
  <2>8. ~(AllocCount(t) \/ FreeCount(t) \/ ReallocCount(t))
    BY <2>2 DEF AllocCount, FreeCount, ReallocCount
  <2>9. ~(FreeRelease(t) \/ ReallocStore(t) \/ ReallocFails(t))
    <3>1. SUFFICES ASSUME FreeRelease(t) \/ ReallocStore(t) \/ ReallocFails(t) PROVE FALSE
      OBVIOUS
    <3>2. Arg(t) \in Addr /\ memory[Arg(t)].held = "callback"
      BY <2>1, <2>2, <3>1, RunningFields DEF FreeRelease, ReallocStore, ReallocFails, At, IInv,
                                             AllocInv, OneThreadPerBlock
    <3>3. \A r \in Addr : r # Arg(t) => memory'[r] = memory[r]
      BY <2>2, <3>1, <3>2, Freed DEF FreeRelease, ReallocStore, ReallocFails
    <3>. QED  BY <2>1, <2>2, <3>2, <3>3 DEF UserHolds
  <2>10. ~(AllocStore(t) \/ \E q \in Addr : ReallocMove(t, q))
    <3>1. SUFFICES ASSUME AllocStore(t) \/ \E q \in Addr : ReallocMove(t, q) PROVE FALSE
      OBVIOUS
    <3>2. Arg(t) \in Addr /\ memory[Arg(t)].held = "callback"
      BY <2>1, <2>2, <3>1, RunningFields DEF AllocStore, ReallocMove, At, IInv, AllocInv,
                                             OneThreadPerBlock
    <3>3. CASE AllocStore(t)
      BY <2>1, <2>2, <3>2, <3>3, Stored DEF UserHolds
    <3>4. ASSUME NEW q \in Addr, ReallocMove(t, q) PROVE FALSE
      BY <2>1, <2>2, <3>2, <3>4, Moved DEF UserHolds
    <3>. QED  BY <3>1, <3>3, <3>4
  <2>. QED  BY <2>4, <2>5, <2>6, <2>7, <2>8, <2>9, <2>10 DEF ThreadStep
<1>2. Spec => [][Leaves]_vars
  BY <1>1, Inductive, PTL DEF Spec
<1>. QED  BY <1>2 DEF FreedByMaker

-----------------------------------------------------------------------------
(* THE COUNT                                                               *)

(* Counting is relating it to blocks one by one: a step adds the bytes of  *)
(* one callback, takes them away or hands them to a block.                 *)
Bytes(w) == UNION {{x} \X (1..w[x]) : x \in DOMAIN w}

LEMMA BytesOfOne ==
    ASSUME NEW x, NEW n \in Nat
    PROVE  IsFiniteSet({x} \X (1..n)) /\ Cardinality({x} \X (1..n)) = n
<1>1. IsFiniteSet({x}) /\ Cardinality({x}) = 1
  BY FS_Singleton
<1>2. IsFiniteSet(1..n) /\ Cardinality(1..n) = n
  BY FS_Interval
<1>3. /\ IsFiniteSet({x} \X (1..n))
      /\ Cardinality({x} \X (1..n)) = Cardinality({x}) * Cardinality(1..n)
  BY <1>1, <1>2, FS_Product
<1>4. Cardinality({x} \X (1..n)) = 1 * n
  BY <1>1, <1>2, <1>3
<1>. QED  BY <1>3, <1>4

(* Two shares that differ for y only. *)
LEMMA BytesChange ==
    ASSUME NEW X, NEW w \in [X -> Nat], NEW v \in [X -> Nat], NEW y \in X,
           \A x \in X : x # y => v[x] = w[x],
           IsFiniteSet(Bytes(w))
    PROVE  /\ IsFiniteSet(Bytes(v))
           /\ Cardinality(Bytes(v)) = Cardinality(Bytes(w)) - w[y] + v[y]
<1>. DEFINE old   == {y} \X (1..w[y])
            new   == {y} \X (1..v[y])
            other == UNION {{x} \X (1..w[x]) : x \in X \ {y}}
<1>1. Bytes(w) = other \cup old /\ Bytes(v) = other \cup new
  BY DEF Bytes
<1>2. other \cap old = {} /\ other \cap new = {}
  OBVIOUS
<1>3. /\ IsFiniteSet(old) /\ Cardinality(old) = w[y]
      /\ IsFiniteSet(new) /\ Cardinality(new) = v[y]
  BY BytesOfOne
<1>. HIDE DEF old, new, other
<1>4. IsFiniteSet(other)
  BY <1>1, FS_Subset
<1>5. /\ Cardinality(Bytes(w)) = Cardinality(other) + w[y]
      /\ IsFiniteSet(Bytes(v)) /\ Cardinality(Bytes(v)) = Cardinality(other) + v[y]
  <2>1. Cardinality(other) \in Nat /\ Cardinality({}) = 0
    BY <1>4, FS_CardinalityType, FS_EmptySet
  <2>2. /\ IsFiniteSet(other \cup old) /\ IsFiniteSet(other \cup new)
        /\ Cardinality(other \cup old) = Cardinality(other) + w[y] - 0
        /\ Cardinality(other \cup new) = Cardinality(other) + v[y] - 0
    BY <1>2, <1>3, <1>4, <2>1, FS_Union
  <2>. QED  BY <1>1, <2>1, <2>2
<1>. QED  BY <1>4, <1>5, FS_CardinalityType

(* Bytes change hands. *)
LEMMA BytesMove ==
    ASSUME NEW X, NEW w \in [X -> Nat], NEW v \in [X -> Nat], NEW y \in X, NEW z \in X, y # z,
           v[y] = w[z], v[z] = w[y],
           \A x \in X \ {y, z} : v[x] = w[x],
           IsFiniteSet(Bytes(w))
    PROVE  IsFiniteSet(Bytes(v)) /\ Cardinality(Bytes(v)) = Cardinality(Bytes(w))
<1>. DEFINE u == [w EXCEPT ![y] = v[y]]
<1>1. u \in [X -> Nat] /\ u[y] = v[y] /\ u[z] = w[z]
  OBVIOUS
<1>2. \A x \in X : (x # y => u[x] = w[x]) /\ (x # z => v[x] = u[x])
  OBVIOUS
<1>. HIDE DEF u
<1>3. IsFiniteSet(Bytes(u)) /\ Cardinality(Bytes(u)) = Cardinality(Bytes(w)) - w[y] + v[y]
  BY <1>1, <1>2, BytesChange
<1>4. IsFiniteSet(Bytes(v)) /\ Cardinality(Bytes(v)) = Cardinality(Bytes(u)) - w[z] + v[z]
  BY <1>1, <1>2, <1>3, BytesChange
<1>5. w[y] \in Nat /\ w[z] \in Nat /\ Cardinality(Bytes(w)) \in Nat
  BY FS_CardinalityType
<1>. QED  BY <1>3, <1>4, <1>5

(* The arithmetic of an atomic size_t. *)
LEMMA DivMod ==
    ASSUME NEW w \in Nat \ {0}, NEW c \in Int
    PROVE  /\ c \div w \in Int /\ c % w \in 0..(w - 1)
           /\ c = w * (c \div w) + (c % w)
  OBVIOUS

LEMMA ModUnique ==
    ASSUME NEW w \in Nat \ {0}, NEW q \in Int, NEW r \in 0..(w - 1)
    PROVE  (w * q + r) % w = r
  OBVIOUS

(* Congruence: a number may stand for any other with the same residue.     *)
LEMMA ModStep ==
    ASSUME NEW m \in Nat \ {0}, NEW a \in Int, NEW k \in Int
    PROVE  (a + m * k) % m = a % m
<1>. DEFINE q == a \div m
            r == a % m
<1>1. q \in Int /\ r \in 0..(m - 1) /\ a = m * q + r
  BY DivMod
<1>. HIDE DEF q, r
<1>2. a + m * k = m * (q + k) + r /\ q + k \in Int
  <2>1. m * (q + k) = m * q + m * k
    BY <1>1
  <2>2. m * q \in Int /\ m * k \in Int
    BY <1>1
  <2>. QED  BY <1>1, <2>1, <2>2
<1>3. (m * (q + k) + r) % m = r
  BY <1>1, <1>2, ModUnique
<1>. QED  BY <1>2, <1>3 DEF r

LEMMA ModDiff ==
    ASSUME NEW m \in Nat \ {0}, NEW a \in Int, NEW b \in Int, a % m = b % m
    PROVE  \E k \in Int : a = b + m * k
<1>. DEFINE i == a \div m
            j == b \div m
            r == b % m
<1>1. i \in Int /\ j \in Int /\ r \in Int /\ a = m * i + r /\ b = m * j + r
  BY DivMod
<1>. HIDE DEF i, j, r
<1>2. m * (i - j) = m * i - m * j
  BY <1>1
<1>3. m * i \in Int /\ m * j \in Int
  BY <1>1
<1>4. a = b + m * (i - j) /\ i - j \in Int
  BY <1>1, <1>2, <1>3
<1>. QED  BY <1>4

(* One summand of c goes up by d. *)
LEMMA ModShift ==
    ASSUME NEW m \in Nat \ {0}, NEW u \in Int, NEW c \in Int, NEW i \in Int, NEW d \in Int,
           u % m = c % m
    PROVE  (u + d) % m = (c - (i % m) + ((i + d) % m)) % m
<1>. DEFINE r == i % m
            s == (i + d) % m
            q == i \div m
            k == (i + d) \div m
<1>1. q \in Int /\ r \in Int /\ i = m * q + r
  BY DivMod
<1>2. k \in Int /\ s \in Int /\ i + d = m * k + s
  <2>1. i + d \in Int
    OBVIOUS
  <2>. QED  BY <2>1, DivMod
<1>. HIDE DEF r, s, q, k
<1>3. m * q \in Int /\ m * k \in Int /\ m * (q - k) = m * q - m * k /\ q - k \in Int
  BY <1>1, <1>2
<1>4. c - r + s = (c + d) + m * (q - k)
  BY <1>1, <1>2, <1>3
<1>5. ((c + d) + m * (q - k)) % m = (c + d) % m
  <2>1. c + d \in Int
    OBVIOUS
  <2>. QED  BY <1>3, <2>1, ModStep
<1>6. (u + d) % m = (c + d) % m
  <2>1. PICK l \in Int : u = c + m * l
    BY ModDiff
  <2>2. u + d = (c + d) + m * l /\ c + d \in Int
    <3>1. m * l \in Int
      BY <2>1
    <3>. QED  BY <2>1, <3>1
  <2>3. ((c + d) + m * l) % m = (c + d) % m
    BY <2>1, <2>2, ModStep
  <2>. QED  BY <2>2, <2>3
<1>. QED  BY <1>4, <1>5, <1>6 DEF r, s

(* The numbers that the count is right modulo: both wrap round with it.    *)
Modulus == {Words, IntWords}

LEMMA ModTwice ==
    ASSUME NEW m \in Modulus, NEW a \in Int
    PROVE  m \in Nat \ {0} /\ a % m \in 0..(m - 1) /\ (a % Words) % m = a % m /\ (a % m) % m = a % m
<1>1. m \in Nat \ {0} /\ Words \in Nat \ {0}
  BY AllocatorAssumption DEF Modulus
<1>2. PICK n \in Int : Words = m * n
  <2>1. Words % m = 0
    <3>1. CASE m = IntWords
      BY <3>1, AllocatorAssumption
    <3>2. CASE m = Words
      <4>1. (Words * 1 + 0) % Words = 0
        BY <1>1, ModUnique
      <4>. QED  BY <1>1, <3>2, <4>1
    <3>. QED  BY <3>1, <3>2 DEF Modulus
  <2>2. Words = m * (Words \div m) + (Words % m) /\ Words \div m \in Int
    BY <1>1, DivMod
  <2>. QED  BY <1>1, <2>1, <2>2
<1>. DEFINE k == a \div Words
            r == a % Words
<1>3. k \in Int /\ r \in Int /\ a = Words * k + r
  BY <1>1, DivMod
<1>. HIDE DEF k, r
<1>4. PICK l \in Int : a = r + m * l
  <2>1. Words * k = m * (n * k)
    BY <1>1, <1>2, <1>3
  <2>2. Words * k \in Int
    BY <1>1, <1>3
  <2>3. a = r + m * (n * k) /\ n * k \in Int
    BY <1>2, <1>3, <2>1, <2>2
  <2>. QED  BY <2>3
<1>5. a % m = r % m
  <2>1. (r + m * l) % m = r % m
    BY <1>1, <1>3, <1>4, ModStep
  <2>. QED  BY <1>4, <2>1
<1>6. (a % m) % m = a % m
  <2>. DEFINE s == a % m
  <2>1. s \in 0..(m - 1)
    BY <1>1, DivMod
  <2>. HIDE DEF s
  <2>2. \A q \in Int : (m * q + s) % m = s
    BY <1>1, <2>1, ModUnique
  <2>3. m * 0 + s = s
    BY <1>1, <2>1
  <2>4. s % m = s
    BY <2>2, <2>3
  <2>. QED  BY <2>4 DEF s
<1>. QED  BY <1>1, <1>5, <1>6, DivMod DEF r

LEMMA ModZero == ASSUME NEW m \in Modulus PROVE 0 % m = 0
<1>1. m \in Nat \ {0}
  BY ModTwice
<1>2. (m * 0 + 0) % m = 0
  BY <1>1, ModUnique
<1>. QED  BY <1>1, <1>2

(* An int holds a size up to a multiple of what it wraps round at.         *)
LEMMA ToIntMod == ASSUME NEW sz \in Size PROVE ToInt(sz) % IntWords = sz % IntWords
<1>. DEFINE low == sz % IntWords
<1>1. sz \in Int /\ IntWords \in Modulus
  BY SizeTypes DEF Modulus
<1>2. IntWords \in Nat \ {0} /\ low \in Int /\ low % IntWords = low
  BY <1>1, ModTwice
<1>. HIDE DEF low
<1>3. \A k \in Int : (low + IntWords * k) % IntWords = low % IntWords
  BY <1>2, ModStep
<1>4. low - IntWords = low + IntWords * (-1) /\ -1 \in Int
  BY <1>2
<1>. QED  BY <1>2, <1>3, <1>4 DEF ToInt, low

-----------------------------------------------------------------------------
(* The invariant of the count: finitely many bytes are counted, and add up *)
(* to it; with no size too wide for an int in the middle of a callback, in *)
(* all of its width, else modulo what an int wraps round at.               *)
Sized(t)    == ~At(t, "idle") /\ ~At(t, "free_count") /\ ~At(t, "free_release")
Fits        == \A t \in Thread : Sized(t) => ToInt(running[t].sz) = running[t].sz
SameMod(m)  == \A t \in Thread : Sized(t) => ToInt(running[t].sz) % m = running[t].sz % m
Residues(m) == [x \in DOMAIN Share |-> Share[x] % m]
Kept(m)     == IsFiniteSet(Counted(m)) /\ AddsUp(m)

CountInv == /\ spoilt = {} => Fits /\ Kept(Words)
            /\ spoilt \subseteq {"wide"} => Kept(IntWords)

LEMMA ShareType == TypeOK => Share \in [Thread \cup Addr -> Int]
<1>. SUFFICES ASSUME TypeOK PROVE Share \in [Thread \cup Addr -> Int]
  OBVIOUS
<1>1. ASSUME NEW t \in Thread PROVE InCount(t) \in Int
  <2>1. CASE running[t].at \in {"alloc_store", "realloc_store"}
    <3>1. running[t].sz \in Nat
      BY <2>1, RunningFields, SizeTypes DEF At
    <3>. QED  BY <2>1, <3>1 DEF InCount
  <2>2. CASE running[t].at \in {"free_count", "realloc_count", "realloc_move"}
    <3>1. memory[Arg(t)].box \in Int
      BY <2>2, RunningFields DEF At, Memory
    <3>. QED  BY <2>2, <3>1 DEF InCount
  <2>. QED  BY <2>1, <2>2 DEF InCount
<1>2. ASSUME NEW p \in Addr PROVE InPrefix(p) \in Int
  BY DEF InPrefix, TypeOK, Memory
<1>. QED  BY <1>1, <1>2 DEF Share

ResiduesOK ==
    \A m \in Modulus :
        Residues(m) \in [Thread \cup Addr -> Nat] /\ Counted(m) = Bytes(Residues(m))

LEMMA ResiduesType == TypeOK => ResiduesOK
<1>. SUFFICES ASSUME TypeOK, NEW m \in Modulus
              PROVE  Residues(m) \in [Thread \cup Addr -> Nat] /\ Counted(m) = Bytes(Residues(m))
  BY DEF ResiduesOK
<1>1. \A x \in Thread \cup Addr : Share[x] \in Int
  BY ShareType
<1>2. \A x \in Thread \cup Addr : Share[x] % m \in Nat
  BY <1>1, ModTwice
<1>3. DOMAIN Share = Thread \cup Addr
  BY DEF Share
<1>. QED  BY <1>2, <1>3 DEF Residues, Counted, Bytes

LEMMA ResiduesAt ==
    ASSUME NEW m \in Modulus
    PROVE  /\ \A t \in Thread : Residues(m)[t] = InCount(t) % m
           /\ \A p \in Addr : Residues(m)[p] = InPrefix(p) % m
  BY AllocatorAssumption DEF Share, Residues

(* The three things a step can do to the count. *)
LEMMA CountStays ==
    ASSUME TypeOK, TypeOK', NEW m \in Modulus, Kept(m), used' = used,
           \A t \in Thread : InCount(t)' % m = InCount(t) % m,
           \A p \in Addr : InPrefix(p)' % m = InPrefix(p) % m
    PROVE  Kept(m)'
<1>1. Residues(m)' = Residues(m)
  BY DEF Residues, Share
<1>2. (TypeOK => ResiduesOK)'
  BY ResiduesType, PTL
<1>3. Counted(m)' = Counted(m)
  <2>1. Counted(m) = Bytes(Residues(m))
    BY ResiduesType DEF ResiduesOK
  <2>2. Counted(m)' = Bytes(Residues(m)')
    BY <1>2 DEF ResiduesOK
  <2>. QED  BY <1>1, <2>1, <2>2
<1>. QED  BY <1>3 DEF Kept, AddsUp

LEMMA CountShifts ==
    ASSUME TypeOK, TypeOK', NEW m \in Modulus, Kept(m), NEW t \in Thread, NEW d \in Int,
           used' = (used + d) % Words, InCount(t)' % m = (InCount(t) + d) % m,
           \A s \in Thread \ {t} : InCount(s)' = InCount(s),
           \A p \in Addr : InPrefix(p)' = InPrefix(p)
    PROVE  Kept(m)'
<1>. DEFINE X == Thread \cup Addr
            w == Residues(m)
            v == Residues(m)'
            c == Cardinality(Counted(m))
            i == InCount(t)
            r == i % m
            s == (i + d) % m
<1>1. /\ w \in [X -> Nat] /\ Counted(m) = Bytes(w)
      /\ v \in [X -> Nat] /\ Counted(m)' = Bytes(v)
  <2>1. (TypeOK => ResiduesOK)'
    BY ResiduesType, PTL
  <2>. QED  BY <2>1, ResiduesType DEF ResiduesOK
<1>2. w[t] = r /\ v[t] = s /\ \A x \in X : x # t => v[x] = w[x]
  BY AllocatorAssumption DEF Residues, Share
<1>3. i \in Int /\ used \in Int
  <2>1. Share[t] \in Int /\ Share[t] = InCount(t)
    BY ShareType DEF Share
  <2>. QED  BY <2>1, AllocatorAssumption DEF TypeOK
<1>. HIDE DEF w, v, i
<1>4. IsFiniteSet(Bytes(v)) /\ Cardinality(Bytes(v)) = Cardinality(Bytes(w)) - w[t] + v[t]
  BY <1>1, <1>2, BytesChange DEF Kept
<1>5. c \in Nat /\ Cardinality(Counted(m)') = c - r + s
  BY <1>1, <1>2, <1>4, FS_CardinalityType DEF Kept
<1>6. used % m = c % m
  BY DEF Kept, AddsUp
<1>. HIDE DEF c
<1>7. used' % m = (used + d) % m
  <2>1. used + d \in Int
    BY <1>3
  <2>. QED  BY <2>1, ModTwice
<1>8. (used + d) % m = (c - r + s) % m
  <2>1. m \in Nat \ {0}
    BY ModTwice
  <2>2. (used + d) % m = (c - (i % m) + ((i + d) % m)) % m
    <3>1. c \in Int
      BY <1>5
    <3>. HIDE DEF r, s
    <3>2. \A u, a, b, e \in Int :
              u % m = a % m => (u + e) % m = (a - (b % m) + ((b + e) % m)) % m
      BY <2>1, ModShift
    <3>3. used \in Int /\ i \in Int /\ d \in Int
      BY <1>3
    <3>4. used % m = c % m
      BY <1>6
    <3>5. \A a, b, e \in Int :
              used % m = a % m => (used + e) % m = (a - (b % m) + ((b + e) % m)) % m
      BY <3>2, <3>3, Zenon
    <3>6. \A b, e \in Int : (used + e) % m = (c - (b % m) + ((b + e) % m)) % m
      BY <3>1, <3>4, <3>5, Zenon
    <3>. QED  BY <3>3, <3>6, Zenon
  <2>. QED  BY <2>2
<1>. QED  BY <1>1, <1>4, <1>5, <1>7, <1>8 DEF Kept, AddsUp

LEMMA CountMoves ==
    ASSUME TypeOK, TypeOK', NEW m \in Modulus, Kept(m), used' = used,
           NEW t \in Thread, NEW p \in Addr,
           InCount(t)' % m = InPrefix(p) % m, InPrefix(p)' % m = InCount(t) % m,
           \A s \in Thread \ {t} : InCount(s)' = InCount(s),
           \A q \in Addr \ {p} : InPrefix(q)' = InPrefix(q)
    PROVE  Kept(m)'
<1>. DEFINE X == Thread \cup Addr
            w == Residues(m)
            v == Residues(m)'
<1>1. /\ w \in [X -> Nat] /\ Counted(m) = Bytes(w)
      /\ v \in [X -> Nat] /\ Counted(m)' = Bytes(v)
  <2>1. (TypeOK => ResiduesOK)'
    BY ResiduesType, PTL
  <2>. QED  BY <2>1, ResiduesType DEF ResiduesOK
<1>2. t # p
  BY AllocatorAssumption
<1>3. v[t] = w[p] /\ v[p] = w[t] /\ \A x \in X \ {t, p} : v[x] = w[x]
  BY <1>2, AllocatorAssumption DEF Residues, Share
<1>. HIDE DEF w, v
<1>4. IsFiniteSet(Bytes(v)) /\ Cardinality(Bytes(v)) = Cardinality(Bytes(w))
  BY <1>1, <1>2, <1>3, BytesMove DEF Kept
<1>. QED  BY <1>1, <1>4 DEF Kept, AddsUp

-----------------------------------------------------------------------------
(* The steps, while no block has been cut and no callbacks changed.        *)
Unhurt == {"cut", "changed"} \cap spoilt = {}

(* The other threads are working on other blocks. *)
LEMMA OthersCount ==
    ASSUME TypeOK, OneThreadPerBlock, NEW t \in Thread,
           \A s \in Thread \ {t} : running'[s] = running[s],
           \A q \in Addr : /\ memory[q].held = "callback" /\ (At(t, "idle") \/ q # Arg(t))
                           => memory'[q].box = memory[q].box
    PROVE  \A s \in Thread \ {t} : InCount(s)' = InCount(s)
<1>. SUFFICES ASSUME NEW s \in Thread \ {t} PROVE InCount(s)' = InCount(s)
  OBVIOUS
<1>1. CASE At(s, "idle")
  BY <1>1 DEF InCount, At
<1>2. CASE ~At(s, "idle")
  <2>1. Arg(s) \in Addr /\ memory'[Arg(s)].box = memory[Arg(s)].box
    BY <1>2, RunningFields DEF OneThreadPerBlock
  <2>. QED  BY <2>1 DEF InCount, Arg
<1>. QED  BY <1>1, <1>2

(* Blocks without a prefix are not in the count. *)
LEMMA UntrackedCount ==
    ASSUME TypeOK, TypeOK', AllocInv, Unhurt', NEW m \in Modulus, Kept(m),
           NEW t \in Thread, NEW p \in Addr,
           Return(t, p) \/ \E sz \in Size, u \in User : Take(t, u, p, sz)
    PROVE  Kept(m)'
<1>1. /\ UNCHANGED <<running, used>>
      /\ memory[p].held # "callback" /\ InPrefix(p) = 0 /\ InPrefix(p)' = 0
      /\ \A q \in Addr : q # p => memory'[q] = memory[q]
  <2>1. CASE Return(t, p)
    <3>1. UserHolds(p) /\ memory[p].maker = "default"
      BY <2>1 DEF Return, Served, Unhurt, AllocInv, MakersKnown
    <3>. QED  BY <2>1, <3>1, Freed DEF Return, NoMemory, InPrefix, UserHolds
  <2>2. ASSUME NEW sz \in Size, NEW u \in User, Take(t, u, p, sz)
        PROVE  /\ UNCHANGED <<running, used>> /\ memory[p].held = "free"
               /\ memory'[p].maker = "default"
               /\ \A q \in Addr : q # p => memory'[q] = memory[q]
    BY <2>2 DEF Take, NoMemory, TypeOK
  <2>. QED  BY <2>1, <2>2 DEF InPrefix, UserHolds
<1>2. \A s \in Thread : InCount(s)' = InCount(s)
  <2>1. ASSUME NEW s \in Thread, ~At(s, "idle") PROVE memory'[Arg(s)] = memory[Arg(s)]
    BY <1>1, <2>1, RunningFields DEF AllocInv, OneThreadPerBlock
  <2>2. ASSUME NEW s \in Thread PROVE InCount(s)' = InCount(s)
    BY <1>1, <2>1 DEF InCount, Arg, At
  <2>. QED  BY <2>2
<1>3. \A q \in Addr : InPrefix(q)' = InPrefix(q)
  BY <1>1 DEF InPrefix, UserHolds
<1>. QED  BY <1>1, <1>2, <1>3, CountStays

(* The heap has a new block, which nothing is counted for yet. *)
LEMMA MallocCount ==
    ASSUME TypeOK, TypeOK', AllocInv, NEW m \in Modulus, Kept(m),
           NEW t \in Thread, NEW p \in Addr, NEW sz \in Size, NEW u \in User,
           Malloc(t, u, p, sz)
    PROVE  Kept(m)'
<1>1. /\ used' = used /\ At(t, "idle") /\ memory[p].held = "free"
      /\ memory'[p].held = "callback"
      /\ \A q \in Addr : q # p => memory'[q] = memory[q]
      /\ running'[t] = [at |-> "alloc_count", p |-> p, sz |-> sz]
      /\ \A s \in Thread : s # t => running'[s] = running[s]
  BY DEF Malloc, Enter, NoMemory, TypeOK
<1>2. \A s \in Thread \ {t} : InCount(s)' = InCount(s)
  BY <1>1, OthersCount DEF AllocInv
<1>3. InCount(t)' = InCount(t)
  BY <1>1 DEF InCount, At
<1>4. \A q \in Addr : InPrefix(q)' = InPrefix(q)
  BY <1>1 DEF InPrefix, UserHolds
<1>. QED  BY <1>1, <1>2, <1>3, <1>4, CountStays

(* A block goes into a callback, and its bytes with it. *)
LEMMA EnterCount ==
    ASSUME TypeOK, TypeOK', AllocInv, Unhurt', spoilt \subseteq spoilt',
           NEW m \in Modulus, Kept(m), NEW t \in Thread, NEW p \in Addr,
           Free(t, p) \/ \E sz \in Size : Realloc(t, p, sz)
    PROVE  Kept(m)'
<1>1. /\ used' = used /\ At(t, "idle") /\ Served(p, "tracked") /\ Handed(p)
      /\ running'[t].p = p /\ running'[t].at \in {"free_count", "realloc_count"}
      /\ \A s \in Thread : s # t => running'[s] = running[s]
  BY DEF Free, Realloc, Enter, TypeOK
<1>2. UserHolds(p) /\ memory[p].maker = "tracked"
  BY <1>1 DEF Served, Unhurt, AllocInv, MakersKnown
<1>3. /\ memory'[p].held = "callback" /\ memory'[p].box = memory[p].box
      /\ \A q \in Addr : q # p => memory'[q] = memory[q]
  BY <1>1, <1>2, HandedOver
<1>4. \A s \in Thread \ {t} : InCount(s)' = InCount(s)
  BY <1>1, <1>2, <1>3, OthersCount DEF AllocInv, UserHolds
<1>5. InCount(t)' = InPrefix(p) /\ InPrefix(p)' = InCount(t)
  BY <1>1, <1>2, <1>3 DEF InCount, InPrefix, UserHolds, Arg, At
<1>6. \A q \in Addr \ {p} : InPrefix(q)' = InPrefix(q)
  BY <1>3 DEF InPrefix, UserHolds
<1>. QED  BY <1>1, <1>4, <1>5, <1>6, CountMoves

(* The count goes up or down by what a callback is working on. *)
LEMMA ShiftCount ==
    ASSUME TypeOK, TypeOK', NEW m \in Modulus, Kept(m), NEW t \in Thread,
           AllocCount(t) \/ FreeCount(t) \/ ReallocCount(t)
    PROVE  Kept(m)'
<1>. DEFINE box == memory[Arg(t)].box
            sz  == running[t].sz
<1>1. /\ memory' = memory /\ ~At(t, "idle") /\ running'[t].p = Arg(t)
      /\ \A s \in Thread \ {t} : running'[s] = running[s]
  BY DEF AllocCount, FreeCount, ReallocCount, Goto, At, Arg, TypeOK, Running, Idle
<1>2. box \in Int
  BY <1>1, RunningFields DEF Memory
<1>3. PICK d \in Int : used' = (used + d) % Words /\ InCount(t)' = InCount(t) + d
  <2>1. CASE AllocCount(t)
    <3>1. running'[t].at = "alloc_store" /\ running'[t].sz = sz /\ running[t].at = "alloc_count"
      BY <2>1 DEF AllocCount, Goto, At, TypeOK, Running, Idle
    <3>2. sz \in Int
      BY <3>1, RunningFields, SizeTypes DEF At
    <3>3. InCount(t) = 0 /\ InCount(t)' = sz
      BY <3>1 DEF InCount
    <3>4. used' = (used + sz) % Words
      BY <2>1 DEF AllocCount, CountBytes
    <3>. QED  BY <3>2, <3>3, <3>4
  <2>2. CASE FreeCount(t)
    <3>1. running'[t].at = "free_release" /\ running[t].at = "free_count"
      BY <2>2 DEF FreeCount, Goto, At, TypeOK, Running, Idle
    <3>2. InCount(t) = box /\ InCount(t)' = 0
      BY <3>1 DEF InCount
    <3>3. used' = (used + (-box)) % Words
      BY <2>2 DEF FreeCount, CountBytes
    <3>. QED  BY <1>2, <3>2, <3>3
  <2>3. CASE ReallocCount(t)
    <3>1. /\ running'[t].at = "realloc_store" /\ running'[t].sz = sz
          /\ running[t].at = "realloc_count"
      BY <2>3 DEF ReallocCount, Goto, At, TypeOK, Running, Idle
    <3>2. sz \in Int
      BY <3>1, RunningFields, SizeTypes DEF At
    <3>3. InCount(t) = box /\ InCount(t)' = sz
      BY <3>1 DEF InCount
    <3>4. used' = (used + (sz - box)) % Words
      BY <2>3 DEF ReallocCount, CountBytes
    <3>5. sz - box \in Int /\ sz = box + (sz - box)
      BY <1>2, <3>2
    <3>. QED  BY <3>3, <3>4, <3>5
  <2>. QED  BY <2>1, <2>2, <2>3
<1>4. \A s \in Thread \ {t} : InCount(s)' = InCount(s)
  BY <1>1 DEF InCount, Arg
<1>5. \A q \in Addr : InPrefix(q)' = InPrefix(q)
  BY <1>1 DEF InPrefix, UserHolds
<1>. QED  BY <1>3, <1>4, <1>5, CountShifts

(* The prefix gets the size that is in the count, as an int. *)
LEMMA StoreCount ==
    ASSUME TypeOK, TypeOK', AllocInv, NEW m \in Modulus, Kept(m), SameMod(m),
           NEW t \in Thread, ReallocStore(t)
    PROVE  Kept(m)'
<1>. DEFINE sz == running[t].sz
<1>1. /\ used' = used /\ Arg(t) \in Addr /\ running[t].at = "realloc_store"
      /\ ToInt(sz) % m = sz % m /\ memory[Arg(t)].held = "callback"
  <2>1. used' = used /\ running[t].at = "realloc_store"
    BY DEF ReallocStore, At
  <2>. QED  BY <2>1, RunningFields DEF At, AllocInv, OneThreadPerBlock, SameMod, Sized
<1>2. /\ memory'[Arg(t)].box = ToInt(sz) /\ memory'[Arg(t)].held = "callback"
      /\ \A q \in Addr : q # Arg(t) => memory'[q] = memory[q]
  BY <1>1 DEF ReallocStore, TypeOK, Memory
<1>3. /\ running'[t].at = "realloc_move" /\ running'[t].p = Arg(t)
      /\ \A s \in Thread \ {t} : running'[s] = running[s]
  BY <1>1 DEF ReallocStore, Goto, Arg, TypeOK, Running, Idle
<1>4. \A s \in Thread \ {t} : InCount(s)' = InCount(s)
  BY <1>1, <1>2, <1>3, OthersCount DEF AllocInv, At
<1>5. InCount(t)' % m = InCount(t) % m
  <2>1. InCount(t)' = ToInt(sz) /\ InCount(t) = sz
    BY <1>1, <1>2, <1>3 DEF InCount, Arg
  <2>. QED  BY <1>1, <2>1
<1>6. \A q \in Addr : InPrefix(q)' = InPrefix(q)
  BY <1>1, <1>2 DEF InPrefix, UserHolds
<1>7. \A s \in Thread : InCount(s)' % m = InCount(s) % m
  BY <1>4, <1>5
<1>. QED  BY <1>1, <1>6, <1>7, CountStays

(* A callback gives its block to the heap: its bytes have left the count. *)
LEMMA ReleaseCount ==
    ASSUME TypeOK, TypeOK', AllocInv, NEW m \in Modulus, Kept(m), NEW t \in Thread, FreeRelease(t)
    PROVE  Kept(m)'
<1>1. /\ used' = used /\ Arg(t) \in Addr /\ running[t].at = "free_release"
      /\ memory[Arg(t)].held = "callback" /\ HeapFree(Arg(t), "tracked")
      /\ running'[t] = Idle /\ \A s \in Thread \ {t} : running'[s] = running[s]
  BY RunningFields DEF FreeRelease, Leave, At, TypeOK, AllocInv, OneThreadPerBlock
<1>2. /\ memory'[Arg(t)].held \in {"free", "lost"}
      /\ \A q \in Addr : q # Arg(t) => memory'[q] = memory[q]
  BY <1>1, Freed
<1>3. \A s \in Thread \ {t} : InCount(s)' = InCount(s)
  BY <1>1, <1>2, OthersCount DEF AllocInv, At
<1>4. InCount(t)' = InCount(t)
  BY <1>1 DEF InCount, Idle
<1>5. \A q \in Addr : InPrefix(q)' = InPrefix(q)
  BY <1>1, <1>2 DEF InPrefix, UserHolds
<1>. QED  BY <1>1, <1>3, <1>4, <1>5, CountStays

(* A callback gives its block to a user, perhaps at another address: the   *)
(* bytes it has in the count are those in the prefix.                      *)
LEMMA DeliverCount ==
    ASSUME TypeOK, TypeOK', AllocInv, Unhurt', spoilt \subseteq spoilt',
           NEW m \in Modulus, Kept(m), SameMod(m), NEW t \in Thread,
           AllocStore(t) \/ ReallocFails(t) \/ \E q \in Addr : ReallocMove(t, q)
    PROVE  Kept(m)'
<1>1. /\ used' = used /\ Arg(t) \in Addr /\ ~At(t, "idle")
      /\ memory[Arg(t)].held = "callback" /\ memory[Arg(t)].maker = "tracked"
      /\ running'[t] = Idle /\ \A s \in Thread \ {t} : running'[s] = running[s]
  <2>1. used' = used /\ ~At(t, "idle") /\ Leave(t)
    BY DEF AllocStore, ReallocFails, ReallocMove, At
  <2>2. Arg(t) \in Addr /\ memory[Arg(t)].held = "callback"
    BY <2>1, RunningFields DEF AllocInv, OneThreadPerBlock
  <2>. QED  BY <2>1, <2>2 DEF Leave, AllocInv, MakersKnown, Unhurt, TypeOK
<1>2. PICK q \in Addr :
          /\ q = Arg(t) \/ memory[q].held = "free"
          /\ \A r \in Addr : r # q /\ r # Arg(t) => memory'[r] = memory[r]
          /\ q # Arg(t) => memory'[Arg(t)] = NoMemory
          /\ memory'[q].held = "user" /\ memory'[q].maker = "tracked"
          /\ memory'[q].box % m = InCount(t) % m
  <2>1. CASE AllocStore(t)
    <3>1. running[t].at = "alloc_store" /\ InCount(t) = running[t].sz
      BY <2>1 DEF AllocStore, At, InCount
    <3>2. ToInt(running[t].sz) % m = running[t].sz % m
      BY <1>1, <3>1 DEF SameMod, Sized, At
    <3>3. memory'[Arg(t)].box = ToInt(running[t].sz)
      BY <2>1, Stored DEF Unhurt
    <3>4. memory'[Arg(t)].box % m = InCount(t) % m
      BY <3>1, <3>2, <3>3
    <3>. QED  BY <1>1, <2>1, <3>4, Stored
  <2>2. CASE ReallocFails(t)
    <3>1. /\ memory'[Arg(t)].held = "user" /\ memory'[Arg(t)].maker = "tracked"
          /\ memory'[Arg(t)].box = memory[Arg(t)].box
          /\ \A r \in Addr : r # Arg(t) => memory'[r] = memory[r]
      BY <1>1, <2>2 DEF ReallocFails, TypeOK, Memory
    <3>2. InCount(t) = memory[Arg(t)].box
      BY <2>2 DEF InCount, ReallocFails, At
    <3>. QED  BY <1>1, <3>1, <3>2
  <2>3. ASSUME NEW q \in Addr, ReallocMove(t, q)
        PROVE  /\ q = Arg(t) \/ memory[q].held = "free"
               /\ \A r \in Addr : r # q /\ r # Arg(t) => memory'[r] = memory[r]
               /\ q # Arg(t) => memory'[Arg(t)] = NoMemory
               /\ memory'[q].held = "user" /\ memory'[q].maker = "tracked"
               /\ memory'[q].box = InCount(t)
    <3>1. InCount(t) = memory[Arg(t)].box
      BY <2>3 DEF InCount, ReallocMove, At
    <3>2. "cut" \notin spoilt'
      BY DEF Unhurt
    <3>. QED  BY <2>3, <3>1, <3>2, Moved
  <2>4. CASE \E q \in Addr : ReallocMove(t, q)
    BY <2>3, <2>4
  <2>. QED  BY <2>1, <2>2, <2>4
<1>3. \A s \in Thread \ {t} : InCount(s)' = InCount(s)
  BY <1>1, <1>2, OthersCount DEF AllocInv
<1>4. InCount(t)' = 0 /\ InPrefix(q) = 0
  BY <1>1, <1>2 DEF InCount, Idle, InPrefix, UserHolds
<1>5. InPrefix(q)' % m = InCount(t) % m /\ InCount(t)' % m = InPrefix(q) % m
  BY <1>2, <1>4 DEF InPrefix, UserHolds
<1>6. \A r \in Addr \ {q} : InPrefix(r)' = InPrefix(r)
  BY <1>1, <1>2 DEF InPrefix, UserHolds, NoMemory
<1>. QED  BY <1>1, <1>3, <1>5, <1>6, CountMoves

-----------------------------------------------------------------------------
LEMMA CountInit == Init => CountInv
<1>. SUFFICES ASSUME Init PROVE CountInv
  OBVIOUS
<1>1. Fits
  BY DEF Init, Fits, Sized, Idle, At
<1>2. \A x \in DOMAIN Share : Share[x] = 0
  BY DEF Init, Share, InCount, InPrefix, Idle, NoMemory, UserHolds
<1>3. ASSUME NEW m \in Modulus PROVE Kept(m)
  <2>1. 0 % m = 0
    BY ModZero
  <2>2. Counted(m) = {}
    BY <1>2, <2>1 DEF Counted
  <2>3. IsFiniteSet(Counted(m)) /\ Cardinality(Counted(m)) = 0
    BY <2>2, FS_EmptySet
  <2>. QED  BY <2>1, <2>3 DEF Init, Kept, AddsUp
<1>. QED  BY <1>1, <1>3 DEF CountInv, Modulus

(* Modulo the width of both, every step keeps the count. *)
LEMMA KeptStep ==
    ASSUME IInv, IInv', [Next]_vars, Unhurt', spoilt \subseteq spoilt',
           NEW m \in Modulus, Kept(m), SameMod(m)
    PROVE  Kept(m)'
<1>. USE DEF IInv
<1>1. ASSUME NEW t \in Thread, ThreadStep(t) PROVE Kept(m)'
  BY <1>1, UntrackedCount, MallocCount, EnterCount, ShiftCount, StoreCount, ReleaseCount,
     DeliverCount DEF ThreadStep
<1>2. ASSUME UNCHANGED <<memory, used, running>> PROVE Kept(m)'
  <2>1. Share' = Share
    BY <1>2 DEF Share, InCount, Arg, InPrefix, UserHolds
  <2>2. Counted(m)' = Counted(m)
    BY <2>1 DEF Counted
  <2>. QED  BY <1>2, <2>2 DEF Kept, AddsUp
<1>. QED  BY <1>1, <1>2 DEF Next, ThreadStep, SetCallbacks, LogInit, vars

(* No callback starts on a size that does not fit without its being noted. *)
LEMMA FitsStep == IInv /\ [Next]_vars /\ spoilt' = {} /\ Fits => Fits'
<1>. SUFFICES ASSUME TypeOK, [Next]_vars, spoilt' = {}, Fits PROVE Fits'
  BY DEF IInv
<1>1. ASSUME NEW t \in Thread, NEW s \in Thread, ThreadStep(t), Sized(s)'
      PROVE  ToInt(running'[s].sz) = running'[s].sz
  <2>1. CASE s # t
    <3>1. running'[s] = running[s]
      BY <1>1, <2>1 DEF ThreadStep, Take, Return, Malloc, AllocCount, AllocStore, Free, FreeCount,
                        FreeRelease, Realloc, ReallocCount, ReallocStore, ReallocMove,
                        ReallocFails, Enter, Goto, Leave, TypeOK
    <3>. QED  BY <1>1, <3>1 DEF Fits, Sized, At
  <2>2. CASE s = t
    <3>1. ASSUME NEW p \in Addr, NEW sz \in Size,
                 Realloc(t, p, sz) \/ \E u \in User : Malloc(t, u, p, sz)
          PROVE  ToInt(running'[t].sz) = running'[t].sz
      <4>1. Spoil(Wide(sz)) /\ \E place : Enter(t, [at |-> place, p |-> p, sz |-> sz])
        BY <3>1 DEF Realloc, Malloc
      <4>2. running'[t].sz = sz
        BY <4>1 DEF Enter, TypeOK
      <4>3. Wide(sz) = {}
        BY <4>1 DEF Spoil
      <4>. QED  BY <4>2, <4>3 DEF Wide
    <3>2. CASE \/ \E p \in Addr : Free(t, p) \/ ReallocMove(t, p)
               \/ AllocStore(t) \/ FreeRelease(t) \/ ReallocFails(t)
      <4>1. running'[t] = Idle \/ running'[t].at = "free_count"
        <5>1. Leave(t) \/ \E p \in Addr : Enter(t, [at |-> "free_count", p |-> p])
          BY <3>2 DEF Free, ReallocMove, AllocStore, FreeRelease, ReallocFails
        <5>. QED  BY <5>1 DEF Enter, Leave, TypeOK
      <4>. QED  BY <1>1, <2>2, <4>1 DEF Sized, At, Idle
    <3>3. CASE AllocCount(t) \/ FreeCount(t) \/ ReallocCount(t) \/ ReallocStore(t)
      <4>1. Sized(t) /\ running'[t].sz = running[t].sz
        BY <1>1, <2>2, <3>3 DEF AllocCount, FreeCount, ReallocCount, ReallocStore, Goto, Sized, At,
                                TypeOK, Running, Idle
      <4>. QED  BY <2>2, <4>1 DEF Fits
    <3>4. CASE \E p \in Addr : Return(t, p) \/ \E sz \in Size, u \in User : Take(t, u, p, sz)
      BY <1>1, <2>2, <3>4 DEF Return, Take, Fits, Sized, At
    <3>. QED  BY <1>1, <2>2, <3>1, <3>2, <3>3, <3>4 DEF ThreadStep
  <2>. QED  BY <2>1, <2>2
<1>2. ASSUME UNCHANGED running PROVE Fits'
  BY <1>2 DEF Fits, Sized, At
<1>. QED  BY <1>1, <1>2 DEF Fits, Next, ThreadStep, SetCallbacks, LogInit, vars

LEMMA CountStep ==
    IInv /\ IInv' /\ spoilt \subseteq spoilt' /\ CountInv /\ [Next]_vars => CountInv'
<1>. SUFFICES ASSUME IInv, IInv', spoilt \subseteq spoilt', CountInv, [Next]_vars PROVE CountInv'
  OBVIOUS
<1>1. Words \in Modulus /\ IntWords \in Modulus
  BY DEF Modulus
<1>2. ASSUME spoilt' = {} PROVE Fits' /\ Kept(Words)'
  <2>1. spoilt = {} /\ Unhurt'
    BY <1>2 DEF Unhurt
  <2>2. Fits /\ Kept(Words)
    BY <2>1 DEF CountInv
  <2>3. SameMod(Words)
    BY <2>2 DEF Fits, SameMod
  <2>. QED  BY <1>1, <1>2, <2>1, <2>2, <2>3, FitsStep, KeptStep
<1>3. ASSUME spoilt' \subseteq {"wide"} PROVE Kept(IntWords)'
  <2>1. spoilt \subseteq {"wide"} /\ Unhurt'
    BY <1>3 DEF Unhurt
  <2>2. SameMod(IntWords)
    BY ToIntMod, RunningFields DEF SameMod, Sized, IInv
  <2>. QED  BY <1>1, <2>1, <2>2, KeptStep DEF CountInv
<1>. QED  BY <1>2, <1>3 DEF CountInv

(* The count is what the prefixes of the blocks and the callbacks under    *)
(* way add up to: all of it, or, after a size that an int does not hold,   *)
(* all but a multiple of the width of int.  For any number of threads,     *)
(* blocks and bytes, and any width of size_t.                              *)
THEOREM CountIsExact == Spec => []Accounted
<1>1. CountInv => Accounted
  BY DEF CountInv, Kept, Accounted
<1>. QED  BY <1>1, CountInit, CountStep, Inductive, IInvStep, PTL DEF Spec

(* Whenever no callback is running and no user has a block that callbacks  *)
(* made, the count is back at zero, or a multiple of the width of int.     *)
ZeroAtRest ==
    (\A p \in Addr : memory[p].held # "callback" /\ (UserHolds(p) => memory[p].maker = "default"))
    => /\ spoilt = {} => used = 0
       /\ spoilt \subseteq {"wide"} => used % IntWords = 0

THEOREM CountReturnsToZero == Spec => []ZeroAtRest
<1>1. ASSUME IInv, CountInv,
             \A p \in Addr :
                memory[p].held # "callback" /\ (UserHolds(p) => memory[p].maker = "default")
      PROVE  /\ spoilt = {} => used = 0
             /\ spoilt \subseteq {"wide"} => used % IntWords = 0
  <2>1. \A t \in Thread : InCount(t) = 0
    BY <1>1, RunningFields DEF IInv, AllocInv, OneThreadPerBlock, InCount, At
  <2>2. \A p \in Addr : InPrefix(p) = 0
    BY <1>1 DEF InPrefix
  <2>3. \A x \in DOMAIN Share : Share[x] = 0
    BY <2>1, <2>2 DEF Share
  <2>4. ASSUME NEW m \in Modulus, Kept(m) PROVE used % m = 0
    <3>1. 0 % m = 0
      BY ModZero
    <3>2. Counted(m) = {}
      BY <2>3, <3>1 DEF Counted
    <3>. QED  BY <2>4, <3>1, <3>2, FS_EmptySet DEF Kept, AddsUp
  <2>5. used % Words = used
    <3>1. \A q \in Int : (Words * q + used) % Words = used
      BY <1>1, AllocatorAssumption, ModUnique DEF IInv, TypeOK
    <3>2. Words * 0 + used = used
      BY <1>1, AllocatorAssumption DEF IInv, TypeOK
    <3>. QED  BY <3>1, <3>2
  <2>. QED  BY <1>1, <2>4, <2>5 DEF CountInv, Modulus
<1>2. IInv /\ CountInv => ZeroAtRest
  BY <1>1 DEF ZeroAtRest
<1>3. Spec => []CountInv
  BY CountInit, CountStep, Inductive, IInvStep, PTL DEF Spec
<1>. QED  BY <1>2, <1>3, Inductive, PTL
==============================================================================
