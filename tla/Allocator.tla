------------------------------ MODULE Allocator ------------------------------
(***************************************************************************)
(* Who allocates with which callbacks.  The wrappers pass the global       *)
(* gEngineAllocationCallbacks to miniaudio when a node is made and again,  *)
(* whatever it points to by then, when the node is uninitialised; every    *)
(* Engine::Init copies those of the moment into the one log; the engine    *)
(* and its sounds keep the null ones that the engine was made with.  The   *)
(* test program's callbacks keep a block's size in a prefix of it          *)
(* (sizeBox) and a count of the bytes in use.                              *)
(*                                                                         *)
(* Any thread may run a callback: the library allocates for nodes on the   *)
(* game's and for log messages on its own.  A callback takes as many steps *)
(* as it has accesses to the heap, to the count, an atomic, and to the     *)
(* prefix.  size_t is modulo Words, the int of the prefix modulo IntWords. *)
(* Blocks are asked for with at least one byte, as the library does.       *)
(***************************************************************************)
EXTENDS Integers, FiniteSets

CONSTANTS Thread, Addr,
          Size,      \* bytes asked for
          Prefix,    \* bytes before the pointer that is given out
          Box,       \* of those, the bytes of the int
          Words, IntWords,  \* 2^width of size_t and of int
          Garbage    \* ints that may be read where no prefix was written

ASSUME AllocatorAssumption ==
    /\ Words \in Nat \ {0} /\ IntWords \in Nat \ {0}
    /\ IntWords % 2 = 0 /\ Words % IntWords = 0
    /\ Prefix \in Nat /\ Box \in 1..Prefix /\ Size \subseteq 1..(Words - 1)
    /\ Garbage \subseteq Int /\ Thread \cap Addr = {}

VARIABLES callbacks,  \* what gEngineAllocationCallbacks points to
          log,        \* the callbacks of g_maLog, once it is initialised
          memory,     \* the heap
          used,       \* sMemoryUsedByEngine
          running,    \* what each thread is in the middle of
          spoilt      \* what has happened that the callbacks do not bear

vars == <<callbacks, log, memory, used, running, spoilt>>

Callbacks == {"default", "tracked"}
User      == {"node", "log", "engine"}

(* wide: a size was asked for that does not fit an int; cut: a block was   *)
(* too short for its prefix; changed: the callbacks of a user were, while  *)
(* it had a block.                                                         *)
Mishap == {"wide", "cut", "changed"}

(* held: by nobody, a callback, its user, or lost to the heap by a free    *)
(* with a wrong pointer; box: the int in its prefix.                       *)
Memory == [held : {"free", "callback", "user", "lost"}, user : User, maker : Callbacks,
           box : Int]
NoMemory == [held |-> "free", user |-> "node", maker |-> "default", box |-> 0]

Idle == [at |-> "idle"]
Running == {Idle}
    \cup [at : {"alloc_count", "alloc_store", "realloc_count", "realloc_store",
                "realloc_move"}, p : Addr, sz : Size]
    \cup [at : {"free_count", "free_release"}, p : Addr]

TypeOK ==
    /\ callbacks \in Callbacks /\ log \in Callbacks \cup {"none"}
    /\ memory \in [Addr -> Memory]
    /\ used \in 0..(Words - 1)
    /\ running \in [Thread -> Running]
    /\ spoilt \subseteq Mishap

Init == /\ callbacks = "default" /\ log = "none"
        /\ memory = [p \in Addr |-> NoMemory]
        /\ used = 0
        /\ running = [t \in Thread |-> Idle]
        /\ spoilt = {}

-----------------------------------------------------------------------------
(* (int)sz: the bits that fit, read as a signed number. *)
ToInt(sz) == LET low == sz % IntWords
             IN IF low < IntWords \div 2 THEN low ELSE low - IntWords

(* The callbacks that a user's blocks come from and go to at this moment.  *)
Now(user) == IF user = "node" THEN callbacks ELSE IF user = "log" THEN log ELSE "default"

At(t, place)   == running[t].at = place
Goto(t, place) == running' = [running EXCEPT ![t].at = place]
Enter(t, r)    == At(t, "idle") /\ running' = [running EXCEPT ![t] = r]
Leave(t)       == running' = [running EXCEPT ![t] = Idle]
Arg(t)         == running[t].p
Room(sz)       == (sz + Prefix) % Words   \* a sum of two size_t
CountBytes(n)  == used' = (used + n) % Words
UserHolds(p)   == memory[p].held = "user"
Served(p, by)  == UserHolds(p) /\ Now(memory[p].user) = by

Wide(sz)  == IF ToInt(sz) # sz THEN {"wide"} ELSE {}
Cut(room) == IF room < Box THEN {"cut"} ELSE {}
Spoil(s)  == spoilt' = spoilt \cup s

(* What the prefix of a block of that many bytes reads as, after n has     *)
(* been written to it.                                                     *)
Prefixed(room, n) == IF room < Box THEN Garbage ELSE {n}

(* ma_free with the pointer that one or the other kind of callbacks frees. *)
(* A pointer that is not the heap's is undefined: here the block goes, or  *)
(* stays behind.                                                           *)
HeapFree(p, by) ==
    \E gone \in BOOLEAN :
        /\ memory[p].maker = by => gone
        /\ memory' = [memory EXCEPT ![p] = IF gone THEN NoMemory
                                           ELSE [memory[p] EXCEPT !.held = "lost"]]

-----------------------------------------------------------------------------
(* Null callbacks, or all of them null: ma_malloc and ma_free.             *)
Take(t, user, p, sz) ==
    /\ At(t, "idle") /\ Now(user) = "default" /\ memory[p].held = "free"
    /\ memory' = [memory EXCEPT ![p] = [NoMemory EXCEPT !.held = "user", !.user = user]]
    /\ UNCHANGED <<callbacks, log, used, running, spoilt>>

Return(t, p) ==
    /\ At(t, "idle") /\ Served(p, "default")
    /\ HeapFree(p, "default")
    /\ UNCHANGED <<callbacks, log, used, running, spoilt>>

-----------------------------------------------------------------------------
(* MemAllocCallback; when ma_malloc has no memory it does nothing.  The    *)
(* sum of a size_t near its largest value is a small one.                  *)
Malloc(t, user, p, sz) ==
    /\ Now(user) = "tracked" /\ memory[p].held = "free"
    /\ Enter(t, [at |-> "alloc_count", p |-> p, sz |-> sz])
    /\ memory' = [memory EXCEPT ![p] =
                     [NoMemory EXCEPT !.held = "callback", !.user = user, !.maker = "tracked"]]
    /\ Spoil(Wide(sz))
    /\ UNCHANGED <<callbacks, log, used>>

AllocCount(t) ==
    /\ At(t, "alloc_count")
    /\ CountBytes(running[t].sz)
    /\ Goto(t, "alloc_store")
    /\ UNCHANGED <<callbacks, log, memory, spoilt>>

AllocStore(t) ==
    /\ At(t, "alloc_store")
    /\ \E n \in Prefixed(Room(running[t].sz), ToInt(running[t].sz)) :
          memory' = [memory EXCEPT ![Arg(t)] =
                        [memory[Arg(t)] EXCEPT !.held = "user", !.box = n]]
    /\ Spoil(Cut(Room(running[t].sz)))
    /\ Leave(t)
    /\ UNCHANGED <<callbacks, log, used>>

-----------------------------------------------------------------------------
(* MemFreeCallback and MemReallocCallback get the block from its user; a   *)
(* block that other callbacks made has no prefix.                          *)
Handed(p) ==
    \E n \in IF memory[p].maker = "tracked" THEN {memory[p].box} ELSE Garbage :
        memory' = [memory EXCEPT ![p] = [memory[p] EXCEPT !.held = "callback", !.box = n]]

(* Mutant: an uninit that passes nullptr for the callbacks. *)
FreeByDefault(t, p) ==
    /\ At(t, "idle") /\ UserHolds(p)
    /\ HeapFree(p, "default")
    /\ UNCHANGED <<callbacks, log, used, running, spoilt>>

(* Mutant: the block goes back to the heap before its prefix is read. *)
FreeEarly(t, p) ==
    /\ Served(p, "tracked")
    /\ Enter(t, [at |-> "free_count", p |-> p])
    /\ HeapFree(p, "tracked")
    /\ UNCHANGED <<callbacks, log, used, spoilt>>

(* impl::uninit hands a node's block back through the callbacks there are  *)
(* now, a log message goes back through the log's.                         *)
Free(t, p) ==
    /\ Served(p, "tracked")
    /\ Enter(t, [at |-> "free_count", p |-> p])
    /\ Handed(p)
    /\ UNCHANGED <<callbacks, log, used, spoilt>>

(* Mutant: a difference that is not brought back to 64 bits. *)
FreeCountUnbounded(t) ==
    /\ At(t, "free_count")
    /\ used' = used - memory[Arg(t)].box
    /\ Goto(t, "free_release")
    /\ UNCHANGED <<callbacks, log, memory, spoilt>>

FreeCount(t) ==
    /\ At(t, "free_count")
    /\ CountBytes(-memory[Arg(t)].box)
    /\ Goto(t, "free_release")
    /\ UNCHANGED <<callbacks, log, memory, spoilt>>

FreeRelease(t) ==
    /\ At(t, "free_release")
    /\ HeapFree(Arg(t), "tracked")
    /\ Leave(t)
    /\ UNCHANGED <<callbacks, log, used, spoilt>>

(* MemReallocCallback of a block (of none: MemAllocCallback) *)
Realloc(t, p, sz) ==
    /\ Served(p, "tracked")
    /\ Enter(t, [at |-> "realloc_count", p |-> p, sz |-> sz])
    /\ Handed(p)
    /\ Spoil(Wide(sz))
    /\ UNCHANGED <<callbacks, log, used>>

ReallocCount(t) ==
    /\ At(t, "realloc_count")
    /\ CountBytes(running[t].sz - memory[Arg(t)].box)
    /\ Goto(t, "realloc_store")
    /\ UNCHANGED <<callbacks, log, memory, spoilt>>

(* Mutant: the new size goes into the prefix only with the new block. *)
ReallocStoreNothing(t) ==
    /\ At(t, "realloc_store")
    /\ Goto(t, "realloc_move")
    /\ UNCHANGED <<callbacks, log, memory, used, spoilt>>

ReallocStore(t) ==
    /\ At(t, "realloc_store")
    /\ memory' = [memory EXCEPT ![Arg(t)].box = ToInt(running[t].sz)]
    /\ Goto(t, "realloc_move")
    /\ UNCHANGED <<callbacks, log, used, spoilt>>

(* ma_realloc, in place or elsewhere: sz bytes, and no Prefix.  As much of *)
(* the old block goes along as fits, perhaps not the whole int.            *)
ReallocMove(t, q) ==
    LET p == Arg(t)
        sz == running[t].sz
    IN /\ At(t, "realloc_move") /\ (q = p \/ memory[q].held = "free")
       /\ \E n \in Prefixed(sz, memory[p].box) :
             memory' = [memory EXCEPT ![p] = NoMemory,
                           ![q] = [memory[p] EXCEPT !.held = "user", !.maker = "tracked", !.box = n]]
       /\ Spoil(Cut(sz))
       /\ Leave(t)
       /\ UNCHANGED <<callbacks, log, used>>

(* It has no memory and answers null: the block is still its user's, with  *)
(* the new size in its prefix and in the count.                            *)
ReallocFails(t) ==
    /\ At(t, "realloc_move")
    /\ memory' = [memory EXCEPT ![Arg(t)].held = "user"]
    /\ Leave(t)
    /\ UNCHANGED <<callbacks, log, used, spoilt>>

-----------------------------------------------------------------------------
(* A user has blocks from the callbacks that are about to be replaced.     *)
Lives(user) == \E p \in Addr : memory[p].held \in {"user", "callback"} /\ memory[p].user = user
Changes(user, c) == IF c # Now(user) /\ Lives(user) THEN {"changed"} ELSE {}

(* The client sets the global; nothing keeps it from doing so at any time. *)
SetCallbacks(c) ==
    /\ callbacks' = c
    /\ Spoil(Changes("node", c))
    /\ UNCHANGED <<log, memory, used, running>>

(* Engine::Init of any engine: the log is initialised again.               *)
LogInit ==
    /\ log' = callbacks
    /\ Spoil(Changes("log", callbacks))
    /\ UNCHANGED <<callbacks, memory, used, running>>

Next ==
    \/ \E t \in Thread :
          \/ AllocCount(t) \/ AllocStore(t) \/ FreeCount(t) \/ FreeRelease(t)
          \/ ReallocCount(t) \/ ReallocStore(t) \/ ReallocFails(t)
          \/ \E p \in Addr :
                \/ Return(t, p) \/ Free(t, p) \/ ReallocMove(t, p)
                \/ \E sz \in Size : \/ Realloc(t, p, sz)
                                    \/ \E u \in User : Take(t, u, p, sz) \/ Malloc(t, u, p, sz)
    \/ \E c \in Callbacks : SetCallbacks(c)
    \/ LogInit

Spec == Init /\ [][Next]_vars

-----------------------------------------------------------------------------
(* PROPERTIES                                                              *)

(* What the block that t's callback is working on has in the count.        *)
InCount(t) ==
    IF running[t].at \in {"alloc_store", "realloc_store"} THEN running[t].sz
    ELSE IF running[t].at \in {"free_count", "realloc_count", "realloc_move"}
    THEN memory[Arg(t)].box
    ELSE 0

(* What a block in use has, by its prefix.                                 *)
InPrefix(p) == IF UserHolds(p) /\ memory[p].maker = "tracked" THEN memory[p].box ELSE 0

(* Every byte in the count, modulo m, by the block or the callback it is   *)
(* counted for.                                                            *)
Share      == [x \in Thread \cup Addr |-> IF x \in Thread THEN InCount(x) ELSE InPrefix(x)]
Counted(m) == UNION {{x} \X (1..(Share[x] % m)) : x \in DOMAIN Share}
AddsUp(m)  == used % m = Cardinality(Counted(m)) % m

(* At every moment, whatever the threads are in the middle of, the count   *)
(* is what the blocks' prefixes add up to: it never falls below zero, and  *)
(* is zero when nothing lives.  A size above the largest int takes it off, *)
(* by a multiple of what the int wraps round at and no other number.       *)
Accounted == /\ spoilt = {} => AddsUp(Words)
             /\ spoilt \subseteq {"wide"} => AddsUp(IntWords)

(* A block leaves its user by the way it came: one with a prefix through   *)
(* the tracking callbacks, which give it to the heap later on, and only    *)
(* such a one; until a client changes the callbacks under a living node,   *)
(* or an Engine::Init those of a log message.  Not, as the comment at      *)
(* C_ResourceHandling.h:56 has it, through `nullptr allocation callbacks'. *)
FreedByMaker ==
    [][\A p \in Addr : UserHolds(p) /\ ~UserHolds(p)' /\ "changed" \notin spoilt =>
          memory'[p].held = IF memory[p].maker = "tracked" THEN "callback" ELSE "free"]_vars

(* No two threads work on one block, and none on a block of a user's: the  *)
(* prefix is read and written without synchronisation.                     *)
OneThreadPerBlock ==
    \A t, s \in Thread : ~At(t, "idle") =>
        /\ memory[Arg(t)].held = "callback"
        /\ ~At(s, "idle") /\ Arg(s) = Arg(t) => s = t
==============================================================================
