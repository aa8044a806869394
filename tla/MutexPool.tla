----------------------------- MODULE MutexPool -----------------------------
(***************************************************************************)
(* memory_pool.cpp built with PBR_MEMORY_POOL_THREAD_SAFETY = MUTEX, the   *)
(* one concurrent policy whose pools grow.                                 *)
(*                                                                         *)
(* pop_head and push_head run with mutex_ held, growth included; the       *)
(* foreign-pointer guard of free_skeleton runs before push_head, without   *)
(* the mutex, and walks the list of chunks that a growth under the mutex   *)
(* extends.  Accesses to what only the holder of the mutex reads or writes *)
(* (head_, the links, grow_count_'s increment) are grouped in one action;  *)
(* the write of overflow_, which a guard may read at any moment, is one of *)
(* its own.  What is read without the mutex may be stale: overflow_ is a   *)
(* plain pointer and grow_count_ a relaxed counter, so a reader is sure    *)
(* only of the growths that happened before the block it was handed.       *)
(***************************************************************************)
EXTENDS FreeList, Sequences

CONSTANTS Threads,
          N,            \* block_count of the first chunk
          Factor,       \* grow_factor_: 0 is a fixed pool
          MaxBlocks,    \* bound: no growth beyond this many slots succeeds
          UserData      \* what a client may leave in the first word of a block

Blocks == 1 .. MaxBlocks                \* the slots, in order of acquisition
Foreign == MaxBlocks + 1                \* an address outside every chunk
NoThread == "none"
Word == {NULL} \cup Blocks \cup UserData

ASSUME NAssumption == N \in Nat \ {0} /\ MaxBlocks \in Nat /\ N <= MaxBlocks
ASSUME FactorAssumption == Factor \in Nat
ASSUME ThreadAssumption == NoThread \notin Threads

VARIABLES mutex,       \* mutex_: the thread that holds it
          head,        \* head_
          next,        \* the first word of every slot
          overflow,    \* overflow_: the chunks acquired since creation, newest first
          grow_count,  \* grow_count_
          held,        \* the blocks the clients own
          pc,          \* pc[t]: what thread t does next
          blk,         \* blk[t]: the argument of its free
          chunk,       \* the Chunk that the holder of the mutex has built
          seen         \* seen[b]: the growths that happened before b was vended

vars == <<mutex, head, next, overflow, grow_count, held, pc, blk, chunk, seen>>

Chunks == [first : Blocks, count : Blocks]
NoChunk == [first |-> 0, count |-> 0]
SlotsOf(c) == SlotAddresses(c.first, 1, c.count)

(* The inline first chunk never changes. *)
FirstChunk == [first |-> 1, count |-> N]

ChunksOf(list) == {FirstChunk} \cup {list[i] : i \in DOMAIN list}
Owned(list) == UNION {SlotsOf(c) : c \in ChunksOf(list)}
Total(list) == Cardinality(Owned(list))

-----------------------------------------------------------------------------
Init ==
    /\ mutex = NoThread
    /\ head = 1
    /\ next = initialize_free_list([b \in Blocks |-> NULL], 1, 1, N)
    /\ overflow = <<>>
    /\ grow_count = 0
    /\ held = {}
    /\ pc = [t \in Threads |-> "idle"]
    /\ blk = [t \in Threads |-> NULL]
    /\ chunk = NoChunk
    /\ seen = [b \in Blocks |-> 0]

Goto(t, label) == pc' = [pc EXCEPT ![t] = label]

(* Mutant: no lock is taken. *)
AcquireNothing(t) == mutex' = t

Acquire(t) == mutex = NoThread /\ mutex' = t

(* The lock_guard goes out of scope and the call returns. *)
Release == mutex' = NoThread
Return(t) == Goto(t, "idle") /\ blk' = [blk EXCEPT ![t] = NULL]

(* Mutant: a lock that excludes but does not synchronise, as a flag set by a
   relaxed exchange would. *)
VendUnsynchronised(b, growths) == held' = held \cup {b} /\ UNCHANGED seen

(* The mutex orders every growth so far before the pop of b, and so before whatever
   the client that b is handed to, by whatever thread, does with it.  Of a block of
   the first chunk nothing need be known: its guard reads no overflow_. *)
Vend(b, growths) ==
    /\ held' = held \cup {b}
    /\ seen' = [seen EXCEPT ![b] = IF b \in SlotsOf(FirstChunk) THEN 0 ELSE growths]

-----------------------------------------------------------------------------
(* MutexPolicy::pop_head *)

AllocBegin(t) ==
    /\ pc[t] = "idle"
    /\ Goto(t, "lock")
    /\ UNCHANGED <<mutex, head, next, overflow, grow_count, held, blk, chunk, seen>>

PopLock(t) ==
    /\ pc[t] = "lock"
    /\ Acquire(t)
    /\ Goto(t, "pop")
    /\ UNCHANGED <<head, next, overflow, grow_count, held, blk, chunk, seen>>

Pop(t) ==
    /\ pc[t] = "pop"
    /\ head # NULL
    /\ head' = next[head]
    /\ Vend(head, grow_count)
    /\ Release
    /\ Return(t)
    /\ UNCHANGED <<next, overflow, grow_count, chunk>>

(* Mutant: the early return leaves the mutex locked. *)
PopExhaustedLocked(t) ==
    /\ pc[t] = "pop"
    /\ head = NULL
    /\ Return(t)
    /\ UNCHANGED <<mutex, head, next, overflow, grow_count, held, chunk, seen>>

(* The pool is empty, and fixed or unable to grow: would_overflow_product, or
   operator new throws for the backing or for the Chunk. *)
PopExhausted(t) ==
    /\ pc[t] = "pop"
    /\ head = NULL
    /\ Release
    /\ Return(t)
    /\ UNCHANGED <<head, next, overflow, grow_count, held, chunk, seen>>

(* Mutant: the pool grows by total * Factor, not to it. *)
GrowSeedTooMany(t) ==
    /\ pc[t] = "pop"
    /\ head = NULL
    /\ Factor >= 2
    /\ Total(overflow) * (Factor + 1) <= MaxBlocks
    /\ chunk' = [first |-> Total(overflow) + 1, count |-> Total(overflow) * Factor]
    /\ next' = initialize_free_list(next, chunk'.first, 1, chunk'.count)
    /\ Goto(t, "grow")
    /\ UNCHANGED <<mutex, head, overflow, grow_count, held, blk, seen>>

(* grow_pool acquires total * (Factor - 1) more slots and a Chunk for them, and
   seeds them as a free list; nothing of it is published yet. *)
GrowSeed(t) ==
    /\ pc[t] = "pop"
    /\ head = NULL
    /\ Factor >= 2
    /\ Total(overflow) * Factor <= MaxBlocks
    /\ chunk' = [first |-> Total(overflow) + 1, count |-> Total(overflow) * (Factor - 1)]
    /\ next' = initialize_free_list(next, chunk'.first, 1, chunk'.count)
    /\ Goto(t, "grow")
    /\ UNCHANGED <<mutex, head, overflow, grow_count, held, blk, seen>>

(* overflow_ = chunk, a plain write under the mutex. *)
GrowLink(t) ==
    /\ pc[t] = "grow"
    /\ overflow' = <<chunk>> \o overflow
    /\ Goto(t, "publish")
    /\ UNCHANGED <<mutex, head, next, grow_count, held, blk, chunk, seen>>

(* head_ = backing, grow_count_ is counted up, and pop_head goes on to pop. *)
GrowPublish(t) ==
    /\ pc[t] = "publish"
    /\ head' = next[chunk.first]
    /\ grow_count' = grow_count + 1
    /\ Vend(chunk.first, grow_count')
    /\ chunk' = NoChunk
    /\ Release
    /\ Return(t)
    /\ UNCHANGED <<next, overflow>>

-----------------------------------------------------------------------------
(* free_skeleton and MutexPolicy::push_head *)

FreeBegin(t) ==
    /\ pc[t] = "idle"
    /\ \E p \in held \cup {NULL, Foreign} :
          /\ blk' = [blk EXCEPT ![t] = p]
          /\ held' = held \ {p}
    /\ Goto(t, "guard")
    /\ UNCHANGED <<mutex, head, next, overflow, grow_count, chunk, seen>>

FreeNull(t) ==
    /\ pc[t] = "guard"
    /\ blk[t] = NULL
    /\ Return(t)
    /\ UNCHANGED <<mutex, head, next, overflow, grow_count, held, chunk, seen>>

(* is_block_in_range probes the immutable first chunk, *)
GuardFirst(t) ==
    /\ pc[t] = "guard"
    /\ blk[t] # NULL
    /\ Goto(t, IF blk[t] \in SlotsOf(FirstChunk) THEN "pushlock" ELSE "walk")
    /\ UNCHANGED <<mutex, head, next, overflow, grow_count, held, blk, chunk, seen>>

(* then reads overflow_ once, without the mutex, and walks the chunks behind it.
   The read may return an earlier value, but none older than the growths that
   happened before the block was vended; of a foreign pointer nothing is known.
   (A Chunk never changes once linked, and is taken to be read as it was built.) *)
GrowthsBefore(p) == IF p \in Blocks THEN seen[p] ELSE 0
Oldest(n) == SubSeq(overflow, Len(overflow) - n + 1, Len(overflow))
ReadsOverflow(p) == {Oldest(n) : n \in GrowthsBefore(p) .. Len(overflow)}

GuardAccepts(t) ==
    /\ pc[t] = "walk"
    /\ \E list \in ReadsOverflow(blk[t]) : blk[t] \in Owned(list)
    /\ Goto(t, "pushlock")
    /\ UNCHANGED <<mutex, head, next, overflow, grow_count, held, blk, chunk, seen>>

(* Mutant: only the newest chunk is probed. *)
GuardProbesNewest(t) ==
    /\ pc[t] = "walk"
    /\ \E list \in ReadsOverflow(blk[t]) :
          list # <<>> => blk[t] \notin SlotsOf(Head(list))
    /\ Return(t)
    /\ UNCHANGED <<mutex, head, next, overflow, grow_count, held, chunk, seen>>

GuardRejects(t) ==
    /\ pc[t] = "walk"
    /\ \E list \in ReadsOverflow(blk[t]) : blk[t] \notin Owned(list)
    /\ Return(t)
    /\ UNCHANGED <<mutex, head, next, overflow, grow_count, held, chunk, seen>>

PushLock(t) ==
    /\ pc[t] = "pushlock"
    /\ Acquire(t)
    /\ Goto(t, "push")
    /\ UNCHANGED <<head, next, overflow, grow_count, held, blk, chunk, seen>>

(* Mutant: the block is not linked to the head. *)
PushUnlinked(t) ==
    /\ pc[t] = "push"
    /\ head' = blk[t]
    /\ seen' = [seen EXCEPT ![blk[t]] = 0]
    /\ Release
    /\ Return(t)
    /\ UNCHANGED <<next, overflow, grow_count, held, chunk>>

Push(t) ==
    /\ pc[t] = "push"
    /\ next' = [next EXCEPT ![blk[t]] = head]
    /\ head' = blk[t]
    /\ seen' = [seen EXCEPT ![blk[t]] = 0]
    /\ Release
    /\ Return(t)
    /\ UNCHANGED <<overflow, grow_count, held, chunk>>

-----------------------------------------------------------------------------
(* What the accessors may answer the owner of block b.  They take no lock and change
   nothing: a relaxed load of grow_count_, and a walk from overflow_ that counts the
   descriptors, each as stale as what the guard reads. *)
memory_pool_growths(b) == seen[b] .. grow_count

memory_pool_metadata_bytes(b) == {Len(list) : list \in ReadsOverflow(b)}

-----------------------------------------------------------------------------
(* A client overwrites the first word of a block it owns. *)
ClientWrite ==
    /\ \E b \in held, w \in UserData : next' = [next EXCEPT ![b] = w]
    /\ UNCHANGED <<mutex, head, overflow, grow_count, held, pc, blk, chunk, seen>>

Begin(t) == AllocBegin(t) \/ FreeBegin(t)

Step(t) ==
    \/ PopLock(t) \/ Pop(t) \/ PopExhausted(t)
    \/ GrowSeed(t) \/ GrowLink(t) \/ GrowPublish(t)
    \/ FreeNull(t) \/ GuardFirst(t) \/ GuardAccepts(t) \/ GuardRejects(t)
    \/ PushLock(t) \/ Push(t)

Next == ClientWrite \/ \E t \in Threads : Begin(t) \/ Step(t)

Spec == Init /\ [][Next]_vars

(* Every thread is scheduled; the mutex itself promises no order among those
   that wait for it (weak, not strong, fairness of PopLock and PushLock). *)
FairSpec == Spec /\ \A t \in Threads : WF_vars(Step(t))

-----------------------------------------------------------------------------
(* Type correctness; in particular no client data ever becomes the head. *)
TypeOK ==
    /\ mutex \in Threads \cup {NoThread}
    /\ head \in {NULL} \cup Blocks
    /\ next \in [Blocks -> Word]
    /\ overflow \in Seq(Chunks)
    /\ grow_count \in Nat
    /\ held \subseteq Blocks
    /\ pc \in [Threads -> {"idle", "lock", "pop", "grow", "publish",
                           "guard", "walk", "pushlock", "push"}]
    /\ blk \in [Threads -> {NULL, Foreign} \cup Blocks]
    /\ chunk \in Chunks \cup {NoChunk}
    /\ seen \in [Blocks -> Nat]

Freeing(t) == pc[t] \in {"guard", "walk", "pushlock", "push"} /\ blk[t] \in Blocks
InTransit == {blk[t] : t \in {u \in Threads : Freeing(u)}}

(* The slots of the chunks whose growth is complete: between GrowLink and
   GrowPublish the newest chunk is linked, its slots on no list yet. *)
Capacity == Owned(overflow) \ (IF chunk = NoChunk THEN {} ELSE SlotsOf(chunk))
Available == Capacity \ (held \cup InTransit)

(* Across pops, pushes and growths by any threads, the free list is exactly
   the slots nobody owns and nobody is returning; those of a chunk join it
   only together (dynamic_growth_test.cpp, concurrency_stress_test.cpp). *)
FreeListExact == ListsExactly(head, next, Available)

(* The growths are geometric and each is seen once: the chunks are disjoint,
   numbered by grow_count_, and total N * Factor^growths slots, although every
   exhausted thread tries to grow (ADR-0022, ADR-0026). *)
GrownTo[g \in Nat] == IF g = 0 THEN N ELSE Factor * GrownTo[g - 1]
GrowthGeometric ==
    /\ Cardinality(Capacity) = GrownTo[grow_count]
    /\ \A c, d \in ChunksOf(overflow) : c # d => SlotsOf(c) \cap SlotsOf(d) = {}
    /\ Total(overflow) = GrownTo[Len(overflow)]

(* Relaxed as their reads are, both accessors tell the owner of a block of at least
   the growths up to the one that acquired it, whichever thread grew the pool, popped
   the block and handed it over, and whatever growth is in progress: the mutex and
   the hand-over order that growth before the call, and nothing else does. *)
AccessorsCoverOwnGrowth ==
    \A b \in held : \A i \in DOMAIN overflow :
        b \in SlotsOf(overflow[i]) =>
            \A n \in memory_pool_growths(b) \cup memory_pool_metadata_bytes(b) :
                n > Len(overflow) - i

(* The comment at free_skeleton: its guards read only fields that do not change
   once the pool exists, so they need no lock.  It fails if the guard of a
   legitimate free may read overflow_ while a growth writes it: a data race. *)
GuardsReadImmutableFields ==
    ~ \E t, u \in Threads : pc[t] = "walk" /\ blk[t] \in Blocks /\ pc[u] = "grow"

-----------------------------------------------------------------------------
(* A growth takes effect with the pop that needed it. *)
CallOf(t) ==
    CASE pc[t] \in {"idle"} -> [op |-> "none"]
      [] pc[t] \in {"lock", "pop", "grow", "publish"} -> [op |-> "alloc"]
      [] OTHER -> [op |-> "free", arg |-> blk[t]]

Abs == INSTANCE PoolSpec WITH
    NotBlocks <- {NULL, Foreign},
    capacity  <- Capacity,
    available <- Available,
    call      <- [t \in Threads |-> CallOf(t)]

(* Every behaviour is one of the abstract pool: a pool grows only when nothing
   is available, a block is vended to one client, and a block that is returned
   while another thread grows the pool is recognised and taken back. *)
Linearizable == Abs!Spec

(* As long as the threads are scheduled some alloc or free completes: the mutex is
   released on every path, also where growth fails. *)
Completes == \E t \in Threads : pc[t] \notin {"idle"} /\ pc'[t] = "idle"
Progress ==
    \/ []<>(\A t \in Threads : pc[t] \in {"idle"})
    \/ []<><<Completes>>_vars
=============================================================================
