----------------------------- MODULE MemoryPool -----------------------------
(***************************************************************************)
(* memory_pool.cpp built with PBR_MEMORY_POOL_THREAD_SAFETY = NONE, at the *)
(* level of addresses: one caller creates a pool, fixed or dynamic, uses   *)
(* it and destroys it, over a heap whose operator new places regions where *)
(* it likes and may throw bad_alloc at every call.                         *)
(*                                                                         *)
(* One action per entry point, or per outcome of one.  The hardened build  *)
(* is not modelled here beyond its stride.                                 *)
(***************************************************************************)
EXTENDS FreeList, PoolArith, Sequences

CONSTANTS AddrMax,      \* bound: addresses are 1 .. AddrMax, 0 is NULL
          BlockSizes,   \* the block sizes, counts and growth factors that callers
          BlockCounts,  \* pass; factor 0 stands for memory_pool_create
          Factors,
          Junk          \* any word that is not a link

ASSUME AddrAssumption ==
    /\ AddrMax \in Nat /\ AddrMax <= SizeMax /\ Junk \notin 0 .. AddrMax
    /\ BlockSizes \subseteq Sizes /\ BlockCounts \subseteq Sizes /\ Factors \subseteq Sizes

Addrs == 1 .. AddrMax
Word == {NULL, Junk} \cup Addrs

VARIABLES pool,         \* the struct memory_pool and its Chunk list, or NoPool
          mem,          \* mem[a]: the word stored at address a
          heap,         \* the regions obtained from operator new, not yet deleted
          objects,      \* how many structs and Chunks are allocated
          held          \* the blocks the client owns

vars == <<pool, mem, heap, objects, held>>

NoPool == [backing |-> NULL]
Created == pool # NoPool

-----------------------------------------------------------------------------
(* operator new with POOL_ALIGNMENT: any aligned gap of the heap. *)
Region(base, size) == base .. (base + size - 1)
Aligned(a) == a % POOL_ALIGNMENT = 0

NewRegions(bytes) ==
    {r \in {[base |-> b, size |-> bytes] : b \in Addrs} :
        /\ Aligned(r.base)
        /\ r.base + bytes - 1 <= AddrMax
        /\ \A q \in heap : Region(r.base, bytes) \cap Region(q.base, q.size) = {}}

release_backing(h, backing) == {r \in h : r.base # backing}

(* What was there is no longer anyone's. *)
Forget(m, h) == [a \in Addrs |-> IF \E r \in h : a \in Region(r.base, r.size) THEN m[a] ELSE Junk]

-----------------------------------------------------------------------------
(* The inline first chunk, then the overflow chunks, newest first. *)
ChunksOf(p) == <<[backing |-> p.backing, block_count |-> p.block_count]>> \o p.overflow

(* Mutant: the address one past the chunk is accepted. *)
block_in_chunk_inclusive(p, c, block) ==
    LET stride == slot_stride(p.block_size)
    IN  /\ block >= c.backing
        /\ block <= c.backing + stride * c.block_count
        /\ (block - c.backing) % stride = 0

(* Is the address the start of a slot of chunk c? *)
block_in_chunk(p, c, block) ==
    LET stride == slot_stride(p.block_size)
    IN  /\ block >= c.backing
        /\ block < c.backing + stride * c.block_count
        /\ (block - c.backing) % stride = 0

is_block_in_range(p, block) ==
    \E i \in DOMAIN ChunksOf(p) : block_in_chunk(p, ChunksOf(p)[i], block)

(* The slots of the pool at present, counted chunk by chunk. *)
TotalOf(p) ==
    LET total[i \in 0 .. Len(p.overflow)] ==
            IF i = 0 THEN p.block_count ELSE total[i - 1] + p.overflow[i].block_count
    IN  total[Len(p.overflow)]

-----------------------------------------------------------------------------
Init ==
    /\ pool = NoPool
    /\ mem = [a \in Addrs |-> Junk]
    /\ heap = {}
    /\ objects = 0
    /\ held = {}

(* memory_pool_create and memory_pool_create_dynamic, when all goes well. *)
Create(block_size, block_count, factor) ==
    /\ ~ Created
    /\ factor = 0 \/ factor >= 2
    /\ create_accepts(block_size, block_count)
    /\ \E r \in NewRegions(create_bytes(block_size, block_count)) :
          /\ heap' = heap \cup {r}
          /\ mem' = initialize_free_list(mem, r.base, slot_stride(block_size), block_count)
          /\ pool' = [backing |-> r.base, head |-> r.base,
                      block_size |-> block_size, block_count |-> block_count,
                      overflow |-> <<>>, grow_factor |-> factor, grow_count |-> 0]
    /\ objects' = objects + 1
    /\ UNCHANGED held

(* An argument is refused, or operator new throws for the backing. *)
CreateRefused ==
    /\ ~ Created
    /\ UNCHANGED vars

(* operator new gives the backing and throws for the struct: rolled back. *)
CreateRolledBack(block_size, block_count, factor) ==
    /\ ~ Created
    /\ factor = 0 \/ factor >= 2
    /\ create_accepts(block_size, block_count)
    /\ \E r \in NewRegions(create_bytes(block_size, block_count)) :
          heap' = release_backing(heap \cup {r}, r.base)
    /\ UNCHANGED <<pool, mem, objects, held>>

-----------------------------------------------------------------------------
(* SingleThreadedPolicy::pop_head, with the words m in memory.  The block is the
   client's from now on, and its contents are indeterminate. *)
PopFrom(p, m) ==
    /\ pool' = [p EXCEPT !.head = m[p.head]]
    /\ mem' = [m EXCEPT ![p.head] = Junk]
    /\ held' = held \cup {p.head}

Alloc ==
    /\ Created
    /\ pool.head # NULL
    /\ PopFrom(pool, mem)
    /\ UNCHANGED <<heap, objects>>

Exhausted == Created /\ pool.head = NULL

(* memory_pool_alloc answers nullptr: fixed, refused by a guard of grow_pool,
   or operator new throws for the backing. *)
AllocRefused ==
    /\ Exhausted
    /\ UNCHANGED vars

GrowAdd == grow_add(TotalOf(pool), pool.grow_factor)

(* grow_pool goes on to operator new; these are the backings it may get. *)
GrowRegions ==
    IF /\ Exhausted
       /\ pool.grow_factor >= 2
       /\ grow_accepts(TotalOf(pool), pool.grow_factor, pool.block_size)
    THEN NewRegions(grow_bytes(TotalOf(pool), pool.grow_factor, pool.block_size))
    ELSE {}

(* Mutant: the new Chunk is not linked to the older ones. *)
AllocGrowsUnlinked ==
    \E r \in GrowRegions :
        /\ heap' = heap \cup {r}
        /\ objects' = objects + 1
        /\ PopFrom([pool EXCEPT
                       !.overflow = <<[backing |-> r.base, block_count |-> GrowAdd]>>,
                       !.head = r.base,
                       !.grow_count = @ + 1],
                   initialize_free_list(mem, r.base, slot_stride(pool.block_size), GrowAdd))

(* grow_pool: the new slots are the free list, and the pop goes on from it. *)
AllocGrows ==
    \E r \in GrowRegions :
        /\ heap' = heap \cup {r}
        /\ objects' = objects + 1
        /\ PopFrom([pool EXCEPT
                       !.overflow = <<[backing |-> r.base, block_count |-> GrowAdd]>> \o @,
                       !.head = r.base,
                       !.grow_count = @ + 1],
                   initialize_free_list(mem, r.base, slot_stride(pool.block_size), GrowAdd))

(* Mutant: the backing is not released when the Chunk cannot be had. *)
GrowLeaks ==
    /\ \E r \in GrowRegions : heap' = heap \cup {r}
    /\ UNCHANGED <<pool, mem, objects, held>>

(* operator new gives the backing and throws for the Chunk: rolled back, and
   memory_pool_alloc answers nullptr. *)
GrowRolledBack ==
    /\ \E r \in GrowRegions : heap' = release_backing(heap \cup {r}, r.base)
    /\ UNCHANGED <<pool, mem, objects, held>>

-----------------------------------------------------------------------------
(* memory_pool_free.  The client frees a block it owns, or passes NULL or any
   address that is not the start of a block: inside a block, of another
   allocation, outside the heap. *)
NotABlock(p) == ~ \E i \in DOMAIN ChunksOf(pool) :
    LET c == ChunksOf(pool)[i]
    IN  p \in SlotAddresses(c.backing, slot_stride(pool.block_size), c.block_count)

(* Mutant: the block is not linked to the head. *)
FreeUnlinked(block) ==
    /\ Created
    /\ block \in held \/ NotABlock(block)
    /\ block # NULL
    /\ is_block_in_range(pool, block)
    /\ pool' = [pool EXCEPT !.head = block]
    /\ held' = held \ {block}
    /\ UNCHANGED <<mem, heap, objects>>

Free(block) ==
    /\ Created
    /\ block \in held \/ NotABlock(block)
    /\ block # NULL
    /\ is_block_in_range(pool, block)
    /\ mem' = [mem EXCEPT ![block] = pool.head]
    /\ pool' = [pool EXCEPT !.head = block]
    /\ held' = held \ {block}
    /\ UNCHANGED <<heap, objects>>

FreeIgnored(block) ==
    /\ Created
    /\ block \in held \/ NotABlock(block)
    /\ block = NULL \/ ~ is_block_in_range(pool, block)
    /\ held' = held \ {block}
    /\ UNCHANGED <<pool, mem, heap, objects>>

(* memory_pool_destroy: every backing, every Chunk, the struct.  Blocks still
   held are gone with it. *)
Destroy ==
    /\ Created
    /\ heap' = {r \in heap : \A i \in DOMAIN ChunksOf(pool) :
                                r \in release_backing(heap, ChunksOf(pool)[i].backing)}
    /\ objects' = objects - Len(pool.overflow) - 1
    /\ pool' = NoPool
    /\ held' = {}
    /\ mem' = Forget(mem, heap')

Next ==
    \/ \E bs \in BlockSizes, bc \in BlockCounts, f \in Factors :
          Create(bs, bc, f) \/ CreateRolledBack(bs, bc, f)
    \/ CreateRefused
    \/ Alloc \/ AllocRefused \/ AllocGrows \/ GrowRolledBack
    \/ \E p \in {NULL} \cup Addrs : Free(p) \/ FreeIgnored(p)
    \/ Destroy

Spec == Init /\ [][Next]_vars

-----------------------------------------------------------------------------
Slots == UNION {SlotAddresses(c.backing, slot_stride(pool.block_size), c.block_count) :
                   c \in {ChunksOf(pool)[i] : i \in DOMAIN ChunksOf(pool)}}

Chunk == [backing : Addrs, block_count : Sizes]

(* Type correctness; the head and the links are addresses, never client data. *)
TypeOK ==
    /\ Created =>
          /\ pool.backing \in Addrs
          /\ pool.head \in {NULL} \cup Addrs
          /\ pool.block_size \in BlockSizes /\ pool.block_count \in BlockCounts
          /\ pool.grow_factor \in Factors /\ pool.grow_count \in Nat
          /\ pool.overflow \in Seq(Chunk)
    /\ mem \in [Addrs -> Word]
    /\ heap \subseteq [base : Addrs, size : Sizes]
    /\ objects \in Nat
    /\ held \subseteq Addrs

(* After any sequence of calls, growths, failures and misdirected frees the
   free list is exactly the slots the client does not own: free accepts every
   block of every chunk and no other address (ADR-0012, pool_fuzz.cpp). *)
FreeListExact ==
    Created => held \subseteq Slots /\ ListsExactly(pool.head, mem, Slots \ held)

(* Every slot of every chunk is aligned, lies in memory the pool obtained, and
   overlaps no other slot, wherever operator new placed the chunks. *)
BlocksSound ==
    Created =>
        /\ Cardinality(Slots) = TotalOf(pool)
        /\ \A a \in Slots :
              /\ Aligned(a)
              /\ \E r \in heap : Region(a, slot_stride(pool.block_size)) \subseteq Region(r.base, r.size)
              /\ \A b \in Slots \ {a} :
                    Region(a, pool.block_size) \cap Region(b, pool.block_size) = {}

(* What is allocated is exactly what the pool refers to: no failure between two
   allocations and no destruction leaks a region or an object, none is deleted
   twice (spec 3.1, "no memory leaks"). *)
LedgerExact ==
    IF Created
    THEN /\ {r.base : r \in heap} = {ChunksOf(pool)[i].backing : i \in DOMAIN ChunksOf(pool)}
         /\ Cardinality(heap) = Len(ChunksOf(pool))
         /\ objects = Len(ChunksOf(pool))
    ELSE heap = {} /\ objects = 0

(* The slots of a pool of block_count slots after g growths. *)
GrownTo(p, g) ==
    LET grown[k \in 0 .. g] == IF k = 0 THEN p.block_count ELSE grown[k - 1] * p.grow_factor
    IN  grown[g]

(* A pool never grows if it is fixed; a dynamic one has block_count slots times
   the factor for every growth, also when the product would not fit in a size_t:
   then it does not grow (ADR-0022, BUG-0004). *)
GrowthGeometric ==
    Created =>
        /\ pool.grow_count = Len(pool.overflow)
        /\ pool.grow_factor = 0 => pool.grow_count = 0
        /\ TotalOf(pool) = GrownTo(pool, pool.grow_count)

(* Growing and failing to grow move or lose no block: a pointer handed out
   stays a block of the pool until the pool is destroyed. *)
BlocksStay == [][Created /\ pool' # NoPool => Slots \subseteq Slots']_vars
=============================================================================
