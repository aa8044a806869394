---------------------------- MODULE PoolAdapters ----------------------------
(***************************************************************************)
(* PoolAllocator and PoolMemoryResource over the objects of PoolObjects.   *)
(* An adapter refers to a Pool object; a request that fits one block goes  *)
(* to the pool, any other to operator new or the upstream resource.  No    *)
(* record is kept of where a pointer came from: the question is asked      *)
(* again when it is returned, through any adapter that compares equal.     *)
(***************************************************************************)
EXTENDS PoolObjects

CONSTANTS Sizes,        \* sizeof(T), or bytes
          Counts,       \* n
          SizeMax,      \* the greatest size_t
          Upstreams,    \* memory resources
          MaxPtrs       \* bound: pointers a container holds at a time

ASSUME AdaptersAssumption ==
    /\ Sizes \subseteq Nat \ {0} /\ Counts \subseteq Nat \ {0}
    /\ {SizeMax, MaxPtrs} \subseteq Nat /\ {"new", "pool"} \cap Upstreams = {}

VARIABLE ptrs           \* the pointers that containers got from adapters

allvars == <<vars, ptrs>>

(* A PoolAllocator<T> with its request, or a PoolMemoryResource with its. *)
Adapters ==
    [kind : {"allocator"}, pool : Objects, upstream : {"new"}]
        \cup [kind : {"resource"}, pool : Objects, upstream : Upstreams]

(* An allocator is asked for n objects of one size, a resource for bytes. *)
Requests == [n : Counts, size : Sizes, overaligned : BOOLEAN]
RequestsOf(a) == {r \in Requests : a.kind = "resource" => r.n = 1}

(* operator==: the same Pool. *)
operator_eq(a, b) == a.kind = "allocator" /\ b.kind = "allocator" /\ a.pool = b.pool

(* The same Pool and the same upstream. *)
do_is_equal(a, b) ==
    a.kind = "resource" /\ b.kind = "resource" /\ a.pool = b.pool /\ a.upstream = b.upstream

Equal(a, b) == operator_eq(a, b) \/ do_is_equal(a, b)

BlockSize(o) == memory_pool_block_size(handle[o])

(* routes_to_pool *)
routes_to_pool(a, r) == r.n = 1 /\ r.size <= BlockSize(a.pool) /\ ~ r.overaligned

Source(a, r) == IF routes_to_pool(a, r) THEN "pool" ELSE a.upstream

InitAdapters == Init /\ ptrs = {}

-----------------------------------------------------------------------------
Holds(a, r, source, b) ==
    ptrs' = ptrs \cup {[adapter |-> a, request |-> r, home |-> handle[a.pool],
                        source |-> source, block |-> b]}

Bound(a) == class[a.pool] = "Pool" /\ Cardinality(ptrs) < MaxPtrs

(* allocate, do_allocate: from the pool, *)
AllocateFromPool(a, r, b) ==
    /\ Bound(a)
    /\ routes_to_pool(a, r)
    /\ Vends(handle[a.pool], b)
    /\ Holds(a, r, "pool", b)
    /\ UNCHANGED <<class, handle, life, block_size, factor, client, members, events>>

(* Mutant: an exhausted pool falls back. *)
AllocateRefusedFallsBack(a, r) ==
    /\ Bound(a)
    /\ routes_to_pool(a, r)
    /\ Refuses(handle[a.pool])
    /\ Holds(a, r, a.upstream, <<NULL, 0>>)
    /\ UNCHANGED vars

(* or bad_alloc: an exhausted pool never falls back. *)
AdapterRefused(a, r) ==
    /\ Bound(a)
    /\ routes_to_pool(a, r)
    /\ Refuses(handle[a.pool])
    /\ UNCHANGED allvars

(* Other requests go to operator new, unless n * sizeof(T) would overflow, *)
allocate_fallback(a, r) ==
    /\ Bound(a) /\ a.kind = "allocator"
    /\ ~ routes_to_pool(a, r)
    /\ IF r.n > SizeMax \div r.size THEN UNCHANGED ptrs ELSE Holds(a, r, a.upstream, <<NULL, 0>>)
    /\ UNCHANGED vars

(* or to the upstream resource. *)
AllocateUpstream(a, r) ==
    /\ Bound(a) /\ a.kind = "resource"
    /\ ~ routes_to_pool(a, r)
    /\ Holds(a, r, a.upstream, <<NULL, 0>>)
    /\ UNCHANGED vars

(* A pointer is returned through an equal adapter, while the Pool is the one that
   it was allocated with: *)
Returns(q, a) ==
    /\ Equal(a, q.adapter) /\ handle[a.pool] = q.home
    /\ ptrs' = ptrs \ {q}

(* to the pool, *)
ReturnToPool(q, a) ==
    /\ Returns(q, a)
    /\ routes_to_pool(a, q.request)
    /\ Takes(handle[a.pool], q.block)
    /\ UNCHANGED <<class, handle, life, block_size, factor, slots, growths, client, members, events>>

(* to operator delete, *)
deallocate_fallback(q, a) ==
    /\ Returns(q, a) /\ a.kind = "allocator"
    /\ ~ routes_to_pool(a, q.request)
    /\ UNCHANGED vars

(* or upstream. *)
ReturnUpstream(q, a) ==
    /\ Returns(q, a) /\ a.kind = "resource"
    /\ ~ routes_to_pool(a, q.request)
    /\ UNCHANGED vars

(* A Pool out-lives its adapters; with a pool go the blocks it vended. *)
LifetimeUnder ==
    /\ Lifetime
    /\ \A q \in ptrs : class'[q.adapter.pool] # "none"
    /\ ptrs' = {q \in ptrs : q.source = "pool" => life'[q.home] = "alive"}

Next ==
    \/ LifetimeUnder
    \/ Use /\ UNCHANGED ptrs
    \/ \E a \in Adapters : \E r \in RequestsOf(a) :
          \/ \E b \in AnyBlock : AllocateFromPool(a, r, b)
          \/ AdapterRefused(a, r) \/ allocate_fallback(a, r) \/ AllocateUpstream(a, r)
    \/ \E q \in ptrs, a \in Adapters :
          ReturnToPool(q, a) \/ deallocate_fallback(q, a) \/ ReturnUpstream(q, a)

Spec == InitAdapters /\ [][Next]_allvars

-----------------------------------------------------------------------------
(* Type correctness of the objects, the pools below them and the pointers. *)
TypeOK ==
    /\ class \in [Objects -> {"none", "Pool", "TypedPool", "InstrumentedPool"}]
    /\ handle \in [Objects -> {NULL} \cup Pools]
    /\ life \in [Pools -> {"unborn", "alive", "destroyed"}]
    /\ slots \in [Pools -> 0 .. MaxSlots] /\ growths \in [Pools -> Nat]
    /\ \A p \in Pools : BlocksOf(p) \subseteq Slots(p)
    /\ calls \in Seq([verb : {"construct", "destroy"}, object : Objects, block : AnyBlock])
    /\ live \in [Objects -> Nat] /\ last_growths \in [Objects -> Nat]
    /\ observed \in [Objects -> BOOLEAN]
    /\ {q.adapter : q \in ptrs} \subseteq Adapters /\ {q.request : q \in ptrs} \subseteq Requests

(* Every block that is out is in one pair of hands: the client's, a living T, a
   constructor or destructor at work, or a container.  A construct that throws,
   and a T whose constructor or destructor calls the pool again, lose or share no
   block (strong guarantee of TypedPool::construct). *)
BlocksAccounted ==
    LET busy == {calls[i].block : i \in DOMAIN calls}
        contained == {q.block : q \in {s \in ptrs : s.source = "pool"}}
    IN  /\ vended = raw \cup built \cup busy \cup contained
        /\ Cardinality(vended) = Cardinality(raw) + Cardinality(built) + Len(calls)
                                    + Cardinality({q \in ptrs : q.source = "pool"})

(* As long as the Pool object keeps its pool, every adapter that compares equal
   returns a pointer to where it came from. *)
ReturnedToSource ==
    \A q \in ptrs, a \in Adapters :
        Equal(a, q.adapter) /\ handle[a.pool] = q.home => Source(a, q.request) = q.source

(* What PoolAllocator and PoolMemoryResource say: block_size() does not change
   during the pool's lifetime, so every pointer is released by the path that
   produced it. *)
RoutingStable ==
    \A q \in ptrs :
        q.home # NULL /\ life[q.home] = "alive" => Source(q.adapter, q.request) = q.source
=============================================================================
