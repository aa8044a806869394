------------------------- MODULE PoolAdaptersProofs -------------------------
(***************************************************************************)
(* For any number of objects, adapters and nested constructors and for     *)
(* pools of any size: who owns a C pool, whom a block belongs to, and what *)
(* observers, counters and adapters know of a pool that is moved about.    *)
(***************************************************************************)
EXTENDS PoolAdapters, Integers, TLAPS, FiniteSetTheorems, FunctionTheorems, SequenceTheorems

-----------------------------------------------------------------------------
(* Where a block is that is neither the client's nor holds a T. *)
Busy == {calls[i].block : i \in DOMAIN calls}

PoolPtrs == {q \in ptrs : q.source = "pool"}
Contained == {q.block : q \in PoolPtrs}

-----------------------------------------------------------------------------
(* The inductive invariant. *)

DataOK ==
    /\ block_size \in [Pools -> Nat] /\ factor \in [Pools -> Nat]
    /\ destroyed \in [{NULL} \cup Pools -> Nat] /\ grew \in [Pools -> Nat]
    /\ vended \subseteq AnyBlock
    /\ IsFiniteSet(ptrs)

(* Every handle is the only one to a living pool, and no living pool is without. *)
HandlesOwn ==
    /\ \A o \in Objects : handle[o] # NULL => class[o] # "none" /\ life[handle[o]] = "alive"
    /\ \A o, q \in Objects : handle[o] = handle[q] /\ handle[o] # NULL => o = q
    /\ \A p \in Pools : life[p] = "alive" => \E o \in Objects : handle[o] = p

(* A pool is new when it is created. *)
NewUntouched ==
    \A p \in Pools : life[p] = "unborn" => growths[p] = 0 /\ grew[p] = 0 /\ p \notin watched

(* The observers are with the object that owns the pool they were registered for. *)
ObserversFollow ==
    \A o \in Objects :
        /\ observed[o] => class[o] = "InstrumentedPool" /\ handle[o] \in watched
        /\ handle[o] # NULL /\ handle[o] \in watched => observed[o]

(* Only an InstrumentedPool reports growths. *)
OthersSilent ==
    \A o \in Objects :
        handle[o] # NULL /\ class[o] # "InstrumentedPool" => grew[handle[o]] = 0

(* A block that is out is of a living pool, and in one pair of hands. *)
BlocksAlive == \A b \in vended : life[b[1]] = "alive"

BlocksPlaced ==
    /\ vended = raw \cup built \cup Busy \cup Contained
    /\ raw \cap built = {} /\ raw \cap Busy = {} /\ raw \cap Contained = {}
    /\ built \cap Busy = {} /\ built \cap Contained = {} /\ Busy \cap Contained = {}
    /\ \A i, j \in DOMAIN calls : calls[i].block = calls[j].block => i = j
    /\ \A q, s \in PoolPtrs : q.block = s.block => q = s

(* A constructor or destructor at work is of a TypedPool that stays where it is. *)
CallsRooted ==
    \A i \in DOMAIN calls :
        /\ class[calls[i].object] = "TypedPool"
        /\ calls[i].block[1] = handle[calls[i].object]

(* A pointer's source is what routes_to_pool says of the pool it was allocated with. *)
FitsBlock(q) ==
    q.request.n = 1 /\ q.request.size <= memory_pool_block_size(q.home) /\ ~ q.request.overaligned

PtrsRooted ==
    \A q \in ptrs :
        /\ class[q.adapter.pool] = "Pool"
        /\ q.home # NULL => q.home \in Pools /\ life[q.home] # "unborn"
        /\ q.source = IF FitsBlock(q) THEN "pool" ELSE q.adapter.upstream
        /\ q.source = "pool" => /\ q.home # NULL /\ life[q.home] = "alive"
                                /\ q.block[1] = q.home

IInv ==
    /\ TypeOK /\ DataOK
    /\ HandlesOwn /\ NewUntouched
    /\ DestroyedToldOnce /\ ObserversFollow
    /\ CountersFollowPool /\ OthersSilent
    /\ BlocksAlive /\ BlocksPlaced /\ CallsRooted /\ PtrsRooted

-----------------------------------------------------------------------------
(* The stack of constructors and destructors in progress. *)

Call == [verb : {"construct", "destroy"}, object : Objects, block : AnyBlock]

(* A call that begins comes on top of the stack; the others move down by one. *)
LEMMA CallsPushed ==
    ASSUME NEW S, NEW s \in Seq(S), NEW r \in S
    PROVE  LET t == <<r>> \o s
           IN  /\ t \in Seq(S) /\ DOMAIN t = 1 .. (Len(s) + 1) /\ DOMAIN s = 1 .. Len(s)
               /\ t[1] = r /\ \A i \in DOMAIN s : t[i + 1] = s[i]
               /\ \A i \in DOMAIN t : i # 1 => i - 1 \in DOMAIN s /\ t[i] = s[i - 1]
<1> DEFINE t == <<r>> \o s
<1>1. <<r>> \in Seq(S) /\ Len(<<r>>) = 1 /\ <<r>>[1] = r
  OBVIOUS
<1>2. /\ t \in Seq(S) /\ Len(t) = 1 + Len(s)
      /\ \A i \in 1 .. 1 + Len(s) : t[i] = IF i <= 1 THEN <<r>>[i] ELSE s[i - 1]
  BY <1>1, ConcatProperties
<1>3. Len(s) \in Nat /\ DOMAIN s = 1 .. Len(s) /\ DOMAIN t = 1 .. Len(t)
  BY <1>2, LenProperties
<1> HIDE DEF t
<1>4. t[1] = r
  BY <1>1, <1>2, <1>3
<1>5. \A i \in DOMAIN s : t[i + 1] = s[i]
  BY <1>2, <1>3
<1>6. \A i \in DOMAIN t : i # 1 => i - 1 \in DOMAIN s /\ t[i] = s[i - 1]
  BY <1>2, <1>3
<1>7. DOMAIN t = 1 .. (Len(s) + 1)
  BY <1>2, <1>3
<1> QED BY <1>2, <1>3, <1>4, <1>5, <1>6, <1>7 DEF t

(* The call on top ends; the others move up by one. *)
LEMMA CallsPopped ==
    ASSUME NEW S, NEW s \in Seq(S), s # <<>>
    PROVE  LET t == Tail(s)
           IN  /\ t \in Seq(S) /\ DOMAIN t = 1 .. (Len(s) - 1) /\ DOMAIN s = 1 .. Len(s)
               /\ Len(s) - 1 \in Nat /\ 1 \in DOMAIN s /\ s[1] = Head(s) /\ Head(s) \in S
               /\ \A i \in DOMAIN t : i + 1 \in DOMAIN s /\ i + 1 # 1 /\ t[i] = s[i + 1]
               /\ \A i \in DOMAIN s : i # 1 => i - 1 \in DOMAIN t /\ t[i - 1] = s[i]
<1> DEFINE t == Tail(s)
<1>1. /\ Head(s) \in S /\ t \in Seq(S) /\ Len(t) = Len(s) - 1
      /\ \A i \in 1 .. Len(t) : t[i] = s[i + 1]
  BY HeadTailProperties
<1>2. Len(s) \in Nat /\ DOMAIN s = 1 .. Len(s) /\ DOMAIN t = 1 .. Len(t) /\ Len(s) # 0
  BY <1>1, LenProperties
<1>3. s[1] = Head(s)
  OBVIOUS
<1> HIDE DEF t
<1>4. \A i \in DOMAIN s : i # 1 => i - 1 \in DOMAIN t /\ t[i - 1] = s[i]
  <2> TAKE i \in DOMAIN s
  <2> HAVE i # 1
  <2>1. i - 1 \in 1 .. Len(t) /\ (i - 1) + 1 = i
    BY <1>1, <1>2
  <2> QED BY <2>1, <1>1, <1>2
<1>5. \A i \in DOMAIN t : i + 1 \in DOMAIN s /\ i + 1 # 1 /\ t[i] = s[i + 1]
  BY <1>1, <1>2
<1> QED BY <1>1, <1>2, <1>3, <1>4, <1>5 DEF t

-----------------------------------------------------------------------------
(* The blocks of a pool that are out. *)

(* NULL is no pool, and every block belongs to a pool. *)
LEMMA NullIsNoPool == NULL \notin Pools /\ \A b \in AnyBlock : b[1] \in Pools /\ b[1] # NULL
BY DEF NULL, Pools, AnyBlock

(* There are finitely many blocks. *)
LEMMA BlocksFinite == IsFiniteSet(AnyBlock)
<1>1. IsFiniteSet(Pools) /\ IsFiniteSet(1 .. MaxSlots)
  BY FS_Interval, ObjectsAssumption DEF Pools
<1> QED BY <1>1, FS_Product DEF AnyBlock

(* The blocks of a pool that are out can be counted. *)
LEMMA OutNatural ==
    ASSUME vended \subseteq AnyBlock, NEW p
    PROVE  IsFiniteSet(BlocksOf(p)) /\ Out(p) \in Nat
<1>1. IsFiniteSet(BlocksOf(p))
  BY BlocksFinite, FS_Subset DEF BlocksOf
<1> QED BY <1>1, FS_CardinalityType DEF Out

(* A block that goes out is one of its pool's, and none of another's. *)
LEMMA OutVends ==
    ASSUME vended \subseteq AnyBlock, NEW b, b \notin vended, vended' = vended \cup {b}
    PROVE  /\ Out(b[1])' = Out(b[1]) + 1
           /\ \A p : p # b[1] => BlocksOf(p)' = BlocksOf(p) /\ Out(p)' = Out(p)
<1>1. BlocksOf(b[1])' = BlocksOf(b[1]) \cup {b} /\ b \notin BlocksOf(b[1])
  BY DEF BlocksOf
<1>2. \A p : p # b[1] => BlocksOf(p)' = BlocksOf(p)
  BY DEF BlocksOf
<1>3. Cardinality(BlocksOf(b[1]) \cup {b}) = Cardinality(BlocksOf(b[1])) + 1
  BY <1>1, OutNatural, FS_AddElement
<1> QED BY <1>1, <1>2, <1>3 DEF Out

(* A block that comes back is one less of its pool's, and none of another's. *)
LEMMA OutTakes ==
    ASSUME vended \subseteq AnyBlock, NEW b \in vended, vended' = vended \ {b}
    PROVE  /\ Out(b[1])' = Out(b[1]) - 1 /\ Out(b[1]) > 0
           /\ \A p : p # b[1] => BlocksOf(p)' = BlocksOf(p) /\ Out(p)' = Out(p)
<1>1. BlocksOf(b[1])' = BlocksOf(b[1]) \ {b} /\ b \in BlocksOf(b[1])
  BY DEF BlocksOf
<1>2. \A p : p # b[1] => BlocksOf(p)' = BlocksOf(p)
  BY DEF BlocksOf
<1>3. Cardinality(BlocksOf(b[1]) \ {b}) = Cardinality(BlocksOf(b[1])) - 1
  BY <1>1, OutNatural, FS_RemoveElement
<1>4. Cardinality(BlocksOf(b[1])) # 0
  BY <1>1, OutNatural, FS_EmptySet
<1>5. Out(b[1]) > 0
  BY <1>4, OutNatural DEF Out
<1>6. Out(b[1])' = Out(b[1]) - 1
  BY <1>1, <1>3 DEF Out
<1>7. \A p : p # b[1] => Out(p)' = Out(p)
  BY <1>2 DEF Out
<1> QED BY <1>2, <1>5, <1>6, <1>7

(* memory_pool_alloc, of a pool that grows or not. *)
LEMMA VendsSound ==
    ASSUME TypeOK, DataOK, NEW h \in Pools, NEW b, Vends(h, b)
    PROVE  /\ b \in AnyBlock /\ b \notin vended /\ b[1] = h /\ vended' = vended \cup {b}
           /\ vended' \subseteq AnyBlock
           /\ slots' \in [Pools -> 0 .. MaxSlots] /\ growths' \in [Pools -> Nat]
           /\ \A p \in Pools : BlocksOf(p)' \subseteq Slots(p)'
           /\ \A p \in Pools : p # h => growths'[p] = growths[p]
           /\ growths'[h] = growths[h] \/ growths'[h] = growths[h] + 1
<1>0. /\ slots \in [Pools -> 0 .. MaxSlots] /\ growths \in [Pools -> Nat]
      /\ factor \in [Pools -> Nat] /\ vended \subseteq AnyBlock /\ MaxSlots \in Nat
      /\ \A p \in Pools : BlocksOf(p) \subseteq Slots(p)
  BY ObjectsAssumption DEF TypeOK, DataOK
<1>1. /\ slots' \in [Pools -> 0 .. MaxSlots] /\ growths' \in [Pools -> Nat]
      /\ \A p \in Pools : p # h => growths'[p] = growths[p] /\ slots'[p] = slots[p]
      /\ growths'[h] = growths[h] \/ growths'[h] = growths[h] + 1
      /\ slots[h] <= slots'[h]
  <2>1. CASE Grows(h)
    <3> DEFINE more == slots[h] * factor[h]
    <3>1. slots' = [slots EXCEPT ![h] = more] /\ growths' = [growths EXCEPT ![h] = growths[h] + 1]
          /\ factor[h] >= 2 /\ more <= MaxSlots
      BY <2>1 DEF Grows
    <3>2. slots[h] \in Nat /\ factor[h] \in Nat /\ growths[h] \in Nat
      BY <1>0
    <3>3. more = slots[h] + slots[h] * (factor[h] - 1) /\ slots[h] * (factor[h] - 1) \in Nat
      BY <3>1, <3>2
    <3> HIDE DEF more
    <3>4. more \in 0 .. MaxSlots /\ slots[h] <= more
      BY <1>0, <3>1, <3>2, <3>3
    <3> QED BY <1>0, <3>1, <3>2, <3>4
  <2>2. CASE UNCHANGED <<slots, growths>>
    BY <1>0, <2>2
  <2> QED BY <2>1, <2>2 DEF Vends
<1>2. b \in {h} \X (1 .. slots'[h]) /\ b \notin vended /\ vended' = vended \cup {b}
  BY DEF Vends
<1>3. b \in AnyBlock /\ b[1] = h
  <2>1. slots'[h] \in 0 .. MaxSlots
    BY <1>1
  <2>2. b[1] = h /\ b[2] \in 1 .. MaxSlots /\ b = <<b[1], b[2]>>
    BY <1>0, <1>2, <2>1
  <2> QED BY <2>2 DEF AnyBlock
<1>4. \A p \in Pools : BlocksOf(p)' \subseteq Slots(p)'
  <2> SUFFICES ASSUME NEW p \in Pools, NEW c \in BlocksOf(p)' PROVE c \in Slots(p)'
    OBVIOUS
  <2>1. CASE c = b
    BY <2>1, <1>2, <1>3 DEF BlocksOf, Slots
  <2>2. CASE c # b
    <3>1. c \in BlocksOf(p)
      BY <2>2, <1>2 DEF BlocksOf
    <3>2. c \in {p} \X (1 .. slots[p])
      BY <3>1, <1>0 DEF Slots
    <3>3. slots[p] <= slots'[p] /\ slots[p] \in Nat /\ slots'[p] \in Nat
      BY <1>0, <1>1
    <3> QED BY <3>2, <3>3 DEF Slots
  <2> QED BY <2>1, <2>2
<1> QED BY <1>0, <1>1, <1>2, <1>3, <1>4

(* Less is out: types stay. *)
LEMMA FewerBlocks ==
    ASSUME TypeOK, DataOK, vended' \subseteq vended, UNCHANGED <<slots, growths>>
    PROVE  /\ vended' \subseteq AnyBlock
           /\ slots' \in [Pools -> 0 .. MaxSlots] /\ growths' \in [Pools -> Nat]
           /\ \A p \in Pools : BlocksOf(p)' \subseteq Slots(p)'
BY DEF TypeOK, DataOK, BlocksOf, Slots

-----------------------------------------------------------------------------
(* Steps that use the objects and let them be. *)

Settled == UNCHANGED <<class, handle, life, block_size, factor, observed, destroyed, watched, used>>

(* Owners and observers are as they were when no object and no pool begins or
   ends. *)
LEMMA ObjectsFrame ==
    ASSUME IInv, Settled
    PROVE  HandlesOwn' /\ DestroyedToldOnce' /\ ObserversFollow'
<1>1. HandlesOwn' /\ ObserversFollow'
  BY DEF IInv, Settled, HandlesOwn, ObserversFollow
<1>2. DestroyedToldOnce'
  BY DEF IInv, Settled, DestroyedToldOnce
<1> QED BY <1>1, <1>2

(* The pool of u is used, and u is no InstrumentedPool: nobody counts. *)
LEMMA CountersFrame ==
    ASSUME IInv, Settled, NEW u \in Objects, handle[u] # NULL, class[u] # "InstrumentedPool",
           UNCHANGED <<live, last_growths, grew>>,
           \A p \in Pools : p # handle[u] => Out(p)' = Out(p) /\ growths'[p] = growths[p]
    PROVE  CountersFollowPool' /\ OthersSilent' /\ NewUntouched'
<1>1. /\ CountersFollowPool /\ OthersSilent /\ HandlesOwn /\ NewUntouched
      /\ handle \in [Objects -> {NULL} \cup Pools]
  BY DEF IInv, TypeOK
<1>2. CountersFollowPool'
  <2> SUFFICES ASSUME NEW o \in Objects, class[o] = "InstrumentedPool", handle[o] # NULL,
                      handle[o] \notin used
               PROVE  /\ live[o] = Out(handle[o])' /\ last_growths[o] = growths'[handle[o]]
                      /\ grew[handle[o]] = growths'[handle[o]]
    BY DEF Settled, CountersFollowPool
  <2>1. handle[o] # handle[u] /\ handle[o] \in Pools
    BY <1>1 DEF HandlesOwn
  <2>2. live[o] = Out(handle[o]) /\ last_growths[o] = growths[handle[o]]
        /\ grew[handle[o]] = growths[handle[o]]
    BY <1>1 DEF CountersFollowPool
  <2>3. Out(handle[o])' = Out(handle[o])
    BY <2>1 DEF Settled
  <2>4. growths'[handle[o]] = growths[handle[o]]
    BY <2>1
  <2> QED BY <2>2, <2>3, <2>4
<1>3. OthersSilent'
  BY <1>1 DEF Settled, OthersSilent
<1>4. NewUntouched'
  <2> SUFFICES ASSUME NEW p \in Pools, life[p] = "unborn"
               PROVE  growths'[p] = 0 /\ grew[p] = 0 /\ p \notin watched
    BY DEF Settled, NewUntouched
  <2>1. p # handle[u]
    BY <1>1 DEF HandlesOwn
  <2> QED BY <1>1, <2>1 DEF NewUntouched
<1> QED BY <1>2, <1>3, <1>4

(* The types of what an operation on a settled set of objects may change. *)
LEMMA TypesFrame ==
    ASSUME IInv, Settled,
           vended' \subseteq AnyBlock,
           slots' \in [Pools -> 0 .. MaxSlots], growths' \in [Pools -> Nat],
           \A p \in Pools : BlocksOf(p)' \subseteq Slots(p)',
           calls' \in Seq(Call), live' \in [Objects -> Nat], last_growths' \in [Objects -> Nat],
           grew' \in [Pools -> Nat], IsFiniteSet(ptrs'),
           \A q \in ptrs' : q.adapter \in Adapters /\ q.request \in Requests
    PROVE  TypeOK' /\ DataOK'
<1>1. TypeOK /\ DataOK
  BY DEF IInv
<1>2. TypeOK'
  BY <1>1 DEF Settled, TypeOK, Call, Adapters, Requests
<1>3. DataOK'
  BY <1>1 DEF Settled, DataOK, AnyBlock, Pools
<1> QED BY <1>2, <1>3

(* Pointers that stay are as they were. *)
LEMMA PtrsFrame ==
    ASSUME IInv, Settled, ptrs' \subseteq ptrs
    PROVE  /\ PtrsRooted' /\ IsFiniteSet(ptrs')
           /\ \A q \in ptrs' : q.adapter \in Adapters /\ q.request \in Requests
<1>1. PtrsRooted /\ IsFiniteSet(ptrs)
      /\ \A q \in ptrs : q.adapter \in Adapters /\ q.request \in Requests
  BY DEF IInv, DataOK, TypeOK
<1>2. PtrsRooted'
  BY <1>1 DEF Settled, PtrsRooted, FitsBlock, memory_pool_block_size
<1> QED BY <1>1, <1>2, FS_Subset

(* A block of a living pool goes out, or some come back. *)
LEMMA AliveFrame ==
    ASSUME IInv, UNCHANGED life,
           \A b \in vended' : b \in vended \/ life[b[1]] = "alive"
    PROVE  BlocksAlive'
BY DEF IInv, BlocksAlive

-----------------------------------------------------------------------------
(* allocate and deallocate of the objects *)

(* Pool, TypedPool and InstrumentedPool allocate. *)
LEMMA AllocateStep ==
    ASSUME IInv, NEW o \in Objects, NEW b, Allocate(o, b), UNCHANGED ptrs
    PROVE  IInv'
<1>0. /\ TypeOK /\ DataOK /\ HandlesOwn /\ CountersFollowPool /\ OthersSilent /\ NewUntouched
      /\ BlocksPlaced /\ CallsRooted
  BY DEF IInv
<1>1. /\ Settled /\ UNCHANGED <<built, calls>> /\ raw' = raw \cup {b}
      /\ Vends(handle[o], b) /\ Recorded(o)
  BY DEF Allocate, Settled
<1>2. PICK h \in Pools : h = handle[o] /\ h # NULL /\ life[h] = "alive"
  BY <1>0, <1>1 DEF Vends, TypeOK, HandlesOwn
<1>3. /\ b \in AnyBlock /\ b \notin vended /\ b[1] = h /\ vended' = vended \cup {b}
      /\ vended' \subseteq AnyBlock
      /\ slots' \in [Pools -> 0 .. MaxSlots] /\ growths' \in [Pools -> Nat]
      /\ \A p \in Pools : BlocksOf(p)' \subseteq Slots(p)'
      /\ \A p \in Pools : p # h => growths'[p] = growths[p]
      /\ growths'[h] = growths[h] \/ growths'[h] = growths[h] + 1
  BY <1>0, <1>1, <1>2, VendsSound
<1>4. /\ Out(h)' = Out(h) + 1 /\ Out(h) \in Nat
      /\ \A p : p # h => Out(p)' = Out(p)
  <2>1. vended \subseteq AnyBlock
    BY <1>0 DEF DataOK
  <2> QED BY <1>3, <2>1, OutVends, OutNatural
<1>5. /\ CountersFollowPool' /\ OthersSilent' /\ NewUntouched'
      /\ live' \in [Objects -> Nat] /\ last_growths' \in [Objects -> Nat]
      /\ grew' \in [Pools -> Nat]
  <2>1. CASE class[o] # "InstrumentedPool"
    <3>1. UNCHANGED <<live, last_growths, grew>>
      BY <1>1, <2>1 DEF Recorded
    <3>2. CountersFollowPool' /\ OthersSilent' /\ NewUntouched'
      BY <1>1, <1>2, <1>3, <1>4, <2>1, <3>1, CountersFrame
    <3> QED BY <1>0, <3>1, <3>2 DEF TypeOK, DataOK
  <2>2. CASE class[o] = "InstrumentedPool"
    <3>0. /\ live \in [Objects -> Nat] /\ last_growths \in [Objects -> Nat]
          /\ grew \in [Pools -> Nat] /\ growths \in [Pools -> Nat]
          /\ handle \in [Objects -> {NULL} \cup Pools]
      BY <1>0 DEF TypeOK, DataOK
    <3>1. /\ live' = [live EXCEPT ![o] = live[o] + 1]
          /\ last_growths' = [last_growths EXCEPT ![o] = growths'[h]]
          /\ grew' = [grew EXCEPT ![h] = IF growths'[h] > last_growths[o]
                                         THEN grew[h] + 1 ELSE grew[h]]
      BY <1>1, <1>2, <2>2 DEF Recorded
    <3>2. live' \in [Objects -> Nat] /\ last_growths' \in [Objects -> Nat] /\ grew' \in [Pools -> Nat]
      BY <1>3, <3>0, <3>1
    <3>3. \A u \in Objects \ {o} : handle[u] # h
      BY <1>0, <1>2 DEF HandlesOwn
    <3>4. CountersFollowPool'
      <4> SUFFICES ASSUME NEW u \in Objects, NEW p \in Pools, p = handle[u],
                          class[u] = "InstrumentedPool", p \notin used
                   PROVE  live'[u] = Out(p)' /\ last_growths'[u] = growths'[p]
                          /\ grew'[p] = growths'[p]
        BY <1>1, <3>0 DEF Settled, CountersFollowPool
      <4>1. p # NULL
        BY NullIsNoPool
      <4>2. live[u] = Out(p) /\ last_growths[u] = growths[p] /\ grew[p] = growths[p]
        BY <1>0, <4>1 DEF CountersFollowPool
      <4>3. CASE u = o
        <5>1. p = h
          BY <1>2, <4>3
        <5> QED BY <1>3, <1>4, <3>0, <3>1, <4>2, <4>3, <5>1
      <4>4. CASE u # o
        <5>1. p # h
          BY <3>3, <4>4
        <5> QED BY <1>3, <1>4, <3>0, <3>1, <4>2, <4>4, <5>1
      <4> QED BY <4>3, <4>4
    <3>5. OthersSilent'
      BY <1>0, <1>1, <2>2, <3>0, <3>1, <3>3 DEF Settled, OthersSilent
    <3>6. NewUntouched'
      BY <1>0, <1>1, <1>2, <1>3, <3>0, <3>1 DEF Settled, NewUntouched
    <3> QED BY <3>2, <3>4, <3>5, <3>6
  <2> QED BY <2>1, <2>2
<1>6. HandlesOwn' /\ DestroyedToldOnce' /\ ObserversFollow'
  BY <1>1, ObjectsFrame
<1>7. PtrsRooted' /\ IsFiniteSet(ptrs') /\ \A q \in ptrs' : q.adapter \in Adapters /\ q.request \in Requests
  BY <1>1, PtrsFrame
<1>8. TypeOK' /\ DataOK'
  BY <1>0, <1>1, <1>3, <1>5, <1>7, TypesFrame DEF TypeOK, Call
<1>9. BlocksAlive'
  BY <1>1, <1>2, <1>3, AliveFrame DEF Settled
<1>10. BlocksPlaced'
  <2>1. Busy' = Busy /\ Contained' = Contained /\ PoolPtrs' = PoolPtrs
    BY <1>1 DEF Busy, Contained, PoolPtrs
  <2> QED BY <1>0, <1>1, <1>3, <2>1 DEF BlocksPlaced
<1>11. CallsRooted'
  BY <1>0, <1>1 DEF Settled, CallsRooted
<1> QED BY <1>5, <1>6, <1>7, <1>8, <1>9, <1>10, <1>11 DEF IInv

(* They take a block back that a client holds. *)
LEMMA DeallocateStep ==
    ASSUME IInv, NEW o \in Objects, NEW b, Deallocate(o, b), UNCHANGED ptrs
    PROVE  IInv'
<1>0. /\ TypeOK /\ DataOK /\ HandlesOwn /\ CountersFollowPool /\ OthersSilent /\ NewUntouched
      /\ BlocksPlaced /\ CallsRooted
  BY DEF IInv
<1>1. /\ Settled /\ UNCHANGED <<built, calls, slots, growths, last_growths, grew>>
      /\ raw' = raw \ {b} /\ b \in raw /\ b[1] = handle[o] /\ vended' = vended \ {b}
      /\ live' = IF class[o] = "InstrumentedPool" /\ live[o] > 0
                 THEN [live EXCEPT ![o] = live[o] - 1] ELSE live
  BY DEF Deallocate, Settled, Takes, events
<1>2. b \in vended /\ b[1] # NULL
  BY <1>0, <1>1, NullIsNoPool DEF BlocksPlaced, DataOK
<1>3. PICK h \in Pools : h = handle[o] /\ h = b[1] /\ h # NULL
  BY <1>0, <1>1, <1>2 DEF TypeOK
<1>4. /\ Out(h)' = Out(h) - 1 /\ Out(h) > 0 /\ Out(h) \in Nat
      /\ \A p : p # h => Out(p)' = Out(p)
  <2>1. vended \subseteq AnyBlock
    BY <1>0 DEF DataOK
  <2> QED BY <1>1, <1>2, <1>3, <2>1, OutTakes, OutNatural
<1>5. /\ CountersFollowPool' /\ OthersSilent' /\ NewUntouched' /\ live' \in [Objects -> Nat]
  <2>1. CASE class[o] # "InstrumentedPool"
    <3>1. UNCHANGED live
      BY <1>1, <2>1
    <3>2. CountersFollowPool' /\ OthersSilent' /\ NewUntouched'
      BY <1>1, <1>3, <1>4, <2>1, <3>1, CountersFrame
    <3> QED BY <1>0, <3>1, <3>2 DEF TypeOK
  <2>2. CASE class[o] = "InstrumentedPool"
    <3>0. live \in [Objects -> Nat] /\ handle \in [Objects -> {NULL} \cup Pools]
      BY <1>0 DEF TypeOK
    <3>1. live' \in [Objects -> Nat]
      BY <1>1, <3>0
    <3>2. CountersFollowPool'
      <4> SUFFICES ASSUME NEW u \in Objects, NEW p \in Pools, p = handle[u],
                          class[u] = "InstrumentedPool", p \notin used
                   PROVE  live'[u] = Out(p)' /\ last_growths[u] = growths[p] /\ grew[p] = growths[p]
        BY <1>1, <3>0 DEF Settled, CountersFollowPool
      <4>1. p # NULL
        BY NullIsNoPool
      <4>2. live[u] = Out(p) /\ last_growths[u] = growths[p] /\ grew[p] = growths[p]
        BY <1>0, <4>1 DEF CountersFollowPool
      <4>3. CASE u = o
        <5>1. p = h
          BY <1>3, <4>3
        <5> QED BY <1>1, <1>4, <2>2, <3>0, <4>2, <4>3, <5>1
      <4>4. CASE u # o
        <5>1. p # h
          BY <1>0, <1>3, <4>1, <4>4 DEF HandlesOwn
        <5> QED BY <1>1, <1>4, <3>0, <4>2, <4>4, <5>1
      <4> QED BY <4>3, <4>4
    <3>3. OthersSilent' /\ NewUntouched'
      BY <1>0, <1>1 DEF Settled, OthersSilent, NewUntouched
    <3> QED BY <3>1, <3>2, <3>3
  <2> QED BY <2>1, <2>2
<1>6. HandlesOwn' /\ DestroyedToldOnce' /\ ObserversFollow'
  BY <1>1, ObjectsFrame
<1>7. PtrsRooted' /\ IsFiniteSet(ptrs') /\ \A q \in ptrs' : q.adapter \in Adapters /\ q.request \in Requests
  BY <1>1, PtrsFrame
<1>8. TypeOK' /\ DataOK'
  <2>1. /\ vended' \subseteq AnyBlock
        /\ slots' \in [Pools -> 0 .. MaxSlots] /\ growths' \in [Pools -> Nat]
        /\ \A p \in Pools : BlocksOf(p)' \subseteq Slots(p)'
    BY <1>0, <1>1, FewerBlocks
  <2>2. calls' \in Seq(Call) /\ last_growths' \in [Objects -> Nat] /\ grew' \in [Pools -> Nat]
    BY <1>0, <1>1 DEF TypeOK, DataOK, Call
  <2> QED BY <1>1, <1>5, <1>7, <2>1, <2>2, TypesFrame
<1>9. BlocksAlive'
  BY <1>1, AliveFrame DEF Settled
<1>10. BlocksPlaced'
  <2>1. Busy' = Busy /\ Contained' = Contained /\ PoolPtrs' = PoolPtrs
    BY <1>1 DEF Busy, Contained, PoolPtrs
  <2> QED BY <1>0, <1>1, <2>1 DEF BlocksPlaced
<1>11. CallsRooted'
  BY <1>0, <1>1 DEF Settled, CallsRooted
<1> QED BY <1>5, <1>6, <1>7, <1>8, <1>9, <1>10, <1>11 DEF IInv

-----------------------------------------------------------------------------
(* construct and destroy of TypedPool, and the T in their hands *)

(* A constructor or destructor begins. *)
LEMMA BusyPushed ==
    ASSUME TypeOK, NEW r \in Call, calls' = <<r>> \o calls
    PROVE  /\ calls' \in Seq(Call) /\ Busy' = Busy \cup {r.block}
           /\ \A i \in DOMAIN calls' : calls'[i] = r \/ \E j \in DOMAIN calls : calls'[i] = calls[j]
           /\ r.block \notin Busy /\ (\A i, j \in DOMAIN calls : calls[i].block = calls[j].block => i = j)
                => \A i, j \in DOMAIN calls' : calls'[i].block = calls'[j].block => i = j
<1>1. calls \in Seq(Call)
  BY DEF TypeOK, Call
<1>2. /\ calls' \in Seq(Call)
      /\ DOMAIN calls' = 1 .. (Len(calls) + 1) /\ DOMAIN calls = 1 .. Len(calls)
      /\ calls'[1] = r /\ \A i \in DOMAIN calls : calls'[i + 1] = calls[i]
      /\ \A i \in DOMAIN calls' : i # 1 => i - 1 \in DOMAIN calls /\ calls'[i] = calls[i - 1]
      /\ Len(calls) \in Nat
  BY <1>1, CallsPushed, LenProperties
<1>3. \A i \in DOMAIN calls : i + 1 \in DOMAIN calls'
  BY <1>2
<1>4. 1 \in DOMAIN calls'
  BY <1>2
<1>5. Busy' = Busy \cup {r.block}
  <2>1. \A i \in DOMAIN calls' : calls'[i].block \in Busy \cup {r.block}
    BY <1>2 DEF Busy
  <2>2. \A i \in DOMAIN calls : calls[i].block \in Busy'
    BY <1>2, <1>3 DEF Busy
  <2>3. r.block \in Busy'
    BY <1>2, <1>4 DEF Busy
  <2> QED BY <2>1, <2>2, <2>3 DEF Busy
<1>6. \A i \in DOMAIN calls' : calls'[i] = r \/ \E j \in DOMAIN calls : calls'[i] = calls[j]
  BY <1>2
<1>7. ASSUME r.block \notin Busy, \A i, j \in DOMAIN calls : calls[i].block = calls[j].block => i = j,
             NEW i \in DOMAIN calls', NEW j \in DOMAIN calls', calls'[i].block = calls'[j].block
      PROVE  i = j
  <2>1. CASE i = 1 /\ j = 1
    BY <2>1
  <2>2. CASE i = 1 /\ j # 1
    BY <1>2, <1>7, <2>2 DEF Busy
  <2>3. CASE i # 1 /\ j = 1
    BY <1>2, <1>7, <2>3 DEF Busy
  <2>4. CASE i # 1 /\ j # 1
    <3>1. i - 1 = j - 1
      BY <1>2, <1>7, <2>4
    <3> QED BY <1>2, <3>1
  <2> QED BY <2>1, <2>2, <2>3, <2>4
<1> QED BY <1>2, <1>5, <1>6, <1>7

(* The innermost one ends. *)
LEMMA BusyPopped ==
    ASSUME TypeOK, calls # <<>>, calls' = Tail(calls),
           \A i, j \in DOMAIN calls : calls[i].block = calls[j].block => i = j
    PROVE  /\ calls' \in Seq(Call) /\ Busy' = Busy \ {Head(calls).block}
           /\ Head(calls) \in Call /\ Head(calls).block \in Busy
           /\ \E j \in DOMAIN calls : Head(calls) = calls[j]
           /\ \A i \in DOMAIN calls' : \E j \in DOMAIN calls : calls'[i] = calls[j]
           /\ \A i, j \in DOMAIN calls' : calls'[i].block = calls'[j].block => i = j
<1>1. calls \in Seq(Call)
  BY DEF TypeOK, Call
<1>2. /\ calls' \in Seq(Call)
      /\ DOMAIN calls' = 1 .. (Len(calls) - 1) /\ DOMAIN calls = 1 .. Len(calls)
      /\ Len(calls) - 1 \in Nat /\ 1 \in DOMAIN calls /\ calls[1] = Head(calls) /\ Head(calls) \in Call
      /\ \A i \in DOMAIN calls' : i + 1 \in DOMAIN calls /\ i + 1 # 1 /\ calls'[i] = calls[i + 1]
      /\ \A i \in DOMAIN calls : i # 1 => i - 1 \in DOMAIN calls' /\ calls'[i - 1] = calls[i]
  BY <1>1, CallsPopped
<1>3. Busy' = Busy \ {Head(calls).block}
  <2>1. \A i \in DOMAIN calls' : calls'[i].block \in Busy \ {Head(calls).block}
    BY <1>2 DEF Busy
  <2>2. \A i \in DOMAIN calls : calls[i].block # Head(calls).block => calls[i].block \in Busy'
    BY <1>2 DEF Busy
  <2> QED BY <2>1, <2>2 DEF Busy
<1>4. \A i, j \in DOMAIN calls' : calls'[i].block = calls'[j].block => i = j
  <2> SUFFICES ASSUME NEW i \in DOMAIN calls', NEW j \in DOMAIN calls', calls'[i].block = calls'[j].block
               PROVE  i = j
    OBVIOUS
  <2>1. i + 1 = j + 1
    BY <1>2
  <2> QED BY <1>2, <2>1
<1>5. Head(calls).block \in Busy
  BY <1>2 DEF Busy
<1> QED BY <1>2, <1>3, <1>4, <1>5

(* TypedPool::construct takes a block and calls the constructor of T. *)
LEMMA ConstructBeginStep ==
    ASSUME IInv, NEW o \in Objects, NEW b, ConstructBegin(o, b), UNCHANGED ptrs
    PROVE  IInv'
<1>0. TypeOK /\ DataOK /\ HandlesOwn /\ BlocksPlaced /\ CallsRooted
  BY DEF IInv
<1> DEFINE r == [verb |-> "construct", object |-> o, block |-> b]
<1>1. /\ Settled /\ UNCHANGED <<raw, built, live, last_growths, grew>>
      /\ class[o] = "TypedPool" /\ Vends(handle[o], b) /\ calls' = <<r>> \o calls
  BY DEF ConstructBegin, Settled, members, events
<1>2. PICK h \in Pools : h = handle[o] /\ h # NULL /\ life[h] = "alive"
  BY <1>0, <1>1 DEF Vends, TypeOK, HandlesOwn
<1>3. /\ b \in AnyBlock /\ b \notin vended /\ b[1] = h /\ vended' = vended \cup {b}
      /\ vended' \subseteq AnyBlock
      /\ slots' \in [Pools -> 0 .. MaxSlots] /\ growths' \in [Pools -> Nat]
      /\ \A p \in Pools : BlocksOf(p)' \subseteq Slots(p)'
      /\ \A p \in Pools : p # h => growths'[p] = growths[p]
  BY <1>0, <1>1, <1>2, VendsSound
<1>4. \A p : p # h => Out(p)' = Out(p)
  BY <1>0, <1>3, OutVends DEF DataOK
<1>5. CountersFollowPool' /\ OthersSilent' /\ NewUntouched'
  BY <1>1, <1>2, <1>3, <1>4, CountersFrame
<1>6. HandlesOwn' /\ DestroyedToldOnce' /\ ObserversFollow'
  BY <1>1, ObjectsFrame
<1>7. PtrsRooted' /\ IsFiniteSet(ptrs') /\ \A q \in ptrs' : q.adapter \in Adapters /\ q.request \in Requests
  BY <1>1, PtrsFrame
<1>8. r \in Call /\ r.block = b /\ r.object = o
  BY <1>3 DEF Call
<1> HIDE DEF r
<1>9. /\ calls' \in Seq(Call) /\ Busy' = Busy \cup {b}
      /\ \A i \in DOMAIN calls' : calls'[i] = r \/ \E j \in DOMAIN calls : calls'[i] = calls[j]
      /\ b \notin Busy /\ (\A i, j \in DOMAIN calls : calls[i].block = calls[j].block => i = j)
            => \A i, j \in DOMAIN calls' : calls'[i].block = calls'[j].block => i = j
  BY <1>0, <1>1, <1>8, BusyPushed
<1>10. TypeOK' /\ DataOK'
  <2>1. live' \in [Objects -> Nat] /\ last_growths' \in [Objects -> Nat] /\ grew' \in [Pools -> Nat]
    BY <1>0, <1>1 DEF TypeOK, DataOK
  <2> QED BY <1>1, <1>3, <1>7, <1>9, <2>1, TypesFrame
<1>11. BlocksAlive'
  BY <1>1, <1>2, <1>3, AliveFrame DEF Settled
<1>12. BlocksPlaced'
  <2>1. Contained' = Contained /\ PoolPtrs' = PoolPtrs
    BY <1>1 DEF Contained, PoolPtrs
  <2>2. /\ vended = raw \cup built \cup Busy \cup Contained
        /\ \A i, j \in DOMAIN calls : calls[i].block = calls[j].block => i = j
    BY <1>0 DEF BlocksPlaced
  <2>3. \A i, j \in DOMAIN calls' : calls'[i].block = calls'[j].block => i = j
    BY <1>3, <1>9, <2>2
  <2> QED BY <1>0, <1>1, <1>3, <1>9, <2>1, <2>3 DEF BlocksPlaced
<1>13. CallsRooted'
  <2> SUFFICES ASSUME NEW i \in DOMAIN calls'
               PROVE  class[calls'[i].object] = "TypedPool"
                      /\ calls'[i].block[1] = handle[calls'[i].object]
    BY <1>1 DEF Settled, CallsRooted
  <2>1. CASE calls'[i] = r
    BY <1>1, <1>2, <1>3, <1>8, <2>1
  <2>2. CASE \E j \in DOMAIN calls : calls'[i] = calls[j]
    BY <1>0, <2>2 DEF CallsRooted
  <2> QED BY <1>9, <2>1, <2>2
<1> QED BY <1>5, <1>6, <1>7, <1>10, <1>11, <1>12, <1>13 DEF IInv

(* A T comes to life, or begins to end: no block changes between pool and client. *)
LEMMA CallsMoved ==
    ASSUME IInv, Settled, UNCHANGED <<slots, growths, vended, raw, live, last_growths, grew, ptrs>>
    PROVE  /\ HandlesOwn' /\ DestroyedToldOnce' /\ ObserversFollow'
           /\ CountersFollowPool' /\ OthersSilent' /\ NewUntouched'
           /\ BlocksAlive' /\ PtrsRooted'
           /\ calls' \in Seq(Call) => TypeOK' /\ DataOK'
<1>0. TypeOK /\ DataOK /\ CountersFollowPool /\ OthersSilent /\ NewUntouched
  BY DEF IInv
<1>1. HandlesOwn' /\ DestroyedToldOnce' /\ ObserversFollow'
  BY ObjectsFrame
<1>2. PtrsRooted' /\ IsFiniteSet(ptrs') /\ \A q \in ptrs' : q.adapter \in Adapters /\ q.request \in Requests
  BY PtrsFrame
<1>3. CountersFollowPool' /\ OthersSilent' /\ NewUntouched'
  BY <1>0 DEF Settled, CountersFollowPool, OthersSilent, NewUntouched, Out, BlocksOf
<1>4. BlocksAlive'
  BY AliveFrame DEF Settled
<1>5. ASSUME calls' \in Seq(Call) PROVE TypeOK' /\ DataOK'
  <2>1. /\ vended' \subseteq AnyBlock
        /\ slots' \in [Pools -> 0 .. MaxSlots] /\ growths' \in [Pools -> Nat]
        /\ \A p \in Pools : BlocksOf(p)' \subseteq Slots(p)'
    BY <1>0, FewerBlocks
  <2>2. live' \in [Objects -> Nat] /\ last_growths' \in [Objects -> Nat] /\ grew' \in [Pools -> Nat]
    BY <1>0 DEF TypeOK, DataOK
  <2> QED BY <1>2, <1>5, <2>1, <2>2, TypesFrame
<1> QED BY <1>1, <1>2, <1>3, <1>4, <1>5

(* The constructor returns: the block is the client's. *)
LEMMA ConstructDoneStep ==
    ASSUME IInv, ConstructDone, UNCHANGED ptrs
    PROVE  IInv'
<1>0. TypeOK /\ BlocksPlaced /\ CallsRooted
  BY DEF IInv
<1>1. /\ Settled /\ UNCHANGED <<slots, growths, vended, raw, live, last_growths, grew>>
      /\ calls # <<>> /\ built' = built \cup {Head(calls).block} /\ calls' = Tail(calls)
  BY DEF ConstructDone, Innermost, Settled, core, members, events
<1>2. /\ calls' \in Seq(Call) /\ Busy' = Busy \ {Head(calls).block} /\ Head(calls).block \in Busy
      /\ \A i \in DOMAIN calls' : \E j \in DOMAIN calls : calls'[i] = calls[j]
      /\ \A i, j \in DOMAIN calls' : calls'[i].block = calls'[j].block => i = j
  BY <1>0, <1>1, BusyPopped DEF BlocksPlaced
<1>3. BlocksPlaced'
  <2>1. Contained' = Contained /\ PoolPtrs' = PoolPtrs
    BY DEF Contained, PoolPtrs
  <2> QED BY <1>0, <1>1, <1>2, <2>1 DEF BlocksPlaced
<1>4. CallsRooted'
  BY <1>0, <1>1, <1>2 DEF Settled, CallsRooted
<1> QED BY <1>1, <1>2, <1>3, <1>4, CallsMoved DEF IInv

(* TypedPool::destroy runs the destructor; the block is the call's. *)
LEMMA DestroyBeginStep ==
    ASSUME IInv, NEW o \in Objects, NEW b, DestroyBegin(o, b), UNCHANGED ptrs
    PROVE  IInv'
<1>0. TypeOK /\ DataOK /\ BlocksPlaced /\ CallsRooted
  BY DEF IInv
<1> DEFINE r == [verb |-> "destroy", object |-> o, block |-> b]
<1>1. /\ Settled /\ UNCHANGED <<slots, growths, vended, raw, live, last_growths, grew>>
      /\ class[o] = "TypedPool" /\ b \in built /\ b[1] = handle[o]
      /\ built' = built \ {b} /\ calls' = <<r>> \o calls
  BY DEF DestroyBegin, Settled, core, members, events
<1>2. b \in AnyBlock /\ b \notin Busy
  BY <1>0, <1>1 DEF DataOK, BlocksPlaced
<1>3. r \in Call /\ r.block = b /\ r.object = o
  BY <1>2 DEF Call
<1> HIDE DEF r
<1>4. /\ calls' \in Seq(Call) /\ Busy' = Busy \cup {b}
      /\ \A i \in DOMAIN calls' : calls'[i] = r \/ \E j \in DOMAIN calls : calls'[i] = calls[j]
      /\ b \notin Busy /\ (\A i, j \in DOMAIN calls : calls[i].block = calls[j].block => i = j)
            => \A i, j \in DOMAIN calls' : calls'[i].block = calls'[j].block => i = j
  BY <1>0, <1>1, <1>3, BusyPushed
<1>5. BlocksPlaced'
  <2>1. Contained' = Contained /\ PoolPtrs' = PoolPtrs
    BY DEF Contained, PoolPtrs
  <2>2. \A i, j \in DOMAIN calls' : calls'[i].block = calls'[j].block => i = j
    BY <1>0, <1>2, <1>4 DEF BlocksPlaced
  <2> QED BY <1>0, <1>1, <1>4, <2>1, <2>2 DEF BlocksPlaced
<1>6. CallsRooted'
  <2> SUFFICES ASSUME NEW i \in DOMAIN calls'
               PROVE  class[calls'[i].object] = "TypedPool"
                      /\ calls'[i].block[1] = handle[calls'[i].object]
    BY <1>1 DEF Settled, CallsRooted
  <2>1. CASE calls'[i] = r
    BY <1>1, <1>3, <2>1
  <2>2. CASE \E j \in DOMAIN calls : calls'[i] = calls[j]
    BY <1>0, <2>2 DEF CallsRooted
  <2> QED BY <1>4, <2>1, <2>2
<1> QED BY <1>1, <1>4, <1>5, <1>6, CallsMoved DEF IInv

(* The block of a constructor that throws, or of a destructor, goes back. *)
LEMMA CallReturnsStep ==
    ASSUME IInv, ConstructThrows \/ DestroyDone, UNCHANGED ptrs
    PROVE  IInv'
<1>0. TypeOK /\ DataOK /\ BlocksPlaced /\ CallsRooted
  BY DEF IInv
<1>1. /\ Settled /\ UNCHANGED <<slots, growths, raw, built, live, last_growths, grew>>
      /\ calls # <<>> /\ Takes(handle[Head(calls).object], Head(calls).block)
      /\ calls' = Tail(calls)
  BY DEF ConstructThrows, DestroyDone, Innermost, Settled, members, events
<1>2. /\ calls' \in Seq(Call) /\ Busy' = Busy \ {Head(calls).block} /\ Head(calls).block \in Busy
      /\ Head(calls) \in Call /\ \E j \in DOMAIN calls : Head(calls) = calls[j]
      /\ \A i \in DOMAIN calls' : \E j \in DOMAIN calls : calls'[i] = calls[j]
      /\ \A i, j \in DOMAIN calls' : calls'[i].block = calls'[j].block => i = j
  BY <1>0, <1>1, BusyPopped DEF BlocksPlaced
<1>3. PICK o \in Objects, b \in vended : /\ o = Head(calls).object /\ b = Head(calls).block
                                         /\ class[o] = "TypedPool" /\ b[1] = handle[o]
  <2>1. Head(calls).object \in Objects /\ Head(calls).block \in vended
    BY <1>0, <1>2 DEF Call, BlocksPlaced
  <2>2. class[Head(calls).object] = "TypedPool"
        /\ Head(calls).block[1] = handle[Head(calls).object]
    BY <1>0, <1>2 DEF CallsRooted
  <2> QED BY <2>1, <2>2
<1>4. vended' = vended \ {b}
  BY <1>1, <1>3 DEF Takes
<1>5. \A p : p # b[1] => Out(p)' = Out(p)
  BY <1>0, <1>4, OutTakes DEF DataOK
<1>6. handle[o] # NULL
  BY <1>0, <1>3, NullIsNoPool DEF DataOK
<1>7. CountersFollowPool' /\ OthersSilent' /\ NewUntouched'
  BY <1>1, <1>3, <1>5, <1>6, CountersFrame
<1>8. HandlesOwn' /\ DestroyedToldOnce' /\ ObserversFollow'
  BY <1>1, ObjectsFrame
<1>9. PtrsRooted' /\ IsFiniteSet(ptrs') /\ \A q \in ptrs' : q.adapter \in Adapters /\ q.request \in Requests
  BY <1>1, PtrsFrame
<1>10. TypeOK' /\ DataOK'
  <2>1. /\ vended' \subseteq AnyBlock
        /\ slots' \in [Pools -> 0 .. MaxSlots] /\ growths' \in [Pools -> Nat]
        /\ \A p \in Pools : BlocksOf(p)' \subseteq Slots(p)'
    BY <1>0, <1>1, <1>4, FewerBlocks
  <2>2. live' \in [Objects -> Nat] /\ last_growths' \in [Objects -> Nat] /\ grew' \in [Pools -> Nat]
    BY <1>0, <1>1 DEF TypeOK, DataOK
  <2> QED BY <1>1, <1>2, <1>9, <2>1, <2>2, TypesFrame
<1>11. BlocksAlive'
  BY <1>1, <1>4, AliveFrame DEF Settled
<1>12. BlocksPlaced'
  <2>1. Contained' = Contained /\ PoolPtrs' = PoolPtrs
    BY DEF Contained, PoolPtrs
  <2> QED BY <1>0, <1>1, <1>2, <1>3, <1>4, <2>1 DEF BlocksPlaced
<1>13. CallsRooted'
  BY <1>0, <1>1, <1>2 DEF Settled, CallsRooted
<1> QED BY <1>7, <1>8, <1>9, <1>10, <1>11, <1>12, <1>13 DEF IInv

-----------------------------------------------------------------------------
(* The adapters *)

(* An adapter refers to an object, and its other source is not a pool. *)
LEMMA UpstreamIsNoPool == \A a \in Adapters : a.pool \in Objects /\ a.upstream # "pool"
BY AdaptersAssumption DEF Adapters

(* What is asked when the pointer comes back was asked when it was allocated. *)
LEMMA RoutesAgain ==
    ASSUME NEW q, NEW a, handle[a.pool] = q.home
    PROVE  routes_to_pool(a, q.request) <=> FitsBlock(q)
BY DEF routes_to_pool, FitsBlock, BlockSize

(* A container gets a pointer from its adapter. *)
LEMMA HoldsSound ==
    ASSUME IInv, Settled, NEW a \in Adapters, NEW r \in Requests, NEW source, NEW b,
           class[a.pool] = "Pool", Holds(a, r, source, b), source = Source(a, r),
           source = "pool" => handle[a.pool] # NULL /\ b[1] = handle[a.pool]
    PROVE  /\ PtrsRooted' /\ IsFiniteSet(ptrs')
           /\ \A q \in ptrs' : q.adapter \in Adapters /\ q.request \in Requests
           /\ source # "pool" => PoolPtrs' = PoolPtrs
           /\ source = "pool" => \E q : q.block = b /\ PoolPtrs' = PoolPtrs \cup {q}
<1>0. /\ PtrsRooted /\ IsFiniteSet(ptrs) /\ HandlesOwn
      /\ \A q \in ptrs : q.adapter \in Adapters /\ q.request \in Requests
      /\ handle \in [Objects -> {NULL} \cup Pools]
  BY DEF IInv, DataOK, TypeOK
<1>1. PICK q : /\ q = [adapter |-> a, request |-> r, home |-> handle[a.pool],
                       source |-> source, block |-> b]
               /\ ptrs' = ptrs \cup {q}
  BY DEF Holds
<1>2. /\ q.adapter = a /\ q.request = r /\ q.home = handle[a.pool]
      /\ q.source = source /\ q.block = b
  BY <1>1
<1>3. IsFiniteSet(ptrs')
  BY <1>0, <1>1, FS_AddElement
<1>4. \A s \in ptrs' : s.adapter \in Adapters /\ s.request \in Requests
  BY <1>0, <1>1, <1>2
<1>5. a.pool \in Objects
  BY UpstreamIsNoPool
<1>6. routes_to_pool(a, r) <=> FitsBlock(q)
  BY <1>2, RoutesAgain
<1>7. /\ class[q.adapter.pool] = "Pool"
      /\ q.home # NULL => q.home \in Pools /\ life[q.home] = "alive"
      /\ q.source = IF FitsBlock(q) THEN "pool" ELSE q.adapter.upstream
      /\ q.source = "pool" => q.home # NULL /\ q.block[1] = q.home
  BY <1>0, <1>2, <1>5, <1>6 DEF HandlesOwn, Source
<1>8. \A s : FitsBlock(s)' <=> FitsBlock(s)
  BY DEF Settled, FitsBlock, memory_pool_block_size
<1>9. PtrsRooted'
  BY <1>0, <1>1, <1>7, <1>8 DEF Settled, PtrsRooted
<1> QED BY <1>1, <1>2, <1>3, <1>4, <1>9 DEF PoolPtrs

(* An adapter is served by the pool it refers to. *)
LEMMA AllocateFromPoolStep ==
    ASSUME IInv, NEW a \in Adapters, NEW r \in Requests, NEW b, AllocateFromPool(a, r, b)
    PROVE  IInv'
<1>0. TypeOK /\ DataOK /\ HandlesOwn /\ BlocksPlaced /\ CallsRooted
  BY DEF IInv
<1>1. /\ Settled /\ UNCHANGED <<raw, built, calls, live, last_growths, grew>>
      /\ class[a.pool] = "Pool" /\ Vends(handle[a.pool], b) /\ routes_to_pool(a, r)
      /\ Holds(a, r, "pool", b)
  BY DEF AllocateFromPool, Bound, Settled, client, members, events
<1>2. PICK o \in Objects, h \in Pools : o = a.pool /\ h = handle[o] /\ h # NULL /\ life[h] = "alive"
  BY <1>0, <1>1, UpstreamIsNoPool DEF Vends, TypeOK, HandlesOwn
<1>3. /\ b \in AnyBlock /\ b \notin vended /\ b[1] = h /\ vended' = vended \cup {b}
      /\ vended' \subseteq AnyBlock
      /\ slots' \in [Pools -> 0 .. MaxSlots] /\ growths' \in [Pools -> Nat]
      /\ \A p \in Pools : BlocksOf(p)' \subseteq Slots(p)'
      /\ \A p \in Pools : p # h => growths'[p] = growths[p]
  BY <1>0, <1>1, <1>2, VendsSound
<1>4. \A p : p # h => Out(p)' = Out(p)
  BY <1>0, <1>3, OutVends DEF DataOK
<1>5. CountersFollowPool' /\ OthersSilent' /\ NewUntouched'
  BY <1>1, <1>2, <1>3, <1>4, CountersFrame
<1>6. HandlesOwn' /\ DestroyedToldOnce' /\ ObserversFollow'
  BY <1>1, ObjectsFrame
<1>7. /\ PtrsRooted' /\ IsFiniteSet(ptrs')
      /\ \A q \in ptrs' : q.adapter \in Adapters /\ q.request \in Requests
      /\ \E q : q.block = b /\ PoolPtrs' = PoolPtrs \cup {q}
  <2>1. Source(a, r) = "pool"
    BY <1>1 DEF Source
  <2> QED BY <1>1, <1>2, <1>3, <2>1, HoldsSound
<1>8. TypeOK' /\ DataOK'
  <2>1. /\ live' \in [Objects -> Nat] /\ last_growths' \in [Objects -> Nat]
        /\ grew' \in [Pools -> Nat] /\ calls' \in Seq(Call)
    BY <1>0, <1>1 DEF TypeOK, DataOK, Call
  <2> QED BY <1>1, <1>3, <1>7, <2>1, TypesFrame
<1>9. BlocksAlive'
  BY <1>1, <1>2, <1>3, AliveFrame DEF Settled
<1>10. BlocksPlaced'
  <2>1. PICK q : q.block = b /\ PoolPtrs' = PoolPtrs \cup {q}
    BY <1>7
  <2>2. Busy' = Busy
    BY <1>1 DEF Busy
  <2>3. Contained' = Contained \cup {b}
    BY <2>1 DEF Contained
  <2>4. b \notin Contained /\ b \notin raw /\ b \notin built /\ b \notin Busy
    BY <1>0, <1>3 DEF BlocksPlaced
  <2>5. \A s, t \in PoolPtrs' : s.block = t.block => s = t
    BY <1>0, <2>1, <2>4 DEF BlocksPlaced, Contained
  <2> QED BY <1>0, <1>1, <1>3, <2>2, <2>3, <2>4, <2>5 DEF BlocksPlaced
<1>11. CallsRooted'
  BY <1>0, <1>1 DEF Settled, CallsRooted
<1> QED BY <1>5, <1>6, <1>7, <1>8, <1>9, <1>10, <1>11 DEF IInv

(* Steps of an adapter in which the pool has no part. *)
LEMMA PoolAside ==
    ASSUME IInv, UNCHANGED vars, PtrsRooted', IsFiniteSet(ptrs'), PoolPtrs' = PoolPtrs,
           \A q \in ptrs' : q.adapter \in Adapters /\ q.request \in Requests
    PROVE  IInv'
<1>0. TypeOK /\ DataOK /\ CountersFollowPool /\ OthersSilent /\ NewUntouched
      /\ BlocksPlaced /\ CallsRooted
  BY DEF IInv
<1>1. /\ Settled
      /\ UNCHANGED <<raw, built, calls, live, last_growths, grew, slots, growths, vended>>
  BY DEF vars, core, client, members, events, Settled
<1>2. HandlesOwn' /\ DestroyedToldOnce' /\ ObserversFollow'
  BY <1>1, ObjectsFrame
<1>3. CountersFollowPool' /\ OthersSilent' /\ NewUntouched'
  BY <1>0, <1>1 DEF Settled, CountersFollowPool, OthersSilent, NewUntouched, Out, BlocksOf
<1>4. TypeOK' /\ DataOK'
  <2>1. /\ vended' \subseteq AnyBlock
        /\ slots' \in [Pools -> 0 .. MaxSlots] /\ growths' \in [Pools -> Nat]
        /\ \A p \in Pools : BlocksOf(p)' \subseteq Slots(p)'
    BY <1>0, <1>1, FewerBlocks
  <2>2. /\ live' \in [Objects -> Nat] /\ last_growths' \in [Objects -> Nat]
        /\ grew' \in [Pools -> Nat] /\ calls' \in Seq(Call)
    BY <1>0, <1>1 DEF TypeOK, DataOK, Call
  <2> QED BY <1>1, <2>1, <2>2, TypesFrame
<1>5. BlocksAlive'
  BY <1>1, AliveFrame DEF Settled
<1>6. BlocksPlaced'
  <2>1. Busy' = Busy /\ Contained' = Contained
    BY <1>1 DEF Busy, Contained
  <2> QED BY <1>0, <1>1, <2>1 DEF BlocksPlaced
<1>7. CallsRooted'
  BY <1>0, <1>1 DEF Settled, CallsRooted
<1> QED BY <1>2, <1>3, <1>4, <1>5, <1>6, <1>7 DEF IInv

(* A step that changes nothing preserves the invariant. *)
LEMMA IdleStep ==
    ASSUME IInv, UNCHANGED allvars
    PROVE  IInv'
<1>1. UNCHANGED vars /\ UNCHANGED ptrs
  BY DEF allvars
<1>2. Settled
  BY <1>1 DEF vars, core, events, members, Settled
<1>3. /\ PtrsRooted' /\ IsFiniteSet(ptrs')
      /\ \A q \in ptrs' : q.adapter \in Adapters /\ q.request \in Requests
  BY <1>1, <1>2, PtrsFrame
<1>4. PoolPtrs' = PoolPtrs
  BY <1>1 DEF PoolPtrs
<1> QED BY <1>1, <1>3, <1>4, PoolAside

(* An adapter is served by operator new or by its upstream. *)
LEMMA AllocateElsewhereStep ==
    ASSUME IInv, NEW a \in Adapters, NEW r \in Requests,
           allocate_fallback(a, r) \/ AllocateUpstream(a, r)
    PROVE  IInv'
<1>1. /\ UNCHANGED vars /\ class[a.pool] = "Pool" /\ ~ routes_to_pool(a, r)
      /\ UNCHANGED ptrs \/ Holds(a, r, a.upstream, <<NULL, 0>>)
  BY DEF allocate_fallback, AllocateUpstream, Bound
<1>2. Settled
  BY <1>1 DEF vars, core, events, members, Settled
<1>3. CASE UNCHANGED ptrs
  BY <1>1, <1>3, IdleStep DEF allvars
<1>4. CASE Holds(a, r, a.upstream, <<NULL, 0>>)
  <2>1. a.upstream = Source(a, r) /\ a.upstream # "pool"
    BY <1>1, UpstreamIsNoPool DEF Source
  <2>2. /\ PtrsRooted' /\ IsFiniteSet(ptrs') /\ PoolPtrs' = PoolPtrs
        /\ \A q \in ptrs' : q.adapter \in Adapters /\ q.request \in Requests
    BY <1>1, <1>2, <1>4, <2>1, HoldsSound
  <2> QED BY <1>1, <2>2, PoolAside
<1> QED BY <1>1, <1>3, <1>4

(* A pointer goes back to operator new or to the upstream. *)
LEMMA ReturnElsewhereStep ==
    ASSUME IInv, NEW q \in ptrs, NEW a \in Adapters,
           deallocate_fallback(q, a) \/ ReturnUpstream(q, a)
    PROVE  IInv'
<1>1. /\ UNCHANGED vars /\ ~ routes_to_pool(a, q.request)
      /\ handle[a.pool] = q.home /\ ptrs' = ptrs \ {q}
  BY DEF deallocate_fallback, ReturnUpstream, Returns
<1>2. Settled
  BY <1>1 DEF vars, core, events, members, Settled
<1>3. q.source # "pool"
  <2>1. q.adapter \in Adapters /\ (q.source = IF FitsBlock(q) THEN "pool" ELSE q.adapter.upstream)
    BY DEF IInv, TypeOK, PtrsRooted
  <2> QED BY <1>1, <2>1, RoutesAgain, UpstreamIsNoPool
<1>4. PoolPtrs' = PoolPtrs
  BY <1>1, <1>3 DEF PoolPtrs
<1>5. /\ PtrsRooted' /\ IsFiniteSet(ptrs')
      /\ \A s \in ptrs' : s.adapter \in Adapters /\ s.request \in Requests
  BY <1>1, <1>2, PtrsFrame
<1> QED BY <1>1, <1>4, <1>5, PoolAside

(* A pointer goes back to the pool of the object the adapter refers to. *)
LEMMA ReturnToPoolStep ==
    ASSUME IInv, NEW q \in ptrs, NEW a \in Adapters, ReturnToPool(q, a)
    PROVE  IInv'
<1>0. TypeOK /\ DataOK /\ BlocksPlaced /\ CallsRooted /\ PtrsRooted
  BY DEF IInv
<1>1. /\ Settled /\ UNCHANGED <<slots, growths, raw, built, calls, live, last_growths, grew>>
      /\ routes_to_pool(a, q.request) /\ Takes(handle[a.pool], q.block)
      /\ Equal(a, q.adapter) /\ handle[a.pool] = q.home /\ ptrs' = ptrs \ {q}
  BY DEF ReturnToPool, Returns, Settled, client, members, events
<1>2. q.source = "pool"
  BY <1>0, <1>1, RoutesAgain DEF PtrsRooted
<1>3. q \in PoolPtrs /\ q.block \in vended
  BY <1>0, <1>2 DEF PoolPtrs, Contained, BlocksPlaced
<1>4. PICK o \in Objects, b \in vended : /\ o = a.pool /\ b = q.block
                                         /\ class[o] = "Pool" /\ b[1] = handle[o] /\ handle[o] # NULL
  <2>1. a.pool \in Objects /\ a.pool = q.adapter.pool
    BY <1>1, UpstreamIsNoPool DEF Equal, operator_eq, do_is_equal
  <2>2. class[q.adapter.pool] = "Pool" /\ q.home # NULL /\ q.block[1] = q.home
    BY <1>0, <1>2 DEF PtrsRooted
  <2> QED BY <1>1, <1>3, <2>1, <2>2
<1>5. vended' = vended \ {b}
  BY <1>1, <1>4 DEF Takes
<1>6. \A p : p # b[1] => Out(p)' = Out(p)
  BY <1>0, <1>5, OutTakes DEF DataOK
<1>7. CountersFollowPool' /\ OthersSilent' /\ NewUntouched'
  BY <1>1, <1>4, <1>6, CountersFrame
<1>8. HandlesOwn' /\ DestroyedToldOnce' /\ ObserversFollow'
  BY <1>1, ObjectsFrame
<1>9. PtrsRooted' /\ IsFiniteSet(ptrs') /\ \A s \in ptrs' : s.adapter \in Adapters /\ s.request \in Requests
  BY <1>1, PtrsFrame
<1>10. TypeOK' /\ DataOK'
  <2>1. /\ vended' \subseteq AnyBlock
        /\ slots' \in [Pools -> 0 .. MaxSlots] /\ growths' \in [Pools -> Nat]
        /\ \A p \in Pools : BlocksOf(p)' \subseteq Slots(p)'
    BY <1>0, <1>1, <1>5, FewerBlocks
  <2>2. /\ live' \in [Objects -> Nat] /\ last_growths' \in [Objects -> Nat]
        /\ grew' \in [Pools -> Nat] /\ calls' \in Seq(Call)
    BY <1>0, <1>1 DEF TypeOK, DataOK, Call
  <2> QED BY <1>1, <1>9, <2>1, <2>2, TypesFrame
<1>11. BlocksAlive'
  BY <1>1, <1>5, AliveFrame DEF Settled
<1>12. BlocksPlaced'
  <2>1. Busy' = Busy
    BY <1>1 DEF Busy
  <2>2. PoolPtrs' = PoolPtrs \ {q}
    BY <1>1 DEF PoolPtrs
  <2>3. Contained' = Contained \ {b}
    BY <1>0, <1>3, <1>4, <2>2 DEF Contained, BlocksPlaced
  <2>4. b \in Contained
    BY <1>3, <1>4 DEF Contained
  <2> QED BY <1>0, <1>1, <1>5, <2>1, <2>2, <2>3, <2>4 DEF BlocksPlaced
<1>13. CallsRooted'
  BY <1>0, <1>1 DEF Settled, CallsRooted
<1> QED BY <1>7, <1>8, <1>9, <1>10, <1>11, <1>12, <1>13 DEF IInv

-----------------------------------------------------------------------------
(* Objects begin. *)

(* A container loses no pointer while no pool ends. *)
LEMMA PtrsKept ==
    ASSUME IInv, \A p \in Pools : life[p] = "alive" => life'[p] = "alive",
           ptrs' = {q \in ptrs : q.source = "pool" => life'[q.home] = "alive"}
    PROVE  ptrs' = ptrs
<1>1. \A q \in ptrs : q.source = "pool" => q.home \in Pools /\ life[q.home] = "alive"
  BY DEF IInv, PtrsRooted
<1> QED BY <1>1

(* An object is constructed around a pool of its own. *)
LEMMA CreateStep ==
    ASSUME IInv, NEW o \in Objects, NEW p \in Pools, NEW size \in Nat, NEW f \in Nat,
           NEW c \in {"Pool", "TypedPool", "InstrumentedPool"},
           Create(p, size, f), Begins(o, c, p), Fresh(o), UNCHANGED <<client, events>>,
           ptrs' = {q \in ptrs : q.source = "pool" => life'[q.home] = "alive"}
    PROVE  IInv'
<1>0. /\ TypeOK /\ DataOK /\ HandlesOwn /\ NewUntouched /\ DestroyedToldOnce /\ ObserversFollow
      /\ CountersFollowPool /\ OthersSilent /\ BlocksAlive /\ BlocksPlaced /\ CallsRooted /\ PtrsRooted
  BY DEF IInv
<1>1. /\ class \in [Objects -> {"none", "Pool", "TypedPool", "InstrumentedPool"}]
      /\ handle \in [Objects -> {NULL} \cup Pools]
      /\ life \in [Pools -> {"unborn", "alive", "destroyed"}]
      /\ slots \in [Pools -> 0 .. MaxSlots] /\ growths \in [Pools -> Nat]
      /\ live \in [Objects -> Nat] /\ last_growths \in [Objects -> Nat]
      /\ observed \in [Objects -> BOOLEAN]
      /\ block_size \in [Pools -> Nat] /\ factor \in [Pools -> Nat]
      /\ calls \in Seq(Call)
  BY <1>0 DEF TypeOK, DataOK, Call
<1>2. /\ life[p] = "unborn" /\ life' = [life EXCEPT ![p] = "alive"]
      /\ block_size' = [block_size EXCEPT ![p] = size]
      /\ factor' = [factor EXCEPT ![p] = f] /\ slots' = [slots EXCEPT ![p] = N]
      /\ class[o] = "none" /\ class' = [class EXCEPT ![o] = c]
      /\ handle' = [handle EXCEPT ![o] = p]
      /\ live' = [live EXCEPT ![o] = 0] /\ last_growths' = [last_growths EXCEPT ![o] = 0]
      /\ observed' = [observed EXCEPT ![o] = FALSE]
      /\ UNCHANGED <<growths, vended, raw, built, calls, destroyed, grew, watched, used>>
  BY DEF Create, Begins, Fresh, client, events
<1>3. ptrs' = ptrs
  BY <1>1, <1>2, PtrsKept
<1>4. BlocksOf(p) = {} /\ p # NULL
  BY <1>0, <1>2, NullIsNoPool DEF BlocksAlive, BlocksOf
<1>5. \A x \in Pools : BlocksOf(x)' = BlocksOf(x) /\ Out(x)' = Out(x)
  BY <1>2 DEF BlocksOf, Out
<1>6. Out(p) = 0
  BY <1>4, FS_EmptySet DEF Out
<1>7. \A u \in Objects \ {o} : handle'[u] = handle[u] /\ handle[u] # p /\ class'[u] = class[u]
                               /\ live'[u] = live[u] /\ last_growths'[u] = last_growths[u]
                               /\ observed'[u] = observed[u]
  BY <1>0, <1>1, <1>2, <1>4 DEF HandlesOwn
<1>8. /\ handle'[o] = p /\ class'[o] = c /\ live'[o] = 0 /\ last_growths'[o] = 0
      /\ observed'[o] = FALSE /\ life'[p] = "alive"
      /\ \A x \in Pools \ {p} : life'[x] = life[x] /\ block_size'[x] = block_size[x]
  BY <1>1, <1>2
<1>9. TypeOK'
  <2>1. \A x \in Pools : BlocksOf(x)' \subseteq Slots(x)'
    <3>1. \A x \in Pools : BlocksOf(x) \subseteq Slots(x)
      BY <1>0 DEF TypeOK
    <3>2. \A x \in Pools \ {p} : slots'[x] = slots[x]
      BY <1>1, <1>2
    <3> QED BY <1>4, <1>5, <3>1, <3>2 DEF Slots
  <2>2. slots' \in [Pools -> 0 .. MaxSlots]
    BY <1>1, <1>2, ObjectsAssumption
  <2>3. {q.adapter : q \in ptrs'} \subseteq Adapters /\ {q.request : q \in ptrs'} \subseteq Requests
    BY <1>0, <1>3 DEF TypeOK, Adapters, Requests
  <2> QED BY <1>1, <1>2, <2>1, <2>2, <2>3 DEF TypeOK, Call
<1>10. DataOK'
  BY <1>0, <1>1, <1>2, <1>3 DEF DataOK, AnyBlock, Pools
<1>11. HandlesOwn'
  <2>1. \A u \in Objects : handle'[u] # NULL => class'[u] # "none" /\ life'[handle'[u]] = "alive"
    <3> TAKE u \in Objects
    <3> HAVE handle'[u] # NULL
    <3>1. CASE u = o
      BY <1>8, <3>1
    <3>2. CASE u # o
      <4>1. handle'[u] = handle[u] /\ handle[u] \in Pools \ {p} /\ class'[u] = class[u]
        BY <1>1, <1>7, <3>2
      <4>2. class[u] # "none" /\ life[handle[u]] = "alive"
        BY <1>0, <4>1, NullIsNoPool DEF HandlesOwn
      <4> QED BY <1>8, <4>1, <4>2
    <3> QED BY <3>1, <3>2
  <2>2. \A u, v \in Objects : handle'[u] = handle'[v] /\ handle'[u] # NULL => u = v
    BY <1>0, <1>7, <1>8 DEF HandlesOwn
  <2>3. \A x \in Pools : life'[x] = "alive" => \E u \in Objects : handle'[u] = x
    <3> TAKE x \in Pools
    <3>1. CASE x = p
      BY <1>8, <3>1
    <3>2. CASE x # p
      <4>1. life'[x] = "alive" => \E u \in Objects : handle[u] = x
        BY <1>0, <1>8, <3>2 DEF HandlesOwn
      <4>2. handle[o] = NULL
        BY <1>0, <1>1, <1>2 DEF HandlesOwn
      <4> QED BY <1>7, <4>1, <4>2, NullIsNoPool
    <3> QED BY <3>1, <3>2
  <2> QED BY <2>1, <2>2, <2>3 DEF HandlesOwn
<1>12. NewUntouched'
  BY <1>0, <1>2, <1>8 DEF NewUntouched
<1>13. DestroyedToldOnce'
  BY <1>0, <1>2, <1>8 DEF DestroyedToldOnce
<1>14. ObserversFollow'
  <2>1. p \notin watched
    BY <1>0, <1>2 DEF NewUntouched
  <2> QED BY <1>0, <1>2, <1>7, <1>8, <2>1 DEF ObserversFollow
<1>15. CountersFollowPool'
  <2> SUFFICES ASSUME NEW u \in Objects, NEW x \in Pools, x = handle'[u],
                      class'[u] = "InstrumentedPool", x \notin used
               PROVE  live'[u] = Out(x)' /\ last_growths'[u] = growths[x] /\ grew[x] = growths[x]
    BY <1>1, <1>2 DEF CountersFollowPool
  <2>1. CASE u = o
    <3>1. x = p /\ growths[p] = 0 /\ grew[p] = 0
      BY <1>0, <1>2, <1>8, <2>1 DEF NewUntouched
    <3> QED BY <1>5, <1>6, <1>8, <2>1, <3>1
  <2>2. CASE u # o
    <3>1. x = handle[u] /\ class[u] = "InstrumentedPool" /\ x # NULL
      BY <1>7, <2>2, NullIsNoPool
    <3>2. live[u] = Out(x) /\ last_growths[u] = growths[x] /\ grew[x] = growths[x]
      BY <1>0, <3>1 DEF CountersFollowPool
    <3> QED BY <1>5, <1>7, <2>2, <3>2
  <2> QED BY <2>1, <2>2
<1>16. OthersSilent'
  BY <1>0, <1>2, <1>7, <1>8 DEF OthersSilent, NewUntouched
<1>17. BlocksAlive'
  BY <1>0, <1>2, <1>8, NullIsNoPool DEF BlocksAlive, DataOK
<1>18. BlocksPlaced'
  <2>1. Busy' = Busy /\ PoolPtrs' = PoolPtrs /\ Contained' = Contained
    BY <1>2, <1>3 DEF Busy, PoolPtrs, Contained
  <2> QED BY <1>0, <1>2, <2>1 DEF BlocksPlaced
<1>19. CallsRooted'
  <2>1. \A i \in DOMAIN calls : calls[i].object \in Objects \ {o}
    <3>1. \A i \in DOMAIN calls : calls[i] \in Call
      BY <1>1, LenProperties
    <3> QED BY <1>0, <1>2, <3>1 DEF CallsRooted, Call
  <2> QED BY <1>0, <1>2, <1>7, <2>1 DEF CallsRooted
<1>20. PtrsRooted'
  <2> SUFFICES ASSUME NEW q \in ptrs
               PROVE  /\ class'[q.adapter.pool] = "Pool"
                      /\ q.home # NULL => q.home \in Pools /\ life'[q.home] # "unborn"
                      /\ q.source = IF FitsBlock(q)' THEN "pool" ELSE q.adapter.upstream
                      /\ q.source = "pool" => /\ q.home # NULL /\ life'[q.home] = "alive"
                                              /\ q.block[1] = q.home
    BY <1>3 DEF PtrsRooted
  <2>1. /\ class[q.adapter.pool] = "Pool"
        /\ q.home # NULL => q.home \in Pools /\ life[q.home] # "unborn"
        /\ q.source = IF FitsBlock(q) THEN "pool" ELSE q.adapter.upstream
        /\ q.source = "pool" => /\ q.home # NULL /\ life[q.home] = "alive"
                                /\ q.block[1] = q.home
    BY <1>0 DEF PtrsRooted
  <2>2. q.adapter.pool \in Objects \ {o}
    <3>1. q.adapter \in Adapters
      BY <1>0 DEF TypeOK
    <3> QED BY <1>2, <2>1, <3>1, UpstreamIsNoPool
  <2>3. q.home # NULL => q.home \in Pools \ {p}
    BY <1>2, <2>1
  <2>4. FitsBlock(q)' <=> FitsBlock(q)
    BY <1>8, <2>3 DEF FitsBlock, memory_pool_block_size
  <2> QED BY <1>7, <1>8, <2>1, <2>2, <2>3, <2>4
<1> QED BY <1>9, <1>10, <1>11, <1>12, <1>13, <1>14, <1>15, <1>16, <1>17, <1>18, <1>19, <1>20 DEF IInv

-----------------------------------------------------------------------------
(* Objects move. *)

(* A handle changes owners: o takes over the pool of q, of which no call is in
   progress, and becomes a c. *)
LEMMA HandOver ==
    ASSUME IInv, NEW o \in Objects, NEW q \in Objects,
           NEW c \in {"Pool", "TypedPool", "InstrumentedPool"},
           class[o] = "none", class[q] # "none",
           \A i \in DOMAIN calls : calls[i].object # q,
           class' = [class EXCEPT ![o] = c],
           handle' = [handle EXCEPT ![o] = handle[q], ![q] = NULL],
           UNCHANGED <<core, client, destroyed, grew, watched>>,
           ptrs' = {s \in ptrs : s.source = "pool" => life'[s.home] = "alive"},
           live' \in [Objects -> Nat], last_growths' \in [Objects -> Nat],
           observed' \in [Objects -> BOOLEAN]
    PROVE  /\ TypeOK' /\ DataOK' /\ HandlesOwn' /\ NewUntouched' /\ DestroyedToldOnce'
           /\ BlocksAlive' /\ BlocksPlaced' /\ CallsRooted' /\ PtrsRooted'
           /\ \A p \in Pools : Out(p)' = Out(p) /\ growths'[p] = growths[p]
           /\ o # q /\ handle[o] = NULL
<1>0. /\ TypeOK /\ DataOK /\ HandlesOwn /\ NewUntouched /\ DestroyedToldOnce
      /\ BlocksAlive /\ BlocksPlaced /\ CallsRooted /\ PtrsRooted
  BY DEF IInv
<1>1. /\ class \in [Objects -> {"none", "Pool", "TypedPool", "InstrumentedPool"}]
      /\ handle \in [Objects -> {NULL} \cup Pools]
      /\ calls \in Seq(Call)
  BY <1>0 DEF TypeOK, Call
<1>2. /\ UNCHANGED <<life, block_size, factor, slots, growths, vended, raw, built, calls>>
      /\ UNCHANGED <<destroyed, grew, watched>>
  BY DEF core, client
<1>3. ptrs' = ptrs
  BY <1>2, PtrsKept
<1>4. o # q /\ handle[o] = NULL
  BY <1>0 DEF HandlesOwn
<1>5. \A u \in Objects : /\ handle'[u] = IF u = o THEN handle[q]
                                         ELSE IF u = q THEN NULL ELSE handle[u]
                         /\ class'[u] = IF u = o THEN c ELSE class[u]
  BY <1>1, <1>4
<1>6. \A p \in Pools : Out(p)' = Out(p) /\ BlocksOf(p)' = BlocksOf(p)
  BY <1>2 DEF Out, BlocksOf
<1>7. TypeOK' /\ DataOK'
  <2>1. \A p \in Pools : BlocksOf(p)' \subseteq Slots(p)'
    BY <1>0, <1>2, <1>6 DEF TypeOK, Slots
  <2>2. {s.adapter : s \in ptrs'} \subseteq Adapters /\ {s.request : s \in ptrs'} \subseteq Requests
    BY <1>0, <1>3 DEF TypeOK, Adapters, Requests
  <2>3. /\ class' \in [Objects -> {"none", "Pool", "TypedPool", "InstrumentedPool"}]
        /\ handle' \in [Objects -> {NULL} \cup Pools]
    BY <1>1
  <2>4. TypeOK'
    BY <1>0, <1>2, <2>1, <2>2, <2>3 DEF TypeOK
  <2> QED BY <1>0, <1>2, <1>3, <2>4 DEF DataOK, AnyBlock, Pools
<1>8. HandlesOwn'
  <2>1. \A u \in Objects : handle'[u] # NULL => class'[u] # "none" /\ life[handle'[u]] = "alive"
    <3> TAKE u \in Objects
    <3>0. /\ handle[u] # NULL => class[u] # "none" /\ life[handle[u]] = "alive"
          /\ handle[q] # NULL => life[handle[q]] = "alive"
      BY <1>0 DEF HandlesOwn
    <3>1. CASE u = o
      BY <1>5, <3>0, <3>1
    <3>2. CASE u # o
      BY <1>5, <3>0, <3>2
    <3> QED BY <3>1, <3>2
  <2>2. \A u, v \in Objects : handle'[u] = handle'[v] /\ handle'[u] # NULL => u = v
    BY <1>0, <1>5 DEF HandlesOwn
  <2>3. \A p \in Pools : life[p] = "alive" => \E u \in Objects : handle'[u] = p
    <3> SUFFICES ASSUME NEW p \in Pools, life[p] = "alive" PROVE \E u \in Objects : handle'[u] = p
      OBVIOUS
    <3>1. PICK v \in Objects : handle[v] = p
      BY <1>0 DEF HandlesOwn
    <3>2. v # o
      BY <1>4, <3>1, NullIsNoPool
    <3> QED BY <1>5, <3>1, <3>2
  <2> QED BY <1>2, <2>1, <2>2, <2>3 DEF HandlesOwn
<1>9. NewUntouched' /\ DestroyedToldOnce' /\ BlocksAlive'
  BY <1>0, <1>2 DEF NewUntouched, DestroyedToldOnce, BlocksAlive
<1>10. BlocksPlaced'
  <2>1. Busy' = Busy /\ PoolPtrs' = PoolPtrs /\ Contained' = Contained
    BY <1>2, <1>3 DEF Busy, PoolPtrs, Contained
  <2> QED BY <1>0, <1>2, <2>1 DEF BlocksPlaced
<1>11. CallsRooted'
  <2>1. \A i \in DOMAIN calls : calls[i].object \in Objects \ {o, q}
    <3>1. \A i \in DOMAIN calls : calls[i] \in Call
      BY <1>1, LenProperties
    <3> QED BY <1>0, <3>1 DEF CallsRooted, Call
  <2>2. \A i \in DOMAIN calls : handle'[calls[i].object] = handle[calls[i].object]
                                /\ class'[calls[i].object] = class[calls[i].object]
    BY <1>5, <2>1
  <2> QED BY <1>0, <1>2, <2>2 DEF CallsRooted
<1>12. PtrsRooted'
  <2>1. \A s \in ptrs : s.adapter.pool \in Objects \ {o}
    <3>1. \A s \in ptrs : s.adapter \in Adapters
      BY <1>0 DEF TypeOK
    <3> QED BY <1>0, <3>1, UpstreamIsNoPool DEF PtrsRooted
  <2>2. \A s \in ptrs : class'[s.adapter.pool] = "Pool"
    BY <1>0, <1>5, <2>1 DEF PtrsRooted
  <2>3. \A s : FitsBlock(s)' <=> FitsBlock(s)
    BY <1>2 DEF FitsBlock, memory_pool_block_size
  <2> QED BY <1>0, <1>2, <1>3, <2>2, <2>3 DEF PtrsRooted
<1> QED BY <1>2, <1>4, <1>6, <1>7, <1>8, <1>9, <1>10, <1>11, <1>12

(* Move construction. *)
LEMMA MoveConstructStep ==
    ASSUME IInv, NEW o \in Objects, NEW q \in Objects, MoveConstruct(o, q),
           ptrs' = {s \in ptrs : s.source = "pool" => life'[s.home] = "alive"}
    PROVE  IInv'
<1>0. /\ TypeOK /\ HandlesOwn /\ ObserversFollow /\ CountersFollowPool /\ OthersSilent
  BY DEF IInv
<1>1. /\ live \in [Objects -> Nat] /\ last_growths \in [Objects -> Nat]
      /\ observed \in [Objects -> BOOLEAN] /\ handle \in [Objects -> {NULL} \cup Pools]
  BY <1>0 DEF TypeOK
<1>2. /\ class[o] = "none" /\ class[q] # "none" /\ \A i \in DOMAIN calls : calls[i].object # q
      /\ class' = [class EXCEPT ![o] = class[q]]
      /\ handle' = [handle EXCEPT ![o] = handle[q], ![q] = NULL]
      /\ live' = [live EXCEPT ![o] = live[q]]
      /\ last_growths' = [last_growths EXCEPT ![o] = last_growths[q]]
      /\ observed' = [observed EXCEPT ![o] = observed[q], ![q] = FALSE]
      /\ UNCHANGED <<core, client, destroyed, grew, watched>> /\ UNCHANGED used
  BY DEF MoveConstruct, Quiet, Inherits, events
<1>3. /\ live' \in [Objects -> Nat] /\ last_growths' \in [Objects -> Nat]
      /\ observed' \in [Objects -> BOOLEAN]
      /\ class[q] \in {"Pool", "TypedPool", "InstrumentedPool"}
  BY <1>0, <1>1, <1>2 DEF TypeOK
<1>4. /\ TypeOK' /\ DataOK' /\ HandlesOwn' /\ NewUntouched' /\ DestroyedToldOnce'
      /\ BlocksAlive' /\ BlocksPlaced' /\ CallsRooted' /\ PtrsRooted'
      /\ \A p \in Pools : Out(p)' = Out(p) /\ growths'[p] = growths[p]
      /\ o # q /\ handle[o] = NULL
  BY <1>2, <1>3, HandOver
<1>a. \A u \in Objects : /\ handle'[u] = IF u = o THEN handle[q]
                                         ELSE IF u = q THEN NULL ELSE handle[u]
                         /\ class'[u] = IF u = o THEN class[q] ELSE class[u]
  BY <1>0, <1>1, <1>2, <1>4 DEF TypeOK
<1>5. \A u \in Objects :
         /\ observed'[u] = IF u = o THEN observed[q] ELSE IF u = q THEN FALSE ELSE observed[u]
         /\ live'[u] = IF u = o THEN live[q] ELSE live[u]
         /\ last_growths'[u] = IF u = o THEN last_growths[q] ELSE last_growths[u]
  BY <1>1, <1>2, <1>4
<1>6. ObserversFollow'
  <2> SUFFICES ASSUME NEW u \in Objects
               PROVE  /\ observed'[u] => class'[u] = "InstrumentedPool" /\ handle'[u] \in watched
                      /\ handle'[u] # NULL /\ handle'[u] \in watched => observed'[u]
    BY <1>2 DEF ObserversFollow
  <2>1. \A v \in {u, q} : /\ observed[v] => class[v] = "InstrumentedPool" /\ handle[v] \in watched
                          /\ handle[v] # NULL /\ handle[v] \in watched => observed[v]
    BY <1>0 DEF ObserversFollow
  <2>2. CASE u = o
    BY <1>2, <1>5, <1>a, <2>1, <2>2
  <2>3. CASE u # o
    BY <1>2, <1>5, <1>a, <2>1, <2>3
  <2> QED BY <2>2, <2>3
<1>7. OthersSilent'
  <2> SUFFICES ASSUME NEW u \in Objects, handle'[u] # NULL, class'[u] # "InstrumentedPool"
               PROVE  grew[handle'[u]] = 0
    BY <1>2 DEF OthersSilent
  <2>1. \A v \in {u, q} : handle[v] # NULL /\ class[v] # "InstrumentedPool" => grew[handle[v]] = 0
    BY <1>0 DEF OthersSilent
  <2>2. CASE u = o
    BY <1>a, <2>1, <2>2
  <2>3. CASE u # o
    BY <1>a, <2>1, <2>3
  <2> QED BY <2>2, <2>3
<1>8. CountersFollowPool'
  <2> SUFFICES ASSUME NEW u \in Objects, NEW p \in Pools, p = handle'[u],
                      class'[u] = "InstrumentedPool", p \notin used
               PROVE  live'[u] = Out(p)' /\ last_growths'[u] = growths'[p] /\ grew[p] = growths'[p]
    <3>1. handle' \in [Objects -> {NULL} \cup Pools]
      BY <1>1, <1>2
    <3> QED BY <1>2, <3>1 DEF CountersFollowPool
  <2>1. PICK v \in Objects : /\ handle[v] = p /\ class[v] = "InstrumentedPool"
                             /\ live'[u] = live[v] /\ last_growths'[u] = last_growths[v]
    <3>1. u # q
      BY <1>4, <1>a, NullIsNoPool
    <3>2. CASE u = o
      BY <1>a, <1>5, <3>2
    <3>3. CASE u # o
      BY <1>a, <1>5, <3>1, <3>3
    <3> QED BY <3>2, <3>3
  <2>2. live[v] = Out(p) /\ last_growths[v] = growths[p] /\ grew[p] = growths[p]
    BY <1>0, <2>1, NullIsNoPool DEF CountersFollowPool
  <2> QED BY <1>4, <2>1, <2>2
<1> QED BY <1>4, <1>6, <1>7, <1>8 DEF IInv

(* An InstrumentedPool adopts the pool of a Pool. *)
LEMMA AdoptStep ==
    ASSUME IInv, NEW o \in Objects, NEW q \in Objects, Adopt(o, q),
           ptrs' = {s \in ptrs : s.source = "pool" => life'[s.home] = "alive"}
    PROVE  IInv'
<1>0. /\ TypeOK /\ DataOK /\ HandlesOwn /\ ObserversFollow /\ CountersFollowPool /\ OthersSilent
      /\ CallsRooted
  BY DEF IInv
<1>1. /\ live \in [Objects -> Nat] /\ last_growths \in [Objects -> Nat]
      /\ observed \in [Objects -> BOOLEAN] /\ handle \in [Objects -> {NULL} \cup Pools]
      /\ growths \in [Pools -> Nat]
  BY <1>0 DEF TypeOK
<1>2. /\ class[o] = "none" /\ class[q] = "Pool"
      /\ class' = [class EXCEPT ![o] = "InstrumentedPool"]
      /\ handle' = [handle EXCEPT ![o] = handle[q], ![q] = NULL]
      /\ live' = [live EXCEPT ![o] = 0]
      /\ last_growths' = [last_growths EXCEPT ![o] = 0]
      /\ observed' = [observed EXCEPT ![o] = FALSE]
      /\ UNCHANGED <<core, client, destroyed, grew, watched>>
      /\ used' = used \cup {p \in {handle[q]} \ {NULL} : Out(p) + growths[p] > 0}
  BY DEF Adopt, Fresh
<1>3. /\ live' \in [Objects -> Nat] /\ last_growths' \in [Objects -> Nat]
      /\ observed' \in [Objects -> BOOLEAN]
      /\ \A i \in DOMAIN calls : calls[i].object # q
  BY <1>0, <1>1, <1>2 DEF CallsRooted
<1>4. /\ TypeOK' /\ DataOK' /\ HandlesOwn' /\ NewUntouched' /\ DestroyedToldOnce'
      /\ BlocksAlive' /\ BlocksPlaced' /\ CallsRooted' /\ PtrsRooted'
      /\ \A p \in Pools : Out(p)' = Out(p) /\ growths'[p] = growths[p]
      /\ o # q /\ handle[o] = NULL
  BY <1>2, <1>3, HandOver
<1>a. \A u \in Objects : /\ handle'[u] = IF u = o THEN handle[q]
                                         ELSE IF u = q THEN NULL ELSE handle[u]
                         /\ class'[u] = IF u = o THEN "InstrumentedPool" ELSE class[u]
  BY <1>0, <1>1, <1>2, <1>4 DEF TypeOK
<1>5. \A u \in Objects : /\ observed'[u] = IF u = o THEN FALSE ELSE observed[u]
                         /\ live'[u] = IF u = o THEN 0 ELSE live[u]
                         /\ last_growths'[u] = IF u = o THEN 0 ELSE last_growths[u]
  BY <1>1, <1>2, <1>4
<1>6. ObserversFollow'
  <2> SUFFICES ASSUME NEW u \in Objects
               PROVE  /\ observed'[u] => class'[u] = "InstrumentedPool" /\ handle'[u] \in watched
                      /\ handle'[u] # NULL /\ handle'[u] \in watched => observed'[u]
    BY <1>2 DEF ObserversFollow
  <2>1. \A v \in {u, q} : /\ observed[v] => class[v] = "InstrumentedPool" /\ handle[v] \in watched
                          /\ handle[v] # NULL /\ handle[v] \in watched => observed[v]
    BY <1>0 DEF ObserversFollow
  <2>2. CASE u = o
    BY <1>2, <1>5, <1>a, <2>1, <2>2
  <2>3. CASE u # o
    BY <1>2, <1>5, <1>a, <2>1, <2>3
  <2> QED BY <2>2, <2>3
<1>7. OthersSilent'
  <2> SUFFICES ASSUME NEW u \in Objects, handle'[u] # NULL, class'[u] # "InstrumentedPool"
               PROVE  grew[handle'[u]] = 0
    BY <1>2 DEF OthersSilent
  <2>1. \A v \in {u, q} : handle[v] # NULL /\ class[v] # "InstrumentedPool" => grew[handle[v]] = 0
    BY <1>0 DEF OthersSilent
  <2>2. CASE u = o
    BY <1>a, <2>1, <2>2
  <2>3. CASE u # o
    BY <1>a, <2>1, <2>3
  <2> QED BY <2>2, <2>3
<1>8. CountersFollowPool'
  <2> SUFFICES ASSUME NEW u \in Objects, NEW p \in Pools, p = handle'[u],
                      class'[u] = "InstrumentedPool", p \notin used'
               PROVE  live'[u] = Out(p)' /\ last_growths'[u] = growths'[p] /\ grew[p] = growths'[p]
    BY <1>2, <1>4 DEF CountersFollowPool, TypeOK
  <2>1. p # NULL /\ p \notin used
    BY <1>2, NullIsNoPool
  <2>2. CASE u = o
    <3>1. p = handle[q]
      BY <1>a, <2>2
    <3>2. ~ (Out(p) + growths[p] > 0)
      BY <1>2, <2>1, <3>1
    <3>3. Out(p) = 0 /\ growths[p] = 0
      BY <1>0, <1>1, <3>2, OutNatural DEF DataOK
    <3>4. grew[p] = 0
      BY <1>0, <1>2, <2>1, <3>1 DEF OthersSilent
    <3> QED BY <1>4, <1>5, <2>2, <3>3, <3>4
  <2>3. CASE u # o
    <3>1. u \in Objects \ {o, q}
      BY <1>4, <1>a, <2>1, <2>3
    <3>2. handle[u] = p /\ class[u] = "InstrumentedPool"
      BY <1>a, <3>1
    <3>3. live[u] = Out(p) /\ last_growths[u] = growths[p] /\ grew[p] = growths[p]
      BY <1>0, <2>1, <3>2 DEF CountersFollowPool
    <3> QED BY <1>4, <1>5, <3>1, <3>3
  <2> QED BY <2>2, <2>3
<1> QED BY <1>4, <1>6, <1>7, <1>8 DEF IInv

(* An observer is added to an InstrumentedPool. *)
LEMMA AddObserverStep ==
    ASSUME IInv, NEW o \in Objects, AddObserver(o),
           ptrs' = {s \in ptrs : s.source = "pool" => life'[s.home] = "alive"}
    PROVE  IInv'
<1>0. /\ TypeOK /\ DataOK /\ HandlesOwn /\ NewUntouched /\ DestroyedToldOnce /\ ObserversFollow
      /\ CountersFollowPool /\ OthersSilent /\ BlocksAlive /\ BlocksPlaced /\ CallsRooted /\ PtrsRooted
  BY DEF IInv
<1>1. /\ class[o] = "InstrumentedPool" /\ observed' = [observed EXCEPT ![o] = TRUE]
      /\ watched' = watched \cup {handle[o]}
      /\ UNCHANGED <<class, handle, life, block_size, factor, slots, growths, vended>>
      /\ UNCHANGED <<raw, built, calls, live, last_growths, destroyed, grew, used>>
  BY DEF AddObserver, core, client
<1>2. observed \in [Objects -> BOOLEAN] /\ handle \in [Objects -> {NULL} \cup Pools]
  BY <1>0 DEF TypeOK
<1>3. ptrs' = ptrs
  BY <1>1, PtrsKept
<1>4. TypeOK' /\ DataOK'
  <2>1. \A p \in Pools : BlocksOf(p)' \subseteq Slots(p)'
    BY <1>0, <1>1 DEF TypeOK, BlocksOf, Slots
  <2>2. {s.adapter : s \in ptrs'} \subseteq Adapters /\ {s.request : s \in ptrs'} \subseteq Requests
    BY <1>0, <1>3 DEF TypeOK, Adapters, Requests
  <2>3. observed' \in [Objects -> BOOLEAN]
    BY <1>1, <1>2
  <2>4. TypeOK'
    BY <1>0, <1>1, <2>1, <2>2, <2>3 DEF TypeOK
  <2> QED BY <1>0, <1>1, <1>3, <2>4 DEF DataOK, AnyBlock, Pools
<1>5. HandlesOwn' /\ OthersSilent' /\ BlocksAlive' /\ CallsRooted'
  BY <1>0, <1>1 DEF HandlesOwn, OthersSilent, BlocksAlive, CallsRooted
<1>6. CountersFollowPool'
  BY <1>0, <1>1 DEF CountersFollowPool, Out, BlocksOf
<1>7. BlocksPlaced'
  <2>1. Busy' = Busy /\ PoolPtrs' = PoolPtrs /\ Contained' = Contained
    BY <1>1, <1>3 DEF Busy, PoolPtrs, Contained
  <2> QED BY <1>0, <1>1, <2>1 DEF BlocksPlaced
<1>8. PtrsRooted'
  BY <1>0, <1>1, <1>3 DEF PtrsRooted, FitsBlock, memory_pool_block_size
<1>9. handle[o] # NULL => life[handle[o]] = "alive"
  BY <1>0 DEF HandlesOwn
<1>10. NewUntouched' /\ DestroyedToldOnce'
  <2>1. \A p \in Pools : life[p] # "alive" => (p \in watched' <=> p \in watched)
    BY <1>1, <1>9, NullIsNoPool
  <2> QED BY <1>0, <1>1, <2>1 DEF NewUntouched, DestroyedToldOnce
<1>11. ObserversFollow'
  <2> SUFFICES ASSUME NEW u \in Objects
               PROVE  /\ observed'[u] => class[u] = "InstrumentedPool" /\ handle[u] \in watched'
                      /\ handle[u] # NULL /\ handle[u] \in watched' => observed'[u]
    BY <1>1 DEF ObserversFollow
  <2>1. CASE u = o
    BY <1>1, <1>2, <2>1
  <2>2. CASE u # o
    <3>1. handle[u] # NULL => handle[u] # handle[o]
      BY <1>0, <2>2 DEF HandlesOwn
    <3>2. observed'[u] = observed[u]
      BY <1>1, <1>2, <2>2
    <3> QED BY <1>0, <1>1, <3>1, <3>2 DEF ObserversFollow
  <2> QED BY <2>1, <2>2
<1> QED BY <1>4, <1>5, <1>6, <1>7, <1>8, <1>10, <1>11 DEF IInv

-----------------------------------------------------------------------------
(* Pools end. *)

(* memory_pool_destroy: the pool of an object ends, with no call of the object in progress, after
   its observers were told. *)
LEMMA PoolEnds ==
    ASSUME IInv, NEW o \in Objects, NEW h, h = handle[o], Quiet(o),
           NotifyDestroyed(o), memory_pool_destroy(h), UNCHANGED <<grew, watched>>,
           ptrs' = {s \in ptrs : s.source = "pool" => life'[s.home] = "alive"}
    PROVE  /\ life' \in [Pools -> {"unborn", "alive", "destroyed"}]
           /\ \A p \in Pools : life'[p] = IF p = h THEN "destroyed" ELSE life[p]
           /\ destroyed' \in [{NULL} \cup Pools -> Nat] /\ vended' \subseteq vended
           /\ \A p \in Pools : p # h => Out(p)' = Out(p)
           /\ UNCHANGED <<block_size, factor, slots, growths, calls>>
           /\ NewUntouched' /\ DestroyedToldOnce' /\ BlocksAlive' /\ BlocksPlaced'
           /\ \A s \in ptrs : /\ s.home # NULL => s.home \in Pools /\ life'[s.home] # "unborn"
                              /\ s.source = IF FitsBlock(s)' THEN "pool" ELSE s.adapter.upstream
                              /\ s.source = "pool" => s.home # NULL /\ s.block[1] = s.home
<1>0. /\ TypeOK /\ DataOK /\ HandlesOwn /\ NewUntouched /\ DestroyedToldOnce /\ ObserversFollow
      /\ BlocksAlive /\ BlocksPlaced /\ CallsRooted /\ PtrsRooted
  BY DEF IInv
<1>1. /\ life \in [Pools -> {"unborn", "alive", "destroyed"}]
      /\ handle \in [Objects -> {NULL} \cup Pools] /\ calls \in Seq(Call)
      /\ destroyed \in [{NULL} \cup Pools -> Nat] /\ vended \subseteq AnyBlock
  BY <1>0 DEF TypeOK, DataOK, Call
<1>2. /\ life' = IF h = NULL THEN life ELSE [life EXCEPT ![h] = "destroyed"]
      /\ vended' = {b \in vended : b[1] # h} /\ raw' = {b \in raw : b[1] # h}
      /\ built' = {b \in built : b[1] # h}
      /\ UNCHANGED <<block_size, factor, slots, growths, calls>>
  BY DEF memory_pool_destroy, Except
<1>3. destroyed' = IF ~ observed[o] THEN destroyed
                   ELSE [destroyed EXCEPT ![h] = IF h = NULL THEN 1 ELSE destroyed[h] + 1]
  BY DEF NotifyDestroyed
<1>4. /\ h = NULL \/ h \in Pools
      /\ h # NULL => life[h] = "alive" /\ (observed[o] <=> h \in watched)
      /\ observed[o] => h \in watched
  BY <1>0, <1>1 DEF HandlesOwn, ObserversFollow
<1>5. /\ life' \in [Pools -> {"unborn", "alive", "destroyed"}]
      /\ \A p \in Pools : life'[p] = IF p = h THEN "destroyed" ELSE life[p]
  BY <1>1, <1>2, <1>4, NullIsNoPool
<1>6. destroyed' \in [{NULL} \cup Pools -> Nat]
  BY <1>1, <1>3, <1>4
<1>7. DestroyedToldOnce'
  <2>0. destroyed'[NULL] > 0 => NULL \in watched
    <3>1. destroyed[NULL] > 0 => NULL \in watched
      BY <1>0 DEF DestroyedToldOnce
    <3>2. CASE h = NULL
      BY <1>1, <1>3, <1>4, <3>1, <3>2
    <3>3. CASE h # NULL
      BY <1>1, <1>3, <1>4, <3>1, <3>3
    <3> QED BY <3>2, <3>3
  <2> SUFFICES ASSUME NEW p \in Pools
               PROVE  destroyed'[p] = IF life'[p] = "destroyed" /\ p \in watched THEN 1 ELSE 0
    BY <2>0 DEF DestroyedToldOnce
  <2>1. destroyed[p] = IF life[p] = "destroyed" /\ p \in watched THEN 1 ELSE 0
    BY <1>0 DEF DestroyedToldOnce
  <2>2. CASE p = h
    BY <1>1, <1>3, <1>4, <1>5, <2>1, <2>2, NullIsNoPool
  <2>3. CASE p # h
    BY <1>1, <1>3, <1>4, <1>5, <2>1, <2>3
  <2> QED BY <2>2, <2>3
<1>8. NewUntouched'
  BY <1>0, <1>2, <1>5 DEF NewUntouched
<1>9. vended' \subseteq vended /\ \A p \in Pools : p # h => Out(p)' = Out(p)
  <2>1. \A p \in Pools : p # h => BlocksOf(p)' = BlocksOf(p)
    BY <1>2 DEF BlocksOf
  <2> QED BY <1>2, <2>1 DEF Out
<1>10. BlocksAlive'
  BY <1>0, <1>1, <1>2, <1>5, NullIsNoPool DEF BlocksAlive
<1>11. BlocksPlaced'
  <2>1. Busy' = Busy /\ \A b \in Busy : b[1] # h
    <3>1. \A i \in DOMAIN calls : /\ calls[i].object \in Objects /\ calls[i].object # o
                                  /\ calls[i].block[1] = handle[calls[i].object]
                                  /\ calls[i].block[1] \in Pools
      <4>1. \A i \in DOMAIN calls : calls[i] \in Call
        BY <1>1, LenProperties
      <4> QED BY <1>0, <4>1, NullIsNoPool DEF CallsRooted, Call, Quiet
    <3>2. \A i \in DOMAIN calls : calls[i].block[1] # h
      BY <1>0, <3>1, NullIsNoPool DEF HandlesOwn
    <3> QED BY <1>2, <3>2 DEF Busy
  <2>2. PoolPtrs' = {s \in PoolPtrs : s.block[1] # h}
    <3>1. \A s \in PoolPtrs : s.home \in Pools /\ life[s.home] = "alive" /\ s.block[1] = s.home
      BY <1>0 DEF PtrsRooted, PoolPtrs
    <3>2. \A s \in PoolPtrs : life'[s.home] = "alive" <=> s.block[1] # h
      BY <1>5, <3>1
    <3>3. PoolPtrs' = {s \in PoolPtrs : life'[s.home] = "alive"}
      BY DEF PoolPtrs
    <3> QED BY <3>2, <3>3
  <2>3. Contained' = {b \in Contained : b[1] # h}
    BY <2>2 DEF Contained
  <2>4. vended' = raw' \cup built' \cup Busy' \cup Contained'
    BY <1>0, <1>2, <2>1, <2>3 DEF BlocksPlaced
  <2>5. \A s, t \in PoolPtrs' : s.block = t.block => s = t
    BY <1>0, <2>2 DEF BlocksPlaced
  <2> QED BY <1>0, <1>2, <2>1, <2>3, <2>4, <2>5 DEF BlocksPlaced
<1>12. \A s \in ptrs : /\ s.home # NULL => s.home \in Pools /\ life'[s.home] # "unborn"
                       /\ s.source = IF FitsBlock(s)' THEN "pool" ELSE s.adapter.upstream
                       /\ s.source = "pool" => s.home # NULL /\ s.block[1] = s.home
  <2>1. \A s \in ptrs : FitsBlock(s)' <=> FitsBlock(s)
    BY <1>2 DEF FitsBlock, memory_pool_block_size
  <2> QED BY <1>0, <1>5, <2>1 DEF PtrsRooted
<1> QED BY <1>2, <1>5, <1>6, <1>7, <1>8, <1>9, <1>10, <1>11, <1>12

(* The types, after a pool has ended. *)
LEMMA EndTypes ==
    ASSUME IInv, UNCHANGED <<block_size, factor, slots, growths, calls, grew>>,
           class' \in [Objects -> {"none", "Pool", "TypedPool", "InstrumentedPool"}],
           handle' \in [Objects -> {NULL} \cup Pools],
           life' \in [Pools -> {"unborn", "alive", "destroyed"}],
           destroyed' \in [{NULL} \cup Pools -> Nat], vended' \subseteq vended,
           live' \in [Objects -> Nat], last_growths' \in [Objects -> Nat],
           observed' \in [Objects -> BOOLEAN], ptrs' \subseteq ptrs
    PROVE  TypeOK' /\ DataOK'
<1>0. TypeOK /\ DataOK
  BY DEF IInv
<1>1. \A p \in Pools : BlocksOf(p)' \subseteq Slots(p)'
  BY <1>0, FewerBlocks
<1>2. {s.adapter : s \in ptrs'} \subseteq Adapters /\ {s.request : s \in ptrs'} \subseteq Requests
  BY <1>0 DEF TypeOK, Adapters, Requests
<1>3. IsFiniteSet(ptrs')
  BY <1>0, FS_Subset DEF DataOK
<1>4. TypeOK'
  BY <1>0, <1>1, <1>2 DEF TypeOK
<1>5. DataOK'
  BY <1>0, <1>3 DEF DataOK, AnyBlock, Pools
<1> QED BY <1>4, <1>5

(* An object ends, and the pool it owns with it. *)
LEMMA DestructStep ==
    ASSUME IInv, NEW o \in Objects, Destruct(o),
           \A s \in ptrs : class'[s.adapter.pool] # "none",
           ptrs' = {s \in ptrs : s.source = "pool" => life'[s.home] = "alive"}
    PROVE  IInv'
<1>0. /\ TypeOK /\ HandlesOwn /\ ObserversFollow /\ CountersFollowPool /\ OthersSilent
      /\ CallsRooted /\ PtrsRooted
  BY DEF IInv
<1>1. /\ live \in [Objects -> Nat] /\ last_growths \in [Objects -> Nat]
      /\ observed \in [Objects -> BOOLEAN] /\ handle \in [Objects -> {NULL} \cup Pools]
      /\ class \in [Objects -> {"none", "Pool", "TypedPool", "InstrumentedPool"}]
      /\ calls \in Seq(Call)
  BY <1>0 DEF TypeOK, Call
<1>2. /\ class[o] # "none" /\ Quiet(o) /\ NotifyDestroyed(o) /\ memory_pool_destroy(handle[o])
      /\ class' = [class EXCEPT ![o] = "none"] /\ handle' = [handle EXCEPT ![o] = NULL]
      /\ live' = [live EXCEPT ![o] = 0] /\ last_growths' = [last_growths EXCEPT ![o] = 0]
      /\ observed' = [observed EXCEPT ![o] = FALSE]
      /\ UNCHANGED <<grew, watched>> /\ UNCHANGED used
  BY DEF Destruct, Fresh
<1>3. PICK h : h = handle[o]
  OBVIOUS
<1>4. /\ life' \in [Pools -> {"unborn", "alive", "destroyed"}]
      /\ \A p \in Pools : life'[p] = IF p = h THEN "destroyed" ELSE life[p]
      /\ destroyed' \in [{NULL} \cup Pools -> Nat] /\ vended' \subseteq vended
      /\ \A p \in Pools : p # h => Out(p)' = Out(p)
      /\ UNCHANGED <<block_size, factor, slots, growths, calls>>
      /\ NewUntouched' /\ DestroyedToldOnce' /\ BlocksAlive' /\ BlocksPlaced'
      /\ \A s \in ptrs : /\ s.home # NULL => s.home \in Pools /\ life'[s.home] # "unborn"
                         /\ s.source = IF FitsBlock(s)' THEN "pool" ELSE s.adapter.upstream
                         /\ s.source = "pool" => s.home # NULL /\ s.block[1] = s.home
  BY <1>2, <1>3, PoolEnds
<1>5. TypeOK' /\ DataOK'
  <2>1. /\ class' \in [Objects -> {"none", "Pool", "TypedPool", "InstrumentedPool"}]
        /\ handle' \in [Objects -> {NULL} \cup Pools]
        /\ live' \in [Objects -> Nat] /\ last_growths' \in [Objects -> Nat]
        /\ observed' \in [Objects -> BOOLEAN] /\ ptrs' \subseteq ptrs
    BY <1>1, <1>2
  <2> QED BY <1>2, <1>4, <2>1, EndTypes
<1>6. /\ handle'[o] = NULL /\ class'[o] = "none" /\ observed'[o] = FALSE
      /\ \A u \in Objects \ {o} : /\ handle'[u] = handle[u] /\ class'[u] = class[u]
                                  /\ live'[u] = live[u] /\ last_growths'[u] = last_growths[u]
                                  /\ observed'[u] = observed[u]
                                  /\ handle[u] # NULL => handle[u] # h /\ handle[u] \in Pools
  <2>1. \A u \in Objects \ {o} : handle[u] # NULL => handle[u] # h /\ handle[u] \in Pools
    BY <1>0, <1>1, <1>3 DEF HandlesOwn
  <2> QED BY <1>1, <1>2, <2>1
<1>7. HandlesOwn'
  <2>1. \A u \in Objects : handle'[u] # NULL => class'[u] # "none" /\ life'[handle'[u]] = "alive"
    BY <1>0, <1>4, <1>6 DEF HandlesOwn
  <2>2. \A u, v \in Objects : handle'[u] = handle'[v] /\ handle'[u] # NULL => u = v
    BY <1>0, <1>6 DEF HandlesOwn
  <2>3. \A p \in Pools : life'[p] = "alive" => \E u \in Objects : handle'[u] = p
    <3> SUFFICES ASSUME NEW p \in Pools, life'[p] = "alive" PROVE \E u \in Objects : handle'[u] = p
      OBVIOUS
    <3>1. p # h /\ life[p] = "alive"
      BY <1>4
    <3>2. PICK v \in Objects : handle[v] = p
      BY <1>0, <3>1 DEF HandlesOwn
    <3> QED BY <1>3, <1>6, <3>1, <3>2
  <2> QED BY <2>1, <2>2, <2>3 DEF HandlesOwn
<1>8. ObserversFollow' /\ OthersSilent'
  BY <1>0, <1>2, <1>6 DEF ObserversFollow, OthersSilent
<1>9. CountersFollowPool'
  <2> SUFFICES ASSUME NEW u \in Objects, NEW p \in Pools, p = handle'[u], p # NULL,
                      class'[u] = "InstrumentedPool", p \notin used
               PROVE  live'[u] = Out(p)' /\ last_growths'[u] = growths'[p] /\ grew[p] = growths'[p]
    <3>1. handle' \in [Objects -> {NULL} \cup Pools]
      BY <1>1, <1>2
    <3> QED BY <1>2, <3>1 DEF CountersFollowPool
  <2>1. u # o /\ handle[u] = p /\ p # h /\ class[u] = "InstrumentedPool"
    BY <1>6
  <2>2. live[u] = Out(p) /\ last_growths[u] = growths[p] /\ grew[p] = growths[p]
    BY <1>0, <2>1 DEF CountersFollowPool
  <2> QED BY <1>4, <1>6, <2>1, <2>2
<1>10. CallsRooted'
  <2>1. \A i \in DOMAIN calls : calls[i].object \in Objects \ {o}
    <3>1. \A i \in DOMAIN calls : calls[i] \in Call
      BY <1>1, LenProperties
    <3> QED BY <1>2, <3>1 DEF Quiet, Call
  <2>2. \A i \in DOMAIN calls : handle'[calls[i].object] = handle[calls[i].object]
                                /\ class'[calls[i].object] = class[calls[i].object]
    BY <1>6, <2>1
  <2> QED BY <1>0, <1>4, <2>2 DEF CallsRooted
<1>11. PtrsRooted'
  <2>1. \A s \in ptrs : class'[s.adapter.pool] = "Pool"
    <3>1. \A s \in ptrs : s.adapter.pool \in Objects /\ class[s.adapter.pool] = "Pool"
      BY <1>0, UpstreamIsNoPool DEF TypeOK, PtrsRooted
    <3> QED BY <1>6, <3>1
  <2> QED BY <1>4, <2>1 DEF PtrsRooted
<1> QED BY <1>4, <1>5, <1>7, <1>8, <1>9, <1>10, <1>11 DEF IInv

(* Move assignment: the pool of the target ends, that of the source changes
   owners. *)
LEMMA MoveAssignStep ==
    ASSUME IInv, NEW o \in Objects, NEW q \in Objects, MoveAssign(o, q),
           ptrs' = {s \in ptrs : s.source = "pool" => life'[s.home] = "alive"}
    PROVE  IInv'
<1>0. /\ TypeOK /\ HandlesOwn /\ ObserversFollow /\ CountersFollowPool /\ OthersSilent
      /\ CallsRooted /\ PtrsRooted
  BY DEF IInv
<1>1. /\ live \in [Objects -> Nat] /\ last_growths \in [Objects -> Nat]
      /\ observed \in [Objects -> BOOLEAN] /\ handle \in [Objects -> {NULL} \cup Pools]
      /\ class \in [Objects -> {"none", "Pool", "TypedPool", "InstrumentedPool"}]
      /\ calls \in Seq(Call)
  BY <1>0 DEF TypeOK, Call
<1>2. /\ class[o] = class[q] /\ class[q] # "none" /\ Quiet(o) /\ Quiet(q) /\ o # q
      /\ NotifyDestroyed(o) /\ memory_pool_destroy(handle[o])
      /\ handle' = [handle EXCEPT ![o] = handle[q], ![q] = NULL]
      /\ live' = [live EXCEPT ![o] = live[q]]
      /\ last_growths' = [last_growths EXCEPT ![o] = last_growths[q]]
      /\ observed' = [observed EXCEPT ![o] = observed[q], ![q] = FALSE]
      /\ UNCHANGED <<grew, watched>> /\ UNCHANGED <<class, used>>
  BY DEF MoveAssign, Inherits
<1>3. PICK h : h = handle[o]
  OBVIOUS
<1>4. /\ life' \in [Pools -> {"unborn", "alive", "destroyed"}]
      /\ \A p \in Pools : life'[p] = IF p = h THEN "destroyed" ELSE life[p]
      /\ destroyed' \in [{NULL} \cup Pools -> Nat] /\ vended' \subseteq vended
      /\ \A p \in Pools : p # h => Out(p)' = Out(p)
      /\ UNCHANGED <<block_size, factor, slots, growths, calls>>
      /\ NewUntouched' /\ DestroyedToldOnce' /\ BlocksAlive' /\ BlocksPlaced'
      /\ \A s \in ptrs : /\ s.home # NULL => s.home \in Pools /\ life'[s.home] # "unborn"
                         /\ s.source = IF FitsBlock(s)' THEN "pool" ELSE s.adapter.upstream
                         /\ s.source = "pool" => s.home # NULL /\ s.block[1] = s.home
  BY <1>2, <1>3, PoolEnds
<1>5. TypeOK' /\ DataOK'
  <2>1. /\ class' \in [Objects -> {"none", "Pool", "TypedPool", "InstrumentedPool"}]
        /\ handle' \in [Objects -> {NULL} \cup Pools]
        /\ live' \in [Objects -> Nat] /\ last_growths' \in [Objects -> Nat]
        /\ observed' \in [Objects -> BOOLEAN] /\ ptrs' \subseteq ptrs
    BY <1>1, <1>2
  <2> QED BY <1>2, <1>4, <2>1, EndTypes
<1>6. \A u \in Objects :
         /\ handle'[u] = IF u = o THEN handle[q] ELSE IF u = q THEN NULL ELSE handle[u]
         /\ observed'[u] = IF u = o THEN observed[q] ELSE IF u = q THEN FALSE ELSE observed[u]
         /\ live'[u] = IF u = o THEN live[q] ELSE live[u]
         /\ last_growths'[u] = IF u = o THEN last_growths[q] ELSE last_growths[u]
  BY <1>1, <1>2
<1>7. \A u \in Objects \ {o} : handle[u] # NULL => handle[u] # h /\ handle[u] \in Pools
  BY <1>0, <1>1, <1>3 DEF HandlesOwn
<1>8. HandlesOwn'
  <2>1. \A u \in Objects : handle'[u] # NULL => class[u] # "none" /\ life'[handle'[u]] = "alive"
    <3> TAKE u \in Objects
    <3>0. \A v \in Objects \ {o} : handle[v] # NULL => class[v] # "none" /\ life'[handle[v]] = "alive"
      BY <1>0, <1>4, <1>7 DEF HandlesOwn
    <3>1. CASE u = o
      <4>1. handle'[u] = handle[q] /\ class[u] = class[q] /\ q \in Objects \ {o}
        BY <1>2, <1>6, <3>1
      <4> QED BY <3>0, <4>1
    <3>2. CASE u # o
      BY <1>6, <3>0, <3>2
    <3> QED BY <3>1, <3>2
  <2>2. \A u, v \in Objects : handle'[u] = handle'[v] /\ handle'[u] # NULL => u = v
    <3> SUFFICES ASSUME NEW u \in Objects, NEW v \in Objects, handle'[u] = handle'[v],
                        handle'[u] # NULL
                 PROVE  u = v
      OBVIOUS
    <3>1. \A x, y \in Objects : handle[x] = handle[y] /\ handle[x] # NULL => x = y
      BY <1>0 DEF HandlesOwn
    <3>2. u # q /\ v # q
      BY <1>2, <1>6
    <3>3. CASE u = o
      BY <1>6, <3>1, <3>2, <3>3
    <3>4. CASE u # o
      BY <1>6, <3>1, <3>2, <3>4
    <3> QED BY <3>3, <3>4
  <2>3. \A p \in Pools : life'[p] = "alive" => \E u \in Objects : handle'[u] = p
    <3> SUFFICES ASSUME NEW p \in Pools, life'[p] = "alive" PROVE \E u \in Objects : handle'[u] = p
      OBVIOUS
    <3>1. p # h /\ life[p] = "alive"
      BY <1>4
    <3>2. PICK v \in Objects : handle[v] = p
      BY <1>0, <3>1 DEF HandlesOwn
    <3>3. v # o
      BY <1>3, <3>1, <3>2
    <3> QED BY <1>6, <3>2, <3>3
  <2> QED BY <1>2, <2>1, <2>2, <2>3 DEF HandlesOwn
<1>9. ObserversFollow'
  <2> SUFFICES ASSUME NEW u \in Objects
               PROVE  /\ observed'[u] => class[u] = "InstrumentedPool" /\ handle'[u] \in watched
                      /\ handle'[u] # NULL /\ handle'[u] \in watched => observed'[u]
    BY <1>2 DEF ObserversFollow
  <2>1. \A v \in {u, q} : /\ observed[v] => class[v] = "InstrumentedPool" /\ handle[v] \in watched
                          /\ handle[v] # NULL /\ handle[v] \in watched => observed[v]
    BY <1>0 DEF ObserversFollow
  <2>2. CASE u = o
    BY <1>2, <1>6, <2>1, <2>2
  <2>3. CASE u # o
    BY <1>2, <1>6, <2>1, <2>3
  <2> QED BY <2>2, <2>3
<1>10. OthersSilent'
  <2> SUFFICES ASSUME NEW u \in Objects, handle'[u] # NULL, class[u] # "InstrumentedPool"
               PROVE  grew[handle'[u]] = 0
    BY <1>2 DEF OthersSilent
  <2>1. \A v \in {u, q} : handle[v] # NULL /\ class[v] # "InstrumentedPool" => grew[handle[v]] = 0
    BY <1>0 DEF OthersSilent
  <2>2. CASE u = o
    BY <1>2, <1>6, <2>1, <2>2
  <2>3. CASE u # o
    BY <1>6, <2>1, <2>3
  <2> QED BY <2>2, <2>3
<1>11. CountersFollowPool'
  <2> SUFFICES ASSUME NEW u \in Objects, NEW p \in Pools, p = handle'[u],
                      class[u] = "InstrumentedPool", p \notin used
               PROVE  live'[u] = Out(p)' /\ last_growths'[u] = growths[p] /\ grew[p] = growths[p]
    <3>1. handle' \in [Objects -> {NULL} \cup Pools]
      BY <1>1, <1>2
    <3> QED BY <1>2, <1>4, <3>1 DEF CountersFollowPool
  <2>1. PICK v \in Objects \ {o} : /\ handle[v] = p /\ class[v] = "InstrumentedPool"
                                   /\ live'[u] = live[v] /\ last_growths'[u] = last_growths[v]
    <3>1. u # q
      BY <1>2, <1>6, NullIsNoPool
    <3>2. CASE u = o
      BY <1>2, <1>6, <3>2
    <3>3. CASE u # o
      BY <1>6, <3>1, <3>3
    <3> QED BY <3>2, <3>3
  <2>2. p # NULL /\ p # h
    BY <1>7, <2>1, NullIsNoPool
  <2>3. live[v] = Out(p) /\ last_growths[v] = growths[p] /\ grew[p] = growths[p]
    BY <1>0, <2>1, <2>2 DEF CountersFollowPool
  <2> QED BY <1>4, <2>1, <2>2, <2>3
<1>12. CallsRooted'
  <2>1. \A i \in DOMAIN calls : calls[i].object \in Objects \ {o, q}
    <3>1. \A i \in DOMAIN calls : calls[i] \in Call
      BY <1>1, LenProperties
    <3> QED BY <1>2, <3>1 DEF Quiet, Call
  <2>2. \A i \in DOMAIN calls : handle'[calls[i].object] = handle[calls[i].object]
    BY <1>6, <2>1
  <2> QED BY <1>0, <1>2, <1>4, <2>2 DEF CallsRooted
<1>13. PtrsRooted'
  BY <1>0, <1>2, <1>4 DEF PtrsRooted
<1> QED BY <1>4, <1>5, <1>8, <1>9, <1>10, <1>11, <1>12, <1>13 DEF IInv

(* The objects begin, move and end, and the containers follow. *)
LEMMA LifetimeStep ==
    ASSUME IInv, LifetimeUnder
    PROVE  IInv'
<1>0. /\ Lifetime /\ \A s \in ptrs : class'[s.adapter.pool] # "none"
      /\ ptrs' = {s \in ptrs : s.source = "pool" => life'[s.home] = "alive"}
  BY DEF LifetimeUnder
<1>1. BlockSizes \subseteq Nat /\ Factors \subseteq Nat /\ 0 \in Nat
      /\ (CHOOSE size \in BlockSizes : TRUE) \in Nat
  BY ObjectsAssumption
<1>2. ASSUME UNCHANGED vars PROVE IInv'
  <2>1. UNCHANGED life
    BY <1>2 DEF vars, core
  <2>2. ptrs' = ptrs
    BY <1>0, <2>1, PtrsKept
  <2> QED BY <1>2, <2>2, IdleStep DEF allvars
<1>3. ASSUME NEW o \in Objects, NEW p \in Pools, NEW size \in Nat,
             NEW c \in {"Pool", "TypedPool", "InstrumentedPool"}, make(o, c, p, size)
      PROVE  IInv'
  BY <1>0, <1>1, <1>3, CreateStep DEF make
<1>4. ASSUME NEW o \in Objects, NEW p \in Pools, NEW size \in Nat, NEW f \in Factors,
             NEW c \in {"Pool", "TypedPool", "InstrumentedPool"}, make_dynamic(o, c, p, size, f)
      PROVE  IInv'
  <2>1. f \in Nat
    BY <1>1
  <2> QED BY <1>0, <1>4, <2>1, CreateStep DEF make_dynamic
<1>5. CASE CreateRefused
  BY <1>2, <1>5 DEF CreateRefused
<1>6. ASSUME NEW o \in Objects, NEW p \in Pools, NEW size \in BlockSizes, NEW f \in Factors,
             build(o, p, size, f)
      PROVE  IInv'
  <2>1. size \in Nat
    BY <1>1
  <2>2. make_dynamic(o, "Pool", p, size, f) \/ make(o, "Pool", p, size)
    BY <1>6 DEF build
  <2> QED BY <1>3, <1>4, <2>1, <2>2
<1>7. ASSUME NEW o \in Objects, NEW p \in Pools, TypedMake(o, p)
      PROVE  IInv'
  BY <1>1, <1>3, <1>7 DEF TypedMake
<1>8. ASSUME NEW o \in Objects, NEW p \in Pools, NEW f \in Factors, InstrumentedMake(o, p, f)
      PROVE  IInv'
  <2>1. PICK size \in Nat : \/ make(o, "InstrumentedPool", p, size)
                            \/ make_dynamic(o, "InstrumentedPool", p, size, f)
    BY <1>1, <1>8 DEF InstrumentedMake
  <2> QED BY <1>3, <1>4, <2>1
<1>9. ASSUME NEW o \in Objects, NEW q \in Objects,
             MoveConstruct(o, q) \/ Adopt(o, q) \/ MoveAssign(o, q)
      PROVE  IInv'
  BY <1>0, <1>9, MoveConstructStep, AdoptStep, MoveAssignStep
<1>10. ASSUME NEW o \in Objects, SelfAssign(o) \/ Destruct(o) \/ AddObserver(o)
       PROVE  IInv'
  <2>1. CASE SelfAssign(o)
    BY <1>2, <2>1 DEF SelfAssign
  <2>2. CASE Destruct(o)
    BY <1>0, <2>2, DestructStep
  <2>3. CASE AddObserver(o)
    BY <1>0, <2>3, AddObserverStep
  <2> QED BY <1>10, <2>1, <2>2, <2>3
<1> QED BY <1>0, <1>5, <1>6, <1>7, <1>8, <1>9, <1>10 DEF Lifetime

(* The objects are used, and the containers are not. *)
LEMMA UseStep ==
    ASSUME IInv, Use, UNCHANGED ptrs
    PROVE  IInv'
<1>1. ASSUME NEW o \in Objects, NEW b \in AnyBlock,
             \/ Allocate(o, b) \/ Deallocate(o, b) \/ ConstructBegin(o, b) \/ DestroyBegin(o, b)
      PROVE  IInv'
  <2>1. CASE Allocate(o, b)
    BY <2>1, AllocateStep
  <2>2. CASE Deallocate(o, b)
    BY <2>2, DeallocateStep
  <2>3. CASE ConstructBegin(o, b)
    BY <2>3, ConstructBeginStep
  <2>4. CASE DestroyBegin(o, b)
    BY <2>4, DestroyBeginStep
  <2> QED BY <1>1, <2>1, <2>2, <2>3, <2>4
<1>2. ASSUME NEW o \in Objects, AllocateRefused(o)
      PROVE  IInv'
  BY <1>2, IdleStep DEF AllocateRefused, allvars
<1>3. CASE ConstructDone
  BY <1>3, ConstructDoneStep
<1>4. CASE ConstructThrows \/ DestroyDone
  BY <1>4, CallReturnsStep
<1> QED BY <1>1, <1>2, <1>3, <1>4 DEF Use

-----------------------------------------------------------------------------
(* The initial states satisfy the invariant. *)
LEMMA InitInvariant == InitAdapters => IInv
<1> SUFFICES ASSUME InitAdapters PROVE IInv
  OBVIOUS
<1>1. /\ class = [o \in Objects |-> "none"] /\ handle = [o \in Objects |-> NULL]
      /\ life = [p \in Pools |-> "unborn"]
      /\ block_size = [p \in Pools |-> 0] /\ factor = [p \in Pools |-> 0]
      /\ slots = [p \in Pools |-> 0] /\ growths = [p \in Pools |-> 0]
      /\ vended = {} /\ raw = {} /\ built = {} /\ calls = <<>>
      /\ live = [o \in Objects |-> 0] /\ last_growths = [o \in Objects |-> 0]
      /\ observed = [o \in Objects |-> FALSE]
      /\ destroyed = [p \in {NULL} \cup Pools |-> 0] /\ grew = [p \in Pools |-> 0]
      /\ watched = {} /\ ptrs = {}
  BY DEF InitAdapters, Init
<1>2. TypeOK
  <2>1. 0 \in 0 .. MaxSlots /\ calls \in Seq(Call)
    BY <1>1, ObjectsAssumption
  <2>2. \A p \in Pools : BlocksOf(p) = {}
    BY <1>1 DEF BlocksOf
  <2> QED BY <1>1, <2>1, <2>2 DEF TypeOK, Call
<1>3. DataOK
  BY <1>1, FS_EmptySet DEF DataOK
<1>4. HandlesOwn /\ NewUntouched /\ DestroyedToldOnce /\ ObserversFollow
  BY <1>1 DEF HandlesOwn, NewUntouched, DestroyedToldOnce, ObserversFollow
<1>5. CountersFollowPool /\ OthersSilent
  BY <1>1 DEF CountersFollowPool, OthersSilent
<1>6. BlocksAlive /\ PtrsRooted
  BY <1>1 DEF BlocksAlive, PtrsRooted
<1>7. DOMAIN calls = {}
  BY <1>1
<1>8. BlocksPlaced /\ CallsRooted
  <2>1. Busy = {} /\ PoolPtrs = {} /\ Contained = {}
    BY <1>1, <1>7 DEF Busy, PoolPtrs, Contained
  <2> QED BY <1>1, <1>7, <2>1 DEF BlocksPlaced, CallsRooted
<1> QED BY <1>2, <1>3, <1>4, <1>5, <1>6, <1>8 DEF IInv

(* Every step of the objects and of their adapters preserves the invariant. *)
LEMMA NextInvariant == IInv /\ [Next]_allvars => IInv'
<1> SUFFICES ASSUME IInv, [Next]_allvars PROVE IInv'
  OBVIOUS
<1>1. CASE LifetimeUnder
  BY <1>1, LifetimeStep
<1>2. CASE Use /\ UNCHANGED ptrs
  BY <1>2, UseStep
<1>3. ASSUME NEW a \in Adapters, NEW r \in RequestsOf(a),
             \/ \E b \in AnyBlock : AllocateFromPool(a, r, b)
             \/ AdapterRefused(a, r) \/ allocate_fallback(a, r) \/ AllocateUpstream(a, r)
      PROVE  IInv'
  <2>0. r \in Requests
    BY DEF RequestsOf
  <2>1. ASSUME NEW b \in AnyBlock, AllocateFromPool(a, r, b) PROVE IInv'
    BY <2>0, <2>1, AllocateFromPoolStep
  <2>2. CASE AdapterRefused(a, r)
    BY <2>2, IdleStep DEF AdapterRefused
  <2>3. CASE allocate_fallback(a, r) \/ AllocateUpstream(a, r)
    BY <2>0, <2>3, AllocateElsewhereStep
  <2> QED BY <1>3, <2>1, <2>2, <2>3
<1>4. ASSUME NEW q \in ptrs, NEW a \in Adapters,
             ReturnToPool(q, a) \/ deallocate_fallback(q, a) \/ ReturnUpstream(q, a)
      PROVE  IInv'
  <2>1. CASE ReturnToPool(q, a)
    BY <2>1, ReturnToPoolStep
  <2>2. CASE deallocate_fallback(q, a) \/ ReturnUpstream(q, a)
    BY <2>2, ReturnElsewhereStep
  <2> QED BY <1>4, <2>1, <2>2
<1>5. CASE UNCHANGED allvars
  BY <1>5, IdleStep
<1> QED BY <1>1, <1>2, <1>3, <1>4, <1>5 DEF Next

-----------------------------------------------------------------------------
(* What holds throughout: the objects own the pools one to one, the observers and
   the counters are with the owner of the pool they speak of, every block that is
   out is in one pair of hands, and a pointer's source is decided by the block
   size of the pool its adapter had. *)
THEOREM Invariance == Spec => []IInv
<1>1. InitAdapters => IInv
  BY InitInvariant
<1>2. IInv /\ [Next]_allvars => IInv'
  BY NextInvariant
<1> QED BY <1>1, <1>2, PTL DEF Spec

(* Every variable keeps its type; no pool is counted to have blocks it has not. *)
THEOREM TypeCorrect == Spec => []TypeOK
<1>1. IInv => TypeOK
  BY DEF IInv
<1> QED BY <1>1, Invariance, PTL

(* A C pool has one owner while it lives and none before and after: a pool is
   neither leaked nor destroyed twice, whatever is moved into what. *)
THEOREM OneOwner == Spec => []OwnedOnce
<1>1. IInv => OwnedOnce
  <2> SUFFICES ASSUME IInv, NEW p \in Pools
               PROVE  Cardinality({o \in Objects : handle[o] = p}) = IF life[p] = "alive" THEN 1 ELSE 0
    BY DEF OwnedOnce
  <2>1. HandlesOwn /\ p # NULL
    BY NullIsNoPool DEF IInv
  <2>2. CASE life[p] = "alive"
    <3>1. PICK w \in Objects : handle[w] = p
      BY <2>1, <2>2 DEF HandlesOwn
    <3>2. {o \in Objects : handle[o] = p} = {w}
      BY <2>1, <3>1 DEF HandlesOwn
    <3> QED BY <2>2, <3>2, FS_Singleton
  <2>3. CASE life[p] # "alive"
    <3>1. {o \in Objects : handle[o] = p} = {}
      BY <2>1, <2>3 DEF HandlesOwn
    <3> QED BY <2>3, <3>1, FS_EmptySet
  <2> QED BY <2>2, <2>3
<1> QED BY <1>1, Invariance, PTL

(* The observers of a pool hear of its end, once, and not before it. *)
THEOREM ObserversTold == Spec => []DestroyedToldOnce
<1>1. IInv => DestroyedToldOnce
  BY DEF IInv
<1> QED BY <1>1, Invariance, PTL

(* An InstrumentedPool that owns a pool has counted its blocks and its growths,
   also those counted by the object that it was moved from. *)
THEOREM CountersMoveAlong == Spec => []CountersFollowPool
<1>1. IInv => CountersFollowPool
  BY DEF IInv
<1> QED BY <1>1, Invariance, PTL

(* There is one block for every constructor and destructor at work, *)
LEMMA BusyCounted ==
    ASSUME IInv
    PROVE  IsFiniteSet(Busy) /\ Cardinality(Busy) = Len(calls)
<1> DEFINE S == 1 .. Len(calls)
           f == [i \in S |-> calls[i].block]
<1>1. DOMAIN calls = S /\ Len(calls) \in Nat
  <2>1. calls \in Seq(Call)
    BY DEF IInv, TypeOK, Call
  <2> QED BY <2>1, LenProperties
<1>2. \A i, j \in S : f[i] = f[j] => i = j
  <2>1. \A i, j \in S : calls[i].block = calls[j].block => i = j
    BY <1>1 DEF IInv, BlocksPlaced
  <2> QED BY <2>1
<1>3. f \in [S -> Busy] /\ \A b \in Busy : \E i \in S : f[i] = b
  BY <1>1 DEF Busy
<1>4. IsFiniteSet(S) /\ Cardinality(S) = Len(calls)
  <2>1. IsFiniteSet(S) /\ Cardinality(S) = IF 1 > Len(calls) THEN 0 ELSE Len(calls) - 1 + 1
    BY <1>1, FS_Interval
  <2> QED BY <1>1, <2>1
<1> HIDE DEF f, S
<1>5. f \in Bijection(S, Busy)
  BY <1>2, <1>3, Fun_IsBij
<1>6. ExistsBijection(S, Busy)
  BY <1>5, Fun_ExistsBij
<1> QED BY <1>4, <1>6, FS_Bijection

(* and one for every pointer that a container has from a pool. *)
LEMMA ContainedCounted ==
    ASSUME IInv
    PROVE  IsFiniteSet(Contained) /\ Cardinality(Contained) = Cardinality(PoolPtrs)
<1> DEFINE f == [q \in PoolPtrs |-> q.block]
<1>1. \A q, s \in PoolPtrs : f[q] = f[s] => q = s
  BY DEF IInv, BlocksPlaced
<1>2. f \in [PoolPtrs -> Contained] /\ \A b \in Contained : \E q \in PoolPtrs : f[q] = b
  BY DEF Contained
<1>3. IsFiniteSet(PoolPtrs)
  BY FS_Subset DEF IInv, DataOK, PoolPtrs
<1> HIDE DEF f
<1>4. f \in Bijection(PoolPtrs, Contained)
  BY <1>1, <1>2, Fun_IsBij
<1>5. ExistsBijection(PoolPtrs, Contained)
  BY <1>4, Fun_ExistsBij
<1> QED BY <1>3, <1>5, FS_Bijection

(* Two sets without a common member add up. *)
LEMMA DisjointUnion ==
    ASSUME NEW S, NEW T, IsFiniteSet(S), IsFiniteSet(T), S \cap T = {}
    PROVE  IsFiniteSet(S \cup T) /\ Cardinality(S \cup T) = Cardinality(S) + Cardinality(T)
<1>1. /\ IsFiniteSet(S \cup T)
      /\ Cardinality(S \cup T) = Cardinality(S) + Cardinality(T) - Cardinality(S \cap T)
  BY FS_Union
<1>2. Cardinality(S \cap T) = 0
  BY FS_EmptySet
<1>3. Cardinality(S) \in Nat /\ Cardinality(T) \in Nat
  BY FS_CardinalityType
<1> QED BY <1>1, <1>2, <1>3

(* No block that is out is lost, and none is in two pairs of hands, also when a
   constructor throws or calls the pool again. *)
THEOREM NoBlockLost == Spec => []BlocksAccounted
<1>1. IInv => BlocksAccounted
  <2> SUFFICES ASSUME IInv PROVE BlocksAccounted
    OBVIOUS
  <2>1. BlocksPlaced /\ vended \subseteq AnyBlock
    BY DEF IInv, DataOK
  <2>2. IsFiniteSet(vended)
    BY <2>1, BlocksFinite, FS_Subset
  <2>3. /\ vended = raw \cup built \cup Busy \cup Contained
        /\ raw \cap built = {} /\ (raw \cup built) \cap Busy = {}
        /\ (raw \cup built \cup Busy) \cap Contained = {}
    BY <2>1 DEF BlocksPlaced
  <2>4. IsFiniteSet(raw) /\ IsFiniteSet(built)
    BY <2>2, <2>3, FS_Subset
  <2>5. IsFiniteSet(raw \cup built)
        /\ Cardinality(raw \cup built) = Cardinality(raw) + Cardinality(built)
    BY <2>3, <2>4, DisjointUnion
  <2>6. IsFiniteSet(raw \cup built \cup Busy)
        /\ Cardinality(raw \cup built \cup Busy) = Cardinality(raw \cup built) + Cardinality(Busy)
    BY <2>3, <2>5, BusyCounted, DisjointUnion
  <2>7. Cardinality(vended) = Cardinality(raw \cup built \cup Busy) + Cardinality(Contained)
    BY <2>3, <2>6, ContainedCounted, DisjointUnion
  <2>8. Cardinality(vended) = Cardinality(raw) + Cardinality(built) + Len(calls)
                                 + Cardinality(PoolPtrs)
    BY <2>5, <2>6, <2>7, BusyCounted, ContainedCounted
  <2> QED BY <2>3, <2>8 DEF BlocksAccounted, Busy, Contained, PoolPtrs
<1> QED BY <1>1, Invariance, PTL

(* Whichever equal adapter returns it, a pointer goes back to where it came from,
   while the Pool object that its adapter refers to keeps its pool. *)
THEOREM PointersReturn == Spec => []ReturnedToSource
<1>1. IInv => ReturnedToSource
  <2> SUFFICES ASSUME IInv, NEW q \in ptrs, NEW a \in Adapters, Equal(a, q.adapter),
                      handle[a.pool] = q.home
               PROVE  Source(a, q.request) = q.source
    BY DEF ReturnedToSource
  <2>1. q.source = IF FitsBlock(q) THEN "pool" ELSE q.adapter.upstream
    BY DEF IInv, PtrsRooted
  <2>2. q.adapter \in Adapters
    BY DEF IInv, TypeOK
  <2>3. a.upstream = q.adapter.upstream
    BY <2>2 DEF Equal, operator_eq, do_is_equal, Adapters
  <2> QED BY <2>1, <2>3, RoutesAgain DEF Source
<1> QED BY <1>1, Invariance, PTL
=============================================================================
