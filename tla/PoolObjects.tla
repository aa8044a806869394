---------------------------- MODULE PoolObjects ----------------------------
(***************************************************************************)
(* The C++ objects that own a pool: Pool (with PoolBuilder), TypedPool and *)
(* InstrumentedPool, as the variables of one thread that are constructed,  *)
(* moved, moved from and destroyed.  Each wraps one memory_pool_t*, NULL   *)
(* once it was moved from.                                                 *)
(*                                                                         *)
(* A C pool is an identifier used once, with its slots, its growths and    *)
(* the blocks it vended; which free block is vended is left open.  The     *)
(* constructors and destructors of the T of a TypedPool are user code that *)
(* may call the pool again.                                                *)
(***************************************************************************)
EXTENDS Naturals, FiniteSets, Sequences

CONSTANTS Objects,      \* the variables of the program
          MaxPools,     \* bound: how many C pools are created
          BlockSizes,   \* block sizes pools are created with
          N,            \* block_count
          Factors,      \* growth factors given to PoolBuilder and make_dynamic
          MaxSlots,     \* bound: no growth of a pool beyond this many slots succeeds
          MaxDepth      \* bound: constructors and destructors of T in progress

ASSUME ObjectsAssumption ==
    /\ {MaxPools, MaxSlots, MaxDepth} \subseteq Nat /\ N \in 1 .. MaxSlots
    /\ BlockSizes \subseteq Nat \ {0} /\ BlockSizes # {} /\ Factors \subseteq Nat

NULL == 0
Pools == 1 .. MaxPools

VARIABLES class,        \* class[o]: what o is at present, "none" out of its lifetime
          handle,       \* handle[o]: handle_ of the Pool that o is or contains
          life,         \* life[p]: "unborn", "alive", "destroyed"
          block_size, factor, slots, growths,   \* of each C pool
          vended,       \* the blocks the pools have handed out
          raw,          \* blocks the client got from allocate
          built,        \* blocks in which a T lives
          calls,        \* constructors and destructors of T in progress, innermost first
          live, last_growths, observed,     \* members of an InstrumentedPool
          destroyed, grew,  \* history: events the observers of pool p got; destroyed[NULL]
                            \* is 1 once an object without a pool has sent one
          watched,      \* history: pools an observer was registered for, NULL if it
                        \* was registered with an object without a pool
          used          \* history: pools adopted with blocks out, or grown

core == <<life, block_size, factor, slots, growths, vended>>
client == <<raw, built, calls>>
members == <<live, last_growths, observed>>
events == <<destroyed, grew, watched, used>>
vars == <<class, handle, core, client, members, events>>

Init ==
    /\ class = [o \in Objects |-> "none"]
    /\ handle = [o \in Objects |-> NULL]
    /\ life = [p \in Pools |-> "unborn"]
    /\ block_size = [p \in Pools |-> 0]
    /\ factor = [p \in Pools |-> 0]
    /\ slots = [p \in Pools |-> 0]
    /\ growths = [p \in Pools |-> 0]
    /\ vended = {} /\ raw = {} /\ built = {} /\ calls = <<>>
    /\ live = [o \in Objects |-> 0]
    /\ last_growths = [o \in Objects |-> 0]
    /\ observed = [o \in Objects |-> FALSE]
    /\ destroyed = [p \in {NULL} \cup Pools |-> 0]
    /\ grew = [p \in Pools |-> 0]
    /\ watched = {} /\ used = {}

-----------------------------------------------------------------------------
(* The C functions below the objects.  Every one accepts NULL. *)

Slots(p) == {p} \X (1 .. slots[p])
BlocksOf(p) == {b \in vended : b[1] = p}
Out(p) == Cardinality(BlocksOf(p))

(* memory_pool_create and memory_pool_create_dynamic, when they succeed. *)
Create(p, size, f) ==
    /\ life[p] = "unborn" /\ \A q \in 1 .. p - 1 : life[q] # "unborn"
    /\ life' = [life EXCEPT ![p] = "alive"]
    /\ block_size' = [block_size EXCEPT ![p] = size]
    /\ factor' = [factor EXCEPT ![p] = f]
    /\ slots' = [slots EXCEPT ![p] = N]
    /\ UNCHANGED <<growths, vended>>

(* grow_pool multiplies the slots of a dynamic pool by its factor. *)
Grows(h) ==
    /\ Out(h) = slots[h]
    /\ factor[h] >= 2 /\ slots[h] * factor[h] <= MaxSlots
    /\ slots' = [slots EXCEPT ![h] = @ * factor[h]]
    /\ growths' = [growths EXCEPT ![h] = @ + 1]

(* memory_pool_alloc vends block b of the pool behind h, growing it if need be. *)
Vends(h, b) ==
    /\ h # NULL
    /\ Grows(h) \/ (Out(h) < slots[h] /\ UNCHANGED <<slots, growths>>)
    /\ b \in ({h} \X (1 .. slots'[h])) \ vended
    /\ vended' = vended \cup {b}

(* It answers NULL: no pool, or exhausted, fixed or without memory to grow. *)
Refuses(h) == h # NULL => Out(h) = slots[h]

(* memory_pool_free; NULL handles and pointers of other pools are ignored. *)
Takes(h, b) == vended' = IF b[1] = h THEN vended \ {b} ELSE vended

memory_pool_block_size(h) == IF h = NULL THEN 0 ELSE block_size[h]

Except(S, h) == {b \in S : b[1] # h}

(* memory_pool_destroy: the blocks, and the objects in them, are gone. *)
memory_pool_destroy(h) ==
    /\ life' = IF h = NULL THEN life ELSE [life EXCEPT ![h] = "destroyed"]
    /\ vended' = Except(vended, h)
    /\ raw' = Except(raw, h) /\ built' = Except(built, h)
    /\ UNCHANGED <<block_size, factor, slots, growths, calls>>

-----------------------------------------------------------------------------
(* Construction: o begins its life as a c, its handle is h. *)
Begins(o, c, h) ==
    /\ class[o] = "none"
    /\ class' = [class EXCEPT ![o] = c]
    /\ handle' = [handle EXCEPT ![o] = h]

Fresh(o) ==
    /\ live' = [live EXCEPT ![o] = 0]
    /\ last_growths' = [last_growths EXCEPT ![o] = 0]
    /\ observed' = [observed EXCEPT ![o] = FALSE]

(* Pool::Pool, Pool::make *)
make(o, c, p, size) ==
    /\ Create(p, size, 0)
    /\ Begins(o, c, p)
    /\ Fresh(o)
    /\ UNCHANGED <<client, events>>

(* Pool::make_dynamic *)
make_dynamic(o, c, p, size, f) ==
    /\ f >= 2
    /\ Create(p, size, f)
    /\ Begins(o, c, p)
    /\ Fresh(o)
    /\ UNCHANGED <<client, events>>

(* PoolBuilder::build; the builder keeps its configuration and may build again. *)
build(o, p, size, f) ==
    IF f >= 2 THEN make_dynamic(o, "Pool", p, size, f) ELSE make(o, "Pool", p, size)

(* TypedPool::TypedPool, TypedPool::make: block_size() is that of T. *)
TypedMake(o, p) == make(o, "TypedPool", p, CHOOSE size \in BlockSizes : TRUE)

(* InstrumentedPool::make, InstrumentedPool::make_dynamic *)
InstrumentedMake(o, p, f) ==
    LET size == CHOOSE s \in BlockSizes : TRUE
    IN  \/ f = 0 /\ make(o, "InstrumentedPool", p, size)
        \/ make_dynamic(o, "InstrumentedPool", p, size, f)

(* bad_alloc or nullopt: nothing begins. *)
CreateRefused == UNCHANGED vars

-----------------------------------------------------------------------------
(* No member function of o is in progress. *)
Quiet(o) == \A i \in DOMAIN calls : calls[i].object # o

(* Mutant: the count of reported growths stays behind. *)
InheritsCountsOnly(o, q) ==
    /\ live' = [live EXCEPT ![o] = live[q]]
    /\ last_growths' = [last_growths EXCEPT ![o] = 0]
    /\ observed' = [observed EXCEPT ![o] = observed[q], ![q] = FALSE]

(* The members that a move copies, or takes from q. *)
Inherits(o, q) ==
    /\ live' = [live EXCEPT ![o] = live[q]]
    /\ last_growths' = [last_growths EXCEPT ![o] = last_growths[q]]
    /\ observed' = [observed EXCEPT ![o] = observed[q], ![q] = FALSE]

(* Mutant: the source keeps the handle. *)
MoveConstructShares(o, q) ==
    /\ class[q] # "none" /\ Quiet(q)
    /\ Begins(o, class[q], handle[q])
    /\ Inherits(o, q)
    /\ UNCHANGED <<core, client, events>>

(* Pool(Pool&&), the TypedPool's by default, InstrumentedPool(InstrumentedPool&&) *)
MoveConstruct(o, q) ==
    /\ class[q] # "none" /\ Quiet(q)
    /\ class[o] = "none" /\ class' = [class EXCEPT ![o] = class[q]]
    /\ handle' = [handle EXCEPT ![o] = handle[q], ![q] = NULL]
    /\ Inherits(o, q)
    /\ UNCHANGED <<core, client, events>>

(* explicit InstrumentedPool(Pool&&): the counters start at zero. *)
Adopt(o, q) ==
    /\ class[q] = "Pool" /\ class[o] = "none"
    /\ class' = [class EXCEPT ![o] = "InstrumentedPool"]
    /\ handle' = [handle EXCEPT ![o] = handle[q], ![q] = NULL]
    /\ Fresh(o)
    /\ used' = used \cup {p \in {handle[q]} \ {NULL} : Out(p) + growths[p] > 0}
    /\ UNCHANGED <<core, client, destroyed, grew, watched>>

(* notify(PoolEvent::destroyed) tells whoever is in observers_, whether or not
   there is a pool; only an InstrumentedPool has observers. *)
NotifyDestroyed(o) ==
    destroyed' = IF ~ observed[o] THEN destroyed
                 ELSE [destroyed EXCEPT ![handle[o]] = IF handle[o] = NULL THEN 1 ELSE @ + 1]

(* Mutant: replaced without telling its observers (BUG-0003). *)
MoveAssignSilent(o, q) ==
    /\ class[o] = class[q] /\ class[q] # "none" /\ Quiet(o) /\ Quiet(q)
    /\ o # q
    /\ memory_pool_destroy(handle[o])
    /\ handle' = [handle EXCEPT ![o] = handle[q], ![q] = NULL]
    /\ Inherits(o, q)
    /\ UNCHANGED <<class, events>>

(* operator=(Pool&&), operator=(InstrumentedPool&&): what o owned goes first. *)
MoveAssign(o, q) ==
    /\ class[o] = class[q] /\ class[q] # "none" /\ Quiet(o) /\ Quiet(q)
    /\ o # q
    /\ NotifyDestroyed(o)
    /\ memory_pool_destroy(handle[o])
    /\ handle' = [handle EXCEPT ![o] = handle[q], ![q] = NULL]
    /\ Inherits(o, q)
    /\ UNCHANGED <<class, grew, watched, used>>

SelfAssign(o) == class[o] # "none" /\ UNCHANGED vars

(* The destructors. *)
Destruct(o) ==
    /\ class[o] # "none" /\ Quiet(o)
    /\ NotifyDestroyed(o)
    /\ memory_pool_destroy(handle[o])
    /\ class' = [class EXCEPT ![o] = "none"]
    /\ handle' = [handle EXCEPT ![o] = NULL]
    /\ Fresh(o)
    /\ UNCHANGED <<grew, watched, used>>

AddObserver(o) ==
    /\ class[o] = "InstrumentedPool"
    /\ observed' = [observed EXCEPT ![o] = TRUE]
    /\ watched' = watched \cup {handle[o]}
    /\ UNCHANGED <<class, handle, core, client, live, last_growths, destroyed, grew, used>>

-----------------------------------------------------------------------------
(* record_allocation and notify_if_grew, with one thread. *)
Recorded(o) ==
    IF class[o] # "InstrumentedPool" THEN UNCHANGED <<live, last_growths, grew>>
    ELSE LET p == handle[o] IN
        /\ live' = [live EXCEPT ![o] = @ + 1]
        /\ last_growths' = [last_growths EXCEPT ![o] = growths'[p]]
        /\ grew' = [grew EXCEPT ![p] = IF growths'[p] > last_growths[o] THEN @ + 1 ELSE @]

(* allocate, try_allocate of all three classes. *)
Allocate(o, b) ==
    /\ class[o] # "none"
    /\ Vends(handle[o], b)
    /\ raw' = raw \cup {b}
    /\ Recorded(o)
    /\ UNCHANGED <<class, handle, life, block_size, factor, built, calls, observed,
                   destroyed, watched, used>>

(* bad_alloc or nullptr, also of an object that was moved from. *)
AllocateRefused(o) ==
    /\ class[o] # "none"
    /\ Refuses(handle[o])
    /\ UNCHANGED vars

(* Mutant: live_ is lowered also when it is zero (BUG-0002). *)
DeallocateUnclamped(o, b) ==
    /\ class[o] # "none" /\ b \in raw /\ b[1] = handle[o]
    /\ Takes(handle[o], b)
    /\ raw' = raw \ {b}
    /\ live' = IF class[o] = "InstrumentedPool" THEN [live EXCEPT ![o] = @ - 1] ELSE live
    /\ UNCHANGED <<class, handle, life, block_size, factor, slots, growths, built, calls,
                   last_growths, observed, events>>

(* deallocate, of a block of the object's pool, discounted by an InstrumentedPool. *)
Deallocate(o, b) ==
    /\ class[o] # "none" /\ b \in raw /\ b[1] = handle[o]
    /\ Takes(handle[o], b)
    /\ raw' = raw \ {b}
    /\ live' = IF class[o] = "InstrumentedPool" /\ live[o] > 0
               THEN [live EXCEPT ![o] = @ - 1] ELSE live
    /\ UNCHANGED <<class, handle, life, block_size, factor, slots, growths, built, calls,
                   last_growths, observed, events>>

-----------------------------------------------------------------------------
(* TypedPool::construct takes a block and calls the constructor of T; *)
ConstructBegin(o, b) ==
    /\ class[o] = "TypedPool" /\ Len(calls) < MaxDepth
    /\ Vends(handle[o], b)
    /\ calls' = <<[verb |-> "construct", object |-> o, block |-> b]>> \o calls
    /\ UNCHANGED <<class, handle, life, block_size, factor, raw, built, members, events>>

Innermost(verb) == calls # <<>> /\ Head(calls).verb = verb

(* it returns and a T lives in the block, *)
ConstructDone ==
    /\ Innermost("construct")
    /\ built' = built \cup {Head(calls).block}
    /\ calls' = Tail(calls)
    /\ UNCHANGED <<class, handle, core, raw, members, events>>

(* Mutant: the block is not returned. *)
ConstructThrowsKeeps ==
    /\ Innermost("construct")
    /\ calls' = Tail(calls)
    /\ UNCHANGED <<class, handle, core, raw, built, members, events>>

(* or it throws: the block goes back and the exception to the caller, who may
   be the constructor of another T. *)
ConstructThrows ==
    /\ Innermost("construct")
    /\ Takes(handle[Head(calls).object], Head(calls).block)
    /\ calls' = Tail(calls)
    /\ UNCHANGED <<class, handle, life, block_size, factor, slots, growths, raw, built, members, events>>

(* TypedPool::destroy runs the destructor of T, *)
DestroyBegin(o, b) ==
    /\ class[o] = "TypedPool" /\ Len(calls) < MaxDepth
    /\ b \in built /\ b[1] = handle[o]
    /\ built' = built \ {b}
    /\ calls' = <<[verb |-> "destroy", object |-> o, block |-> b]>> \o calls
    /\ UNCHANGED <<class, handle, core, raw, members, events>>

(* then returns the block.  destroy(nullptr) does nothing. *)
DestroyDone ==
    /\ Innermost("destroy")
    /\ Takes(handle[Head(calls).object], Head(calls).block)
    /\ calls' = Tail(calls)
    /\ UNCHANGED <<class, handle, life, block_size, factor, slots, growths, raw, built, members, events>>

-----------------------------------------------------------------------------
AnyBlock == Pools \X (1 .. MaxSlots)

(* Objects begin, move and end. *)
Lifetime ==
    \/ CreateRefused
    \/ \E o \in Objects, p \in Pools :
          \/ \E size \in BlockSizes, f \in Factors : build(o, p, size, f)
          \/ TypedMake(o, p)
          \/ \E f \in Factors : InstrumentedMake(o, p, f)
    \/ \E o, q \in Objects : MoveConstruct(o, q) \/ Adopt(o, q) \/ MoveAssign(o, q)
    \/ \E o \in Objects : SelfAssign(o) \/ Destruct(o) \/ AddObserver(o)

(* Objects are used. *)
Use ==
    \/ \E o \in Objects, b \in AnyBlock :
          Allocate(o, b) \/ Deallocate(o, b) \/ ConstructBegin(o, b) \/ DestroyBegin(o, b)
    \/ \E o \in Objects : AllocateRefused(o)
    \/ ConstructDone \/ ConstructThrows \/ DestroyDone

-----------------------------------------------------------------------------
(* Every C pool is owned by one object from its creation to its destruction:
   none is leaked, destroyed twice or used after its destruction, whatever is
   moved into what (a copied handle "would double-free", Pool). *)
OwnedOnce ==
    \A p \in Pools :
        Cardinality({o \in Objects : handle[o] = p}) = IF life[p] = "alive" THEN 1 ELSE 0

(* The observers registered for a pool are told once that it is destroyed, and
   not before, also if it was moved from object to object in between or another
   pool is moved over it (BUG-0003).  An object without a pool tells nobody,
   unless an observer was registered with it when it had none: a move leaves no
   observers behind. *)
DestroyedToldOnce ==
    /\ \A p \in Pools :
          destroyed[p] = IF life[p] = "destroyed" /\ p \in watched THEN 1 ELSE 0
    /\ destroyed[NULL] > 0 => NULL \in watched

(* The counters follow the pool through moves: the object that owns it has
   counted the blocks that are out and reported every growth once.  Pools that
   were used before they were adopted are excepted. *)
CountersFollowPool ==
    \A o \in Objects : LET p == handle[o] IN
        class[o] = "InstrumentedPool" /\ p # NULL /\ p \notin used =>
            /\ live[o] = Out(p)
            /\ last_growths[o] = growths[p] /\ grew[p] = growths[p]
=============================================================================
