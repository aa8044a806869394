# Specifications of pbr-memory-pool

TLA+ specifications of the fixed-size block memory pool in
`src/main/cpp/it/d4np/memorypool/`, model-checked with TLC and, but for the
liveness properties, proved with TLAPS. Paths and line numbers below are those of `memory_pool.cpp` unless
another file is named.

## 1. The system

A *pool* is a region of `block_count` equal slots. Free slots form an implicit
singly linked list: the first word of a free slot is the address of the next
one. `memory_pool_alloc` pops the head, `memory_pool_free` pushes; both are
template skeletons around a *policy* chosen at compile time (`NONE`, `MUTEX`,
`LOCKFREE`). A dynamic pool that is exhausted acquires a further *chunk* and
multiplies its size by `grow_factor_`. A hardened build adds a guard word behind
each block, poison and link masking. C++ classes wrap the C handle.

| component | state it keeps | operations | what makes it correct |
|---|---|---|---|
| free list (278-299, 229-271) | head, link in each free slot | seed, read and write a link | a finite acyclic list of exactly the free slots |
| size arithmetic (49-116, 448-468; `typed_pool.hpp` 71-76) | none | validate, guard products, stride | what is accepted fits; what overflows is refused |
| pool, policy NONE (513-548, 686-809) | `memory_pool`, chunk list, heap regions | create, create_dynamic, alloc, grow, free, destroy | free list exact, slots disjoint and inside the pool's memory, geometric growth, nothing leaked on any failure |
| policy LOCKFREE (599-644) | `head_`: pointer and tag in one atomic word; plain links | CAS loops of pop and push | linearizable, no ABA, lock-free |
| policy MUTEX (556-587, 425-492) | `mutex_`, `head_`, `overflow_`, `grow_count_` | pop and push under the mutex, growth inside pop, unlocked guard of free, unlocked accessors | linearizable; every exit unlocks; what is read unlocked may be stale, but not too stale |
| debug hardening (123-222, `pool_hardening.hpp`) | guard words, poison, the handler | `on_alloc`, `on_free`, `on_init_slot`, set the handler | no false report in a correct program, damage reported by the next call that checks for it, a recognised double free never re-linked |
| `InstrumentedPool` (`instrumented_pool.hpp`) | five counters, observers, last growth seen | allocate, deallocate, stats, observers, move | counters agree with the pool; each growth told of in one event |
| `Pool`, `PoolBuilder` (968-1085, `memory_pool.hpp`) | the handle, or NULL once moved from | construct, move, destroy, forward | each handle destroyed exactly once |
| `TypedPool` (`typed_pool.hpp`) | a `Pool` | construct, destroy | capacity survives a throwing constructor, and one that uses the pool |
| `PoolAllocator`, `PoolMemoryResource` | reference to a `Pool`, upstream | allocate, deallocate | a block is returned to where it came from |
| diagnostics (871-918, `free_list_iterator.hpp`) | an iterator's current slot | head, next, count | visits the free slots once, on a quiescent pool |

Interaction: the wrappers call the C functions; threads share a pool through
its head word or its mutex, and through the links in memory they hand to and
fro; observers are called back on the allocating thread; everything obtains
memory from `operator new`, which may throw at each call.

The hard behaviours are the compare-and-swap loops (stale snapshots, recycled
slots, reads of a slot another thread owns), the guard of `free` that runs
outside the mutex while another thread grows the pool, failures between two
allocations of one operation, `size_t` arithmetic near its limit, sequences of
misuse of a hardened pool, sequences of moves, user code called back in the
middle of an operation, and routing that is decided twice.

## 2. Modules

| module | what it is |
|---|---|
| `PoolSpec` | the abstract pool: a call begins, takes effect in one step, returns |
| `FreeList` | the implicit free list; `ListsExactly(head, link, free)` |
| `LockFreePool` | the LOCKFREE policy, one action per access to shared memory |
| `MutexPool` | the MUTEX policy with growth |
| `PoolArith` | the size arithmetic, for any width of `size_t` |
| `SizeRequests` | that arithmetic applied to every possible request |
| `MemoryPool` | the NONE policy at the level of addresses, over an explicit heap |
| `InstrumentedPool` | the counting decorator over a mutex pool that grows |
| `HardenedPool` | the hardened build, its misusers, and the diagnostic walk |
| `PoolObjects` | `Pool`, `TypedPool` and `InstrumentedPool` objects, their moves and their ends |
| `PoolAdapters` | `PoolAllocator` and `PoolMemoryResource` over those objects |
| `MCInstrumentedPool`, `MCHardenedPool`, `MCPoolAdapters` | symmetry sets and the constraint for TLC |
| `FreeListProofs` | lemmas about lists, chains of slots and the arithmetic of their addresses |
| `LockFreePoolProofs`, `MutexPoolProofs`, `MemoryPoolProofs`, `SizeRequestsProofs`, `InstrumentedPoolProofs`, `HardenedPoolProofs`, `PoolAdaptersProofs` | the theorems about the module each is named for, and their proofs (`PoolAdaptersProofs` also those about `PoolObjects`) |

`LockFreePool` and `MutexPool` EXTEND `FreeList` and instantiate `PoolSpec` with
a refinement mapping (`Abs`); `MemoryPool` EXTENDS `FreeList` and `PoolArith`,
so that the arithmetic proved sound is the arithmetic the pool runs on.
`HardenedPool` EXTENDS `FreeList`; `PoolAdapters` EXTENDS `PoolObjects` and
composes with it: a step of the objects is a step of the whole.

### LockFreePool

Slots are `1 .. N` in address order, `NULL` is 0. `head` is `head_`; `next[s]` is
the first word of slot `s`, a link while `s` is free and whatever the client
wrote while it is not. `pc[t]` names the access thread `t` makes next, and
`expected`, `desired`, `blk` are its locals.

| code | actions |
|---|---|
| `pop_head`: load, NULL test (605-609) | `AllocBegin`, `PopLoad`, `PopLoadEmpty` |
| `reveal_next` (616) | `PopReveal` |
| CAS (618): success; failure; failure with a NULL reload | `PopCas`, `PopRetry`, `PopRetryEmpty` |
| `free_skeleton` guards (669-678) | `FreeBegin`, `FreeIgnored` |
| `push_head`: load, link, CAS (637-642) | `PushLoad`, `PushLink`, `PushCas`, `PushRetry` |
| a client writes its block | `ClientWrite` |

The read at 616 is of a slot the thread does not own. `lag[t]` counts the
successful CASes of other threads since `t` took its snapshot; it is a history
variable and restricts nothing but the bound below. With `lag[t] = 0` the slot
is the published head and the read returns its link. With `lag[t] > 0` the read
races with the plain writes of whoever popped the slot, so it returns any word:
a link old or new, or user data. `compare_exchange_weak` may fail spuriously
when `Spurious`. The tag is bumped modulo `TagMod`.

*Bound* `NoTagWrap`: a snapshot is not overtaken by `TagMod` successful CASes.
The code's tag is a `uintptr_t`; on a host where 2^w CASes can happen within
one preemption the algorithm itself is not safe, and the specification says
nothing about that case.

### MutexPool

`mutex_` is the thread that holds it. Only its holder reads or writes the head,
the links of free slots and `chunk`, so those accesses are grouped; the one
write that other threads may see at any moment, `overflow_ = chunk` (487), is an
action of its own, `GrowLink`, between `GrowSeed` (447-486: allocate, seed) and
`GrowPublish` (488-490, and the pop that follows). The guard of `free` is two
steps: `GuardFirst` reads the immutable first chunk, `GuardAccepts` or
`GuardRejects` reads `overflow_` once and walks the immutable nodes behind it.
`PopExhausted` is the early return of a fixed pool and of every failed growth,
which the code may take for lack of memory at any exhaustion. The hardened build
is `HardenedPool`.

What is read without the mutex may be stale. `overflow_` is a plain pointer and
`grow_count_` a relaxed counter, so the guard (429-430) and the accessors
`memory_pool_growths` (850) and `memory_pool_metadata_bytes` (823) read any value
the field has had since the growths the reader is sure of. It is sure of a growth
only if that happened before: the pop that vended a block follows every growth so
far in the order of the mutex, and the client, or the thread it hands the block
to, follows that pop. `seen[b]` keeps those growths, and none for a block of the
first chunk, about which nothing need be known. No order between the write at 487
and the increment at 490 is assumed of a reader. The mutant of
`AccessorsCoverOwnGrowth` is a lock that excludes but does not synchronise.

*Bound* `MaxBlocks`: a growth beyond it fails, as `operator new` may.

The accesses of one action apart, memory is sequentially consistent in both
concurrent modules, except for the unlocked reads just described and the racing
read of `LockFreePool`. The acquire/release orders of the CASes are not modelled
as such. A `Chunk` is read as it was built (finding 1).

### MemoryPool, PoolArith, SizeRequests

`MemoryPool` keeps the words of memory (`mem`), the regions obtained from
`operator new` (`heap`), the number of descriptors (`objects`), the pool and the
client's blocks. `operator new` places a region in any aligned gap, next to
other regions too, and every allocation may fail. Each entry point is an
action, or one per outcome: `Create`, `CreateRefused` (an argument or the first
allocation), `CreateRolledBack` (the second allocation), `Alloc`,
`AllocRefused`, `AllocGrows`, `GrowRolledBack`, `Free`, `FreeIgnored`, `Destroy`.
`FreeIgnored` and `Free` get, besides blocks the client owns, every address that
is not the start of a slot. Freeing a block twice is outside the contract of
`memory_pool_free` in an unhardened build and is not enumerated.

*Bounds*: addresses up to `AddrMax`; the block sizes, counts and factors of the
`.cfg`.

`PoolArith` models `size_t` as `0 .. SizeMax` with products that wrap; nothing
assumes that `SizeMax + 1` is a power of two. `typed_block_size` is the constexpr
of `TypedPool`; `HalfAssumption` says that alignments are small against `SizeMax`,
and no object is taken to be larger than half of it.

A creation is served only if `operator new` can serve it, and no object is larger
than half the address space (`operator_new_serves`, external). `CreationFits`
needs that: a stride saturated to `SIZE_MAX` with `block_count` 1 passes every
guard of the code (finding 5), and only that refusal keeps a slot without room
for its guard word from being created.

### InstrumentedPool

The core is reduced to what `MutexPool` implements, with blocks counted and not
named (`capacity`, `vended`, `grow_count`); a growth is visible to
`memory_pool_growths` before the pop that needed it. Each load, `fetch_add` and
compare-exchange of `instrumented_pool.hpp` is an action: 166-191 with
`record_allocation` (`CountAllocation`, `LiveUp`, `PeakLoad`, `PeakRaised`,
`PeakReloaded`, `PeakHigher`) and `notify_if_grew` (`GrowthsLoad`, `LastLoad`,
`GrewClaimed`, `GrewReloaded`, `NotifyGrew`, `NotGrown`), and 194-206
(`CountDeallocation`, `LiveLoad`, `LiveDown`, `LiveReloaded`, `LiveClamped`,
`CoreFrees`). `allocate` and `try_allocate` differ only in how they tell the
caller of a failure. The three monotonic counters wrap at `CountMod`, which also
keeps the state space finite without a bound on the number of calls. `highest`,
`reported` (the growths the events sent stand for) and `strayed` are history
variables. The atomics are taken to be
sequentially consistent, although the code asks for relaxed order; each property
relates values that a thread wrote and then read through the core's mutex or
one atomic. What a `PoolStats` snapshot contains is left out: its fields are
loaded one by one and the header calls them approximate.

A remark on `GrowthReportedOnce`: the comment at 262-264 says one event per
*observed* growth. A pool that grows twice before a caller looks gives that caller
one compare-exchange over both, and one event: `Claimed` is the interval of growths
it stands for. The property says that these intervals are disjoint and leave none
out: every growth is in exactly one event, sent or about to be, and in one that was
sent once nobody is in a call. The number of events may be smaller than the number
of growths, and the observers are not told by how much.

A remark on `CountsAtRest`: BUG-0002 was fixed by a clamp at zero, so with blocks
outstanding a foreign pointer still lowers `live_`. The property says what is
left: `live_` never exceeds the outstanding blocks, and is exact as long as no
foreign pointer was passed.

### HardenedPool

A slot has the link it would reveal, a guard word (`freed`, `allocated`, or
`smashed`), and a payload that is poison or not. Masking is its own inverse and
hides nothing from the pool, so a link that a client overwrote is revealed as
`Wild`, a misaligned address; one that happens to be aligned cannot be noticed
by the test at 251 and is not modelled. The library is built with one policy,
chosen in the initial state.

| code | actions |
|---|---|
| `pop_head` of the other two policies (513-531, 557-572): `read_next`, `on_alloc` | `Alloc`, `AllocRefused` |
| `push_head` of those (533-547, 574-586): `on_free`, `write_next` | `Free`, `DoubleFree` |
| `pop_head` LOCKFREE (604-626) | `PopLoad`, `PopReveal`, `PopCas`, `PopRetry`, `OnAlloc` |
| `push_head` LOCKFREE (627-643) | `FreeBegin` (the check of `on_free`), `FreeStamp` (its poison and stamp), `FreePublish` |
| `set_hardening_violation_handler`, the default handler (936-964), `report` (143-145) | `SetHandler`, `report`, `default_hardening_violation_handler` |
| the debug accessors and `FreeListIterator` | `WalkBegin`, `WalkNext` |
| the clients | `ClientWrite`, `WildWrite`, `DoubleFree` |

Under a lock a call is one step. Under LOCKFREE the checks are outside the CAS,
and it is their distance from it that matters; the CAS itself succeeds only if
no other has since the snapshot (`fresh`), which is what `LockFreePool` shows the
tag to achieve within `NoTagWrap`. NULL and foreign pointers and growth are the
business of `MemoryPool`.

The clients break the contract at most `MaxFaults` times: they write past the end
of a block they own, write to the guard, the payload or the link of one they
returned, or return it again. The history variables say what was done (`guilty`,
`torn`), what damage has not been reported (`owed`: a report answers for the damage
it names and for no other), what of it a refused second free made invisible
(`erased`), which blocks the handler was told of (`accused`), and whether a second
free escaped `on_free` (`blind`): it overlapped the first under LOCKFREE, or the
stamp had been overwritten, or, refused, it stamped a block that had been vended
in between. In a state that is `blind` the properties say nothing, and the
constraint `NotBlind` stops the exploration. An overwritten link (`torn`) is no such
end: it may cut the list, but puts no owned block on it and none twice.

What the model brings out of the code, beside the finding below:

- a second free that is refused re-poisons the block and restores its stamp
  (202-203), which erases the evidence of a write after free. With a handler that
  returns, the double free is reported and the write is not, although
  `pool_hardening.hpp` 17-19 says that a write to freed memory is caught on the next
  allocation of that block. `DamageReported` excepts exactly this (`erased`), and
  says what is left: the block was accused of something;
- a second free that overlaps the first under LOCKFREE is not detected, although
  `pool_hardening.hpp` 20-22 says deterministically;
- a second free of a block whose stamp was overwritten is reported as an overflow,
  and the block is linked again;
- after a report of `read_next` a handler that returns lets the pop install the wild
  link (251-255), with which every later call is undefined.

### PoolObjects

The variables of one thread. `class[o]` is what `o` is at present, `handle[o]` its
`handle_`; a C pool is an identifier used once (`life`), with its blocks counted
by name. Construction is `make`, `make_dynamic`, `build`, `TypedMake`,
`InstrumentedMake` and `CreateRefused`; then `MoveConstruct`, `Adopt`
(`InstrumentedPool(Pool&&)`), `MoveAssign`, `SelfAssign`, `Destruct`, and the
verbs `Allocate`, `AllocateRefused`, `Deallocate`, `AddObserver`. Moved-from
objects stay in use: they refuse to allocate, can be assigned to, and end.

`TypedPool::construct` and `destroy` are split where they call user code:
`ConstructBegin` takes the block, `ConstructDone` and `ConstructThrows` follow;
`DestroyBegin` runs the destructor, `DestroyDone` returns the block. `calls` is the
stack of those in progress, and every other action may happen inside one, with
one exclusion: an object is neither moved nor destroyed while a member function
of it runs (`Quiet`), which C++ leaves undefined.

Which free block is vended is left open; that the answer is sound is `MemoryPool`.
The exhaustion and failure counters are those of `InstrumentedPool`. The observers
of a moved-from object are taken to be gone, as those of a moved-from vector are
in every library implementation; one that is registered afterwards is told
`destroyed` when the empty object ends (`notify` asks for no handle), which
`destroyed[NULL]` records. `DestroyedToldOnce` says that no other observer hears
from an empty object.

`memory_pool_alloc` grows an exhausted dynamic pool (`Grows`): `slots[p]` is how many
slots pool `p` has at present, and grows by its factor.

*Bounds* `MaxPools`, `MaxSlots` (a growth beyond it fails, as `operator new` may),
`MaxDepth`.

### PoolAdapters

An adapter is a reference to an object and a source for what the pool does not
serve; `routes_to_pool` is evaluated when a pointer is obtained and again when it
is returned, through any adapter that compares equal (`operator_eq`,
`do_is_equal`). Each of the functions has one action per path:
`AllocateFromPool`, `AdapterRefused`, `allocate_fallback`, `AllocateUpstream`,
`ReturnToPool`, `deallocate_fallback`, `ReturnUpstream`. A pool must outlive its
adapters (`LifetimeUnder`), as both headers demand; it may be moved under them.

*Bound* `MaxPtrs`: the pointers that containers hold at a time.

## 3. Runs

| run | instance | states | what it shows |
|---|---|---|---|
| `lockfree_safety` | 3 threads, 2 slots, 2-bit tag, spurious failures | 455 thousand | `TypeOK` (no user data becomes the head), `FreeListExact`, `OwnershipExclusive`, `NoABA`, the inductive invariant `IInv`, the refinement `Linearizable`, and `LockFreedom` |
| `mutex` | 2 threads, 1 slot growing to 2 and 4 | 425 thousand | `FreeListExact`, `GrowthGeometric`, `AccessorsCoverOwnGrowth`, `Linearizable`, `Progress` |
| `mutex_race` | as `mutex` | stops at the violation | finding 1 below |
| `memory_pool` | 13 addresses, `SizeMax` 15 | 9 thousand | `FreeListExact`, `BlocksSound`, `LedgerExact`, `GrowthGeometric`, `BlocksStay` |
| `size_requests` | 5-bit `size_t`, hardened | 33 thousand | `OverflowGuardExact`, `CreationFits`, `GrowthFits`, `TypedSlotsValid` for every request |
| `saturated_stride` | as `size_requests` | stops at the violation | finding 5 below |
| `instrumented` | 2 threads, 1 block growing to 2 and 4, foreign pointers | 949 thousand, up to symmetry | `LiveNeverAhead`, `PeakExact`, `CountsAtRest`, `GrowthReportedOnce` |
| `instrumented_adopted` | 1 thread, a pool that grew once before | stops at the violation | finding 2 below |
| `hardened` | 2 threads, 2 blocks, both kinds of policy, 3 faults | 506 thousand, up to symmetry | `ReportsJustified`, `FreeListContained`, `DamageReported`, `WalkExact` |
| `hardened_link` | 1 thread, LOCKFREE, 1 fault | stops at the violation | finding 3 below |
| `objects` | 2 objects, 2 pools of 1 block growing to 2, both adapters, 2 upstreams | 652 thousand, up to symmetry | `OwnedOnce`, `DestroyedToldOnce`, `CountersFollowPool`, `BlocksAccounted`, `ReturnedToSource` |
| `routing_moved` | as `objects` | stops at the violation | finding 4 below |

Why the bounds are enough. ABA needs a victim, and a pop-pop-push by others of
two slots: two slots and three threads give it, with one thread left to be in
the middle of something else; a tag that is never bumped is caught in this
instance. A 2-bit tag wraps within the instance, so `Bump` at the wrap is
exercised. Two growths in `mutex` make the guard walk a list of two
chunks, or of one or none when its read is stale; with one slot every second call meets exhaustion. In `memory_pool`
thirteen addresses hold an initial chunk and up to two growths in any
placement, adjacent ones included, and a factor of 10 makes the product of
`grow_pool` exceed `SizeMax`. Five bits are enough for every case of the guards
and both saturations; the theorems lift that to every width. In `hardened` three
faults are an overflow, a write after free and a second free together, on one
block or on both, in every order, with the handler changed in between. In
`objects` two objects over two pools give every kind of move: full to full, full
to empty, empty to full, to itself, back again, and into an object that is not yet
alive; depth 2 is a constructor that calls `construct`; block sizes 1 and 2 with
requests of 1 and 2 put requests on both sides of `routes_to_pool`, and
`SizeMax` 3 makes a fallback overflow.

Deadlock is checked in every run but `hardened` and `hardened_link`: a client may
always begin a call. There the program really may stop: the default handler
aborts it, and once a wild link is the head nothing it does is defined.

### Fairness

`LockFreePool!FairSpec` asks only that *some* thread with a pending call takes a
step, which any scheduler does; a particular thread may be preempted for ever
in the middle of its call. `LockFreedom` then says calls complete for ever
unless none stays pending. Spurious failures of `compare_exchange_weak` are left
in, and an adversary that fails every CAS for no reason could delay everybody; the
language promises nothing against it, and every processor does.
`SpuriousFailuresPass` is that assumption: spurious failures without end come with
genuine answers without end. It says nothing about any one thread.

`MutexPool!FairSpec`, under which `mutex` checks safety and liveness, schedules
every thread (`WF` of its whole step relation). A mutex is not assumed to be
first-come-first-served: a thread may lose the race for it every time, so only
`Progress` of the system is claimed.

### Findings

1. `mutex_race`. `is_block_in_range` reads `overflow_` at 429-430 without the
   mutex while `grow_pool` writes it at 487. The comment at 664 justifies the
   missing lock by the fields being immutable after creation, which `overflow_`
   of a dynamic pool is not. `Linearizable` holds in the same instance, also
   with stale reads: the walk still decides correctly, because a block a client
   owns lies in a chunk linked before the block was vended, and the mutex and the
   hand-over order that link before the free. The
   program has a data race all the same, and no order is guaranteed between the
   initialisation of a `Chunk` and its being reached through the raced pointer.
2. `instrumented_adopted`. The adopting constructor leaves `last_growths_` at 0,
   so the first allocation after the adoption of a pool that has grown notifies
   `grew` (`instrumented_pool.hpp` 60, 261-268) although no chunk was acquired.
3. `hardened_link`. The lock-free pop installs the link it revealed unchecked
   (616-618). The comment at 613 relies on the guard check of `on_alloc`, but that
   check reads the guard word and the payload, and a write to the link alone
   disturbs neither: the wild link becomes the head and nothing is reported.
   Under a lock `read_next` reports it before.
4. `routing_moved`. `pool_allocator.hpp` 49 derives from the invariance of
   `block_size()` that allocate and deallocate decide alike. It is invariant for
   the C pool, not for the `Pool` object the adapter refers to: once moved from it
   answers 0, and a block of the pool goes to `operator delete`, or upstream.
   `ReturnedToSource` is what holds: as long as the object keeps its pool.
5. `saturated_stride`. The comment in `slot_stride` (101-103) says that a stride
   saturated to `SIZE_MAX` makes the caller's overflow guard reject the input. With
   `block_count` 1 it does not: `SIZE_MAX * 1` fits. The creation goes on to ask
   `operator new` for `SIZE_MAX` bytes and fails there.

## 4. Proofs

What is proved holds for every value of the constants that meets the `ASSUME`s
of the modules: any number of threads, blocks, objects, pools and faults, any
width of `size_t`, of the tag and of the counters, any alignment, growth factor
and heap. The bounds of the runs are constants too, and arbitrary; so what a
bound excludes (a tag that wraps under a snapshot, growth beyond `MaxBlocks`)
is what the theorems exclude.

| theorems | from the inductive invariant |
|---|---|
| `LockFreePoolProofs`: `TypeCorrect`, `FreeListIsExact`, `OwnershipIsExclusive`, `TagDefeatsABA`, `Refinement` | `IInv` (a run checks it) |
| `MutexPoolProofs`: `TypeCorrect`, `FreeListIsExact`, `GrowthIsGeometric`, `AccessorsCover`, `Refinement` | an owner is sure of the growth of its block |
| `MemoryPoolProofs`: `TypeCorrect`, `FreeListIsExact`, `BlocksAreSound`, `NothingLeaks`, `GrowthIsGeometric`, `BlocksRemain` | the heap is the extents of the chunks |
| `SizeRequestsProofs`: `GuardIsExact`, `CreationIsSound`, `GrowthIsSound`, `TypedSlotsAreValid` | none: the properties are about one request |
| `InstrumentedPoolProofs`: `TypeCorrect`, `GaugeIsBehind`, `PeakIsHighWaterMark`, `CountsTrueAtRest`, `GrowthsReported` | every block handed out is somewhere |
| `HardenedPoolProofs`: `TypeCorrect`, `NoFalseAlarm`, `MisuseContained`, `NoDamageOutlived`, `WalkComplete` | guards tell where a block is, or it was misused |
| `PoolAdaptersProofs`: `TypeCorrect`, `OneOwner`, `ObserversTold`, `CountersMoveAlong`, `NoBlockLost`, `PointersReturn` | blocks in one pair of hands, pointers rooted |

Each module also proves `Invariance`, `Spec => []IInv`, except
`SizeRequestsProofs`.

### Lists and addresses

`FreeListProofs` has the facts about `ListsExactly` that all policies rest on:
`ListPop`, `ListPush`, `ListHead` (a NULL head means an empty list), `ListFrame`
(a write outside the list), `SeededList` (what `initialize_free_list` builds).
Below them are the facts of division with remainder; from these, the overflow guard
(`ProductGuard`), the rounding of a stride (`RoundedUp`), and what
`block_in_chunk` computes from an address (`SlotTest`, `SlotsApart`).

### LockFreePoolProofs

`FreeListExact` alone is not inductive: a CAS preserves the list only if the
link installed is the head's current successor, or the block pushed is linked to
the current head, and it is the thread's snapshot that knows. `IInv` therefore adds
`TagCounts` (head tag = snapshot tag + `lag`, modulo `TagMod`), hence a snapshot
equal to the head has `lag = 0` within `NoTagWrap`; `SnapshotFresh` (with
`lag = 0` the link read is the head's link); `PushLinked` (a block about to be
pushed is linked to its snapshot's pointer, which nobody else can overwrite
because of `OwnershipExclusive`); `SnapshotNonNull` and `GuardPassed`. The CAS
steps then reduce to `ListPop` and `ListPush`; the steps that write a slot that is
not free use `ListFrame`. The refinement maps `PopCas` to `Vend`, `PopLoadEmpty`
and `PopRetryEmpty` to `Refuse`, `PushCas` to `TakeBack`, `FreeIgnored` to
`Ignore`, everything else to a stutter or the beginning of a call.

### MutexPoolProofs

The mutex makes the critical sections atomic (`MutualExclusion`); what needs an
argument is what is read without it. While its holder is in `grow_pool`
(`ChunkFits`) the chunk continues where the pool ends, is seeded already, and
the free list is empty, so nobody loses a block when the chunk becomes the
list. `ChunksCounted` says that the linked chunks are exactly the slots up to
the last growth, one chunk more than `grow_count` between the writes at 487 and
490, and `ChunksInOrder` that the n-th oldest is those from one size of the pool to
the next. `SeenSound`: the growths that happened before a block was vended include
the one that acquired it. So the guard accepts every block a client owns, however
stale the list it reads, and `AccessorsCoverOwnGrowth` follows the same way;
neither uses an order between the writes of one growth. `GrownTo` is a recursive function; that
it exists and meets its equation is proved from finite tables of it
(`GrownUpToExists`, `GrownUpToAgree`, `GrownToUnfolds`). In the refinement
the step that publishes a chunk and pops from it (`GrowPublish`) is `GrowAndVend`;
allocating and linking the chunk are stutters.

### MemoryPoolProofs

`Accepted`: the arguments passed the guards, so no product of a size wrapped; a
saturated stride (finding 5) leaves one slot only, which needs no alignment of a
second. `HeapSound`: regions are apart, aligned, not empty.
`Placed`: the heap is exactly the extents of the chunks, one each, and no two
chunks begin at the same address; `LedgerExact` is this and a count, and so is that
the roll-backs undo what they should: `release_backing` of a new region removes
that region and no other (`Released`), hence `CreateRolledBack` and
`GrowRolledBack` change nothing. `BlocksSound` follows from `Placed` because slots of
one chunk are a stride apart and those of two lie in disjoint regions. `Counted`:
the sum over the chunks and the product over the growths are functions defined by
recursion; the invariant carries one of each and that they agree, and a growth
extends both by one (`SumsGrow`, `MultipliesGrow`). `BlocksRemain` is an action
property: every step but `Destroy` and creation keeps the set of slots or adds to it.

### InstrumentedPoolProofs

`BlocksPlaced`: the blocks handed out are those callers hold and one for each
thread that carries one between two accesses. `LiveBehind`: `live_` is at most
what it should count, less one for each thread that has seen it at zero and will
leave it there, so that a clamp never lets it get ahead. `LiveTrue` and `TotalsTrue`
are the exact counts while no foreign pointer is passed, the totals modulo the
wrap of the counters. `PeakMarked`: the greatest value `live_` had is in
`peak_live_` or in the hands of a thread that is raising it, whose comparison
can only fail against a greater peak. `GrowthsNoted` and `GrowthPending`: a
compare-exchange claims the growths between the count it replaces and the one it
stores, which are nobody else's and up to `last_growths_` all there are, and while
the latest growth is unclaimed a thread is on its way to look at it. The set of threads has to be finite here: the
counts are cardinalities of sets of threads.

### HardenedPoolProofs

The list is described up to damage: a link that a client overwrote ends a
`Chain` as NULL does. `ListOK`: the chain from the head lists some available
blocks, all of them as long as no link was overwritten; so misuse may cut the
list but adds nothing to it, and no block is vended twice. `RestOK` says the same of
the link that a lock-free pop is about to install. `GuardsTold`: guard word and
poison say where a block is, unless the block was misused. `DamageOwed`: damage not
yet reported is visible to the call that must report it, unless a refused second
free removed its traces; `RefusedTold`: then the block was accused before. `WalkOK`: what a walk has seen and what is ahead of it add up to what was
counted. `memory_pool_debug_free_count` is a recursive function too, and is proved to
equal the length of the list. Once the state is `blind` the invariant keeps types
only, as the properties do; the theorems do not need the constraint `NotBlind`
that the run uses.

### PoolAdaptersProofs

The specification is the composition, so its invariant has both layers.
`HandlesOwn`: handles and living pools correspond one to one. `ObserversFollow`
and `OthersSilent`: observers are with the object that owns the pool they were
registered for. `BlocksPlaced`: the blocks out of pools are those of callers, of
`T`s, of constructors and destructors in progress and of containers, and no
block is in two of these. `CallsRooted`: an object whose member function runs is a
`TypedPool` that keeps its pool, which is why the outer call finds its own block
when an inner one is done. `PtrsRooted`: a pointer's source is what `routes_to_pool`
says of the pool it was allocated with, whatever became of the `Pool` object
since; `ReturnedToSource` follows when the object still has that pool. Finding 4
is the case where it has not.

### Assumptions

Those worth knowing: `Threads` is finite in `InstrumentedPool`; the adopted
capacity there is within `MaxBlocks`; addresses of `MemoryPool` are sizes
(`AddrMax <= SizeMax`) and the word `Junk` is no address; `PoolObjects` has at least
one block size, and no upstream of an adapter is called "new" or "pool";
alignments are small against `SizeMax` (`HalfAssumption`, `SizeRequests` only).
Powers of the growth factor are products defined by recursion where a theorem is
about them, because the provers know nothing of `^`.

### Only model-checked

`LockFreedom` and `Progress`: they are liveness properties, and temporal reasoning
under fairness is outside what the installed provers do. The five violations of
the findings are runs; nothing is proved about them.

## 5. Not modelled

- Benchmarks, packaging, the documentation lint, `version.hpp`: no behaviour of
  the library.
- Weak memory orders beyond the racing read of the lock-free pop and the stale
  unlocked reads of the mutex policy. In `InstrumentedPool` a load gives the latest
  value; what keeps a stale one harmless there is argued, not checked: a thread
  that grew the pool, or whose block was counted, reads its own effect or a later
  one.
- A 32-bit tag that wraps under a sleeping snapshot (`NoTagWrap`).
- The contents of a `stats()` snapshot, and `write_summary`, which prints one.
- Growth of a hardened pool, and overwritten links that are aligned.
- The diagnostic walk of a pool that other threads are changing: the accessors
  call it best-effort (874-875). `WalkExact` interleaves it with calls of the same
  caller; the walk is abandoned when the slot under the iterator is vended.
- A `TypedPool` that is moved or destroyed by the constructor of its own `T`.

## 6. Plan

Every safety and action property that a passing run checks is a theorem. What
would add to that:

- an abstract pool of named blocks that `MemoryPool` implements, so that its
  addresses are tied to `PoolSpec` as those of the two concurrent policies are;
- that the core `InstrumentedPool` counts on is one `MutexPool` implements (today
  the README argues it, no theorem states it);
- the growth of a hardened pool, and the contents of a snapshot.
