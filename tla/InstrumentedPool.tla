-------------------------- MODULE InstrumentedPool --------------------------
(***************************************************************************)
(* instrumented_pool.hpp: the counting decorator, driven by several        *)
(* threads over a MUTEX pool that grows.  The counters are atomics updated *)
(* one by one, before and after the call of the core; nothing is updated   *)
(* together.  One action per access to an atomic or to the core.           *)
(*                                                                         *)
(* The core is what MutexPool implements, with the blocks only counted: a  *)
(* growth is visible (grow_count) before the pop that needed it.  A failed *)
(* compare_exchange_weak reloads its operand; a spurious failure reloads   *)
(* the value it had, a step that changes nothing.                          *)
(***************************************************************************)
EXTENDS Naturals, FiniteSets, FiniteSetsExt

CONSTANTS Threads,
          N, Factor,    \* of the core: it starts with N blocks, grows by Factor
          MaxBlocks,    \* bound: no growth beyond this many blocks succeeds
          CountMod,     \* 2^w for counters of w bits
          Adopted,      \* how often the pool had grown when it was adopted
          Foreign       \* do callers pass pointers that are not blocks?

ASSUME CoreAssumption ==
    /\ N \in Nat \ {0} /\ Factor \in Nat \ {0, 1} /\ Adopted \in Nat
    /\ MaxBlocks \in Nat /\ N * Factor ^ Adopted \in 1 .. MaxBlocks
ASSUME ThreadAssumption == IsFiniteSet(Threads)
ASSUME CountAssumption == CountMod \in Nat \ {0} /\ Foreign \in BOOLEAN

VARIABLES capacity, vended, grow_count,     \* the core: blocks, blocks handed out
          allocations, deallocations, allocation_failures,
          live, peak_live, last_growths,
          held,         \* how many blocks the callers own
          pc,           \* pc[t]: what thread t does next
          want,         \* want[t]: the value it would store (live, growths)
          last,         \* last[t]: the value it loaded (peak, last, live)
          own,          \* own[t]: is the pointer it returns a block?
          highest,      \* history: the greatest live so far
          reported,     \* history: the growths the observers got a grew event for
          strayed       \* history: has a foreign pointer been deallocated?

core == <<capacity, vended, grow_count>>
counters == <<allocations, deallocations, allocation_failures>>
gauges == <<live, peak_live, last_growths>>
history == <<highest, reported, strayed>>
vars == <<core, counters, gauges, held, pc, want, last, own, history>>

Goto(t, label) == pc' = [pc EXCEPT ![t] = label]
Load(t, value) == last' = [last EXCEPT ![t] = value]
Counted(n) == (n + 1) % CountMod

(* The locals of a loop end with it. *)
EndLoop(t) ==
    /\ want' = [want EXCEPT ![t] = 0]
    /\ last' = [last EXCEPT ![t] = 0]

Return(t) == Goto(t, "idle") /\ EndLoop(t) /\ own' = [own EXCEPT ![t] = FALSE]

(* A pool no block of which is in use is adopted, every counter is zero. *)
Init ==
    /\ capacity = N * Factor ^ Adopted /\ vended = 0 /\ grow_count = Adopted
    /\ allocations = 0 /\ deallocations = 0 /\ allocation_failures = 0
    /\ live = 0 /\ peak_live = 0 /\ last_growths = 0
    /\ held = 0
    /\ pc = [t \in Threads |-> "idle"]
    /\ want = [t \in Threads |-> 0]
    /\ last = [t \in Threads |-> 0]
    /\ own = [t \in Threads |-> FALSE]
    /\ highest = 0 /\ reported = {} /\ strayed = FALSE

-----------------------------------------------------------------------------
(* The core.  Its mutex is held from a growth to the pop that follows. *)
Locked == \E t \in Threads : pc[t] = "grown"

CoreGrows(t) ==
    /\ pc[t] = "core" /\ ~ Locked
    /\ vended = capacity
    /\ capacity * Factor <= MaxBlocks
    /\ capacity' = capacity * Factor
    /\ grow_count' = grow_count + 1
    /\ Goto(t, "grown")
    /\ UNCHANGED <<vended, counters, gauges, held, want, last, own, history>>

CoreVends(t) ==
    /\ pc[t] = "grown" \/ (pc[t] = "core" /\ ~ Locked)
    /\ vended < capacity
    /\ vended' = vended + 1
    /\ Goto(t, "allocated")
    /\ UNCHANGED <<capacity, grow_count, counters, gauges, held, want, last, own, history>>

CoreExhausted(t) ==
    /\ pc[t] = "core" /\ ~ Locked
    /\ vended = capacity
    /\ Goto(t, "failed")
    /\ UNCHANGED <<core, counters, gauges, held, want, last, own, history>>

CoreFrees(t) ==
    /\ pc[t] = "free"
    /\ own[t] => ~ Locked
    /\ vended' = IF own[t] THEN vended - 1 ELSE vended
    /\ Return(t)
    /\ UNCHANGED <<capacity, grow_count, counters, gauges, held, history>>

-----------------------------------------------------------------------------
(* allocate and try_allocate; they differ in how they tell of a failure. *)

AllocBegin(t) ==
    /\ pc[t] = "idle"
    /\ Goto(t, "core")
    /\ UNCHANGED <<core, counters, gauges, held, want, last, own, history>>

(* Mutant: the attempt is counted, not the success. *)
CountFailureTwice(t) ==
    /\ pc[t] = "failed"
    /\ allocation_failures' = Counted(allocation_failures)
    /\ allocations' = Counted(allocations)
    /\ Return(t)
    /\ UNCHANGED <<core, deallocations, gauges, held, history>>

(* The failure is counted and the observers get an exhausted event. *)
CountFailure(t) ==
    /\ pc[t] = "failed"
    /\ allocation_failures' = Counted(allocation_failures)
    /\ Return(t)
    /\ UNCHANGED <<core, allocations, deallocations, gauges, held, history>>

(* record_allocation *)
CountAllocation(t) ==
    /\ pc[t] = "allocated"
    /\ allocations' = Counted(allocations)
    /\ Goto(t, "live")
    /\ UNCHANGED <<core, deallocations, allocation_failures, gauges, held, want, last, own, history>>

LiveUp(t) ==
    /\ pc[t] = "live"
    /\ live' = live + 1
    /\ want' = [want EXCEPT ![t] = live + 1]
    /\ highest' = Max({highest, live + 1})
    /\ Goto(t, "peakload")
    /\ UNCHANGED <<core, counters, peak_live, last_growths, held, last, own, reported, strayed>>

PeakLoad(t) ==
    /\ pc[t] = "peakload"
    /\ Load(t, peak_live)
    /\ Goto(t, "peak")
    /\ UNCHANGED <<core, counters, gauges, held, want, own, history>>

(* Mutant: the maximum is stored without comparing again. *)
PeakStored(t) ==
    /\ pc[t] = "peak"
    /\ last[t] < want[t]
    /\ peak_live' = want[t]
    /\ Goto(t, "growths")
    /\ EndLoop(t)
    /\ UNCHANGED <<core, counters, live, last_growths, held, own, history>>

PeakRaised(t) ==
    /\ pc[t] = "peak"
    /\ last[t] < want[t] /\ peak_live = last[t]
    /\ peak_live' = want[t]
    /\ Goto(t, "growths")
    /\ EndLoop(t)
    /\ UNCHANGED <<core, counters, live, last_growths, held, own, history>>

PeakReloaded(t) ==
    /\ pc[t] = "peak"
    /\ last[t] < want[t] /\ peak_live # last[t]
    /\ Load(t, peak_live)
    /\ UNCHANGED <<core, counters, gauges, held, pc, want, own, history>>

PeakHigher(t) ==
    /\ pc[t] = "peak"
    /\ last[t] >= want[t]
    /\ Goto(t, "growths")
    /\ EndLoop(t)
    /\ UNCHANGED <<core, counters, gauges, held, own, history>>

(* notify_if_grew *)
GrowthsLoad(t) ==
    /\ pc[t] = "growths"
    /\ want' = [want EXCEPT ![t] = grow_count]
    /\ Goto(t, "lastload")
    /\ UNCHANGED <<core, counters, gauges, held, last, own, history>>

LastLoad(t) ==
    /\ pc[t] = "lastload"
    /\ Load(t, last_growths)
    /\ Goto(t, "grew")
    /\ UNCHANGED <<core, counters, gauges, held, want, own, history>>

(* Mutant: last_growths_ is stored without comparing again (BUG-0001). *)
GrewStored(t) ==
    /\ pc[t] = "grew"
    /\ want[t] > last[t]
    /\ last_growths' = want[t]
    /\ Goto(t, "notify")
    /\ UNCHANGED <<core, counters, live, peak_live, held, want, last, own, history>>

(* Mutant: the winner of the exchange sends no event. *)
GrewUnnoticed(t) ==
    /\ pc[t] = "grew"
    /\ want[t] > last[t] /\ last_growths = last[t]
    /\ last_growths' = want[t]
    /\ held' = held + 1
    /\ Return(t)
    /\ UNCHANGED <<core, counters, live, peak_live, history>>

GrewClaimed(t) ==
    /\ pc[t] = "grew"
    /\ want[t] > last[t] /\ last_growths = last[t]
    /\ last_growths' = want[t]
    /\ Goto(t, "notify")
    /\ UNCHANGED <<core, counters, live, peak_live, held, want, last, own, history>>

GrewReloaded(t) ==
    /\ pc[t] = "grew"
    /\ want[t] > last[t] /\ last_growths # last[t]
    /\ Load(t, last_growths)
    /\ UNCHANGED <<core, counters, gauges, held, pc, want, own, history>>

(* The growths a pending event stands for: those its thread advanced last_growths_
   by.  They are several when the pool grew again before it was looked at. *)
Claimed(t) == IF pc[t] = "notify" THEN (last[t] + 1) .. want[t] ELSE {}

(* The observers get one grew event, and the block is the caller's. *)
NotifyGrew(t) ==
    /\ pc[t] = "notify"
    /\ reported' = reported \cup Claimed(t)
    /\ held' = held + 1
    /\ Return(t)
    /\ UNCHANGED <<core, counters, gauges, highest, strayed>>

NotGrown(t) ==
    /\ pc[t] = "grew"
    /\ want[t] <= last[t]
    /\ held' = held + 1
    /\ Return(t)
    /\ UNCHANGED <<core, counters, gauges, history>>

-----------------------------------------------------------------------------
(* deallocate, of a pointer that is not NULL (NULL changes nothing) *)

DeallocBegin(t) ==
    /\ pc[t] = "idle"
    /\ \/ /\ held > 0
          /\ held' = held - 1
          /\ own' = [own EXCEPT ![t] = TRUE]
          /\ UNCHANGED strayed
       \/ /\ Foreign
          /\ strayed' = TRUE
          /\ UNCHANGED <<held, own>>
    /\ Goto(t, "dealloc")
    /\ UNCHANGED <<core, counters, gauges, want, last, highest, reported>>

CountDeallocation(t) ==
    /\ pc[t] = "dealloc"
    /\ deallocations' = Counted(deallocations)
    /\ Goto(t, "liveload")
    /\ UNCHANGED <<core, allocations, allocation_failures, gauges, held, want, last, own, history>>

LiveLoad(t) ==
    /\ pc[t] = "liveload"
    /\ Load(t, live)
    /\ Goto(t, "livecas")
    /\ UNCHANGED <<core, counters, gauges, held, want, own, history>>

LiveDown(t) ==
    /\ pc[t] = "livecas"
    /\ last[t] > 0 /\ live = last[t]
    /\ live' = live - 1
    /\ Goto(t, "free")
    /\ EndLoop(t)
    /\ UNCHANGED <<core, counters, peak_live, last_growths, held, own, history>>

(* Mutant: a failed CAS is not repeated. *)
LiveGivesUp(t) ==
    /\ pc[t] = "livecas"
    /\ last[t] > 0 /\ live # last[t]
    /\ Goto(t, "free")
    /\ EndLoop(t)
    /\ UNCHANGED <<core, counters, gauges, held, own, history>>

LiveReloaded(t) ==
    /\ pc[t] = "livecas"
    /\ last[t] > 0 /\ live # last[t]
    /\ Load(t, live)
    /\ UNCHANGED <<core, counters, gauges, held, pc, want, own, history>>

(* Mutant: not clamped (BUG-0002). *)
LiveUnclamped(t) ==
    /\ pc[t] = "livecas"
    /\ last[t] = 0 /\ live = last[t]
    /\ live' = live - 1
    /\ Goto(t, "free")
    /\ EndLoop(t)
    /\ UNCHANGED <<core, counters, peak_live, last_growths, held, own, history>>

(* Clamped at zero. *)
LiveClamped(t) ==
    /\ pc[t] = "livecas"
    /\ last[t] = 0
    /\ Goto(t, "free")
    /\ EndLoop(t)
    /\ UNCHANGED <<core, counters, gauges, held, own, history>>

-----------------------------------------------------------------------------
Step(t) ==
    \/ CoreGrows(t) \/ CoreVends(t) \/ CoreExhausted(t) \/ CoreFrees(t)
    \/ CountFailure(t) \/ CountAllocation(t) \/ LiveUp(t)
    \/ PeakLoad(t) \/ PeakRaised(t) \/ PeakReloaded(t) \/ PeakHigher(t)
    \/ GrowthsLoad(t) \/ LastLoad(t) \/ GrewClaimed(t) \/ GrewReloaded(t)
    \/ NotifyGrew(t) \/ NotGrown(t)
    \/ CountDeallocation(t) \/ LiveLoad(t) \/ LiveDown(t) \/ LiveReloaded(t) \/ LiveClamped(t)

Next == \E t \in Threads : AllocBegin(t) \/ DeallocBegin(t) \/ Step(t)

Spec == Init /\ [][Next]_vars

-----------------------------------------------------------------------------
(* Type correctness; live_ never wraps below zero (BUG-0002). *)
TypeOK ==
    /\ capacity \in Nat /\ vended \in 0 .. capacity /\ grow_count \in Nat
    /\ {allocations, deallocations, allocation_failures} \subseteq 0 .. (CountMod - 1)
    /\ live \in Nat /\ peak_live \in Nat /\ last_growths \in Nat
    /\ held \in Nat
    /\ pc \in [Threads -> {"idle", "core", "grown", "allocated", "failed", "live", "peakload",
                           "peak", "growths", "lastload", "grew", "notify",
                           "dealloc", "liveload", "livecas", "free"}]
    /\ want \in [Threads -> Nat] /\ last \in [Threads -> Nat] /\ own \in [Threads -> BOOLEAN]
    /\ highest \in Nat /\ reported \subseteq Nat /\ strayed \in BOOLEAN

AtRest == \A t \in Threads : pc[t] = "idle"

(* The gauge never runs ahead of the pool: a block is counted after it was
   handed out and discounted before it goes back, so live_ and peak_live_ never
   exceed what was outstanding, nor the pool's capacity, under any interleaving
   and whatever foreign pointers are deallocated. *)
LiveNeverAhead == live <= vended /\ peak_live <= capacity

(* peak_live_ is the high-water mark of live_: what it lacks is about to be
   stored by a thread that is still raising it. *)
PeakExact ==
    highest = Max({peak_live} \cup
                  {want[t] : t \in {u \in Threads : pc[u] \in {"peakload", "peak"}}})

(* When nobody is in a call the counters tell the truth: live_ blocks are
   outstanding, as many as were allocated and not deallocated, unless a foreign
   pointer was deallocated; then they are fewer (concurrency_stress_test.cpp). *)
CountsAtRest ==
    AtRest => /\ held = vended
              /\ live <= held
              /\ ~ strayed => /\ live = held
                              /\ allocations = (deallocations + live) % CountMod

(* Every growth is told of in exactly one grew event, whoever looks at the counter
   in whatever order (BUG-0001): the events sent and those about to be sent cover
   every growth that was noted, no two of them the same one, and when nobody is in a
   call every growth of the pool has been told of.  An event may stand for several
   growths; the observers are not told for how many. *)
Pending == UNION {Claimed(t) : t \in Threads}
GrowthReportedOnce ==
    /\ \A t \in Threads : Claimed(t) \cap reported = {}
    /\ \A t, u \in Threads : t # u => Claimed(t) \cap Claimed(u) = {}
    /\ reported \cup Pending = 1 .. last_growths
    /\ last_growths <= grow_count
    /\ AtRest /\ grow_count > Adopted => reported = 1 .. grow_count

(* What PoolEvent::grew says: the pool has acquired an overflow chunk, so every
   event stands for growths of the pool since it was adopted. *)
GrewMeansGrown == reported \subseteq (Adopted + 1) .. grow_count
=============================================================================
