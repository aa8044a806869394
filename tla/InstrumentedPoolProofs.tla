----------------------- MODULE InstrumentedPoolProofs -----------------------
(***************************************************************************)
(* For every number of threads, core and width of the counters: what the   *)
(* counters of an InstrumentedPool say, although each is updated alone.    *)
(***************************************************************************)
EXTENDS InstrumentedPool, Integers, TLAPS, FiniteSetTheorems

-----------------------------------------------------------------------------
(* Where the blocks are that the core has handed out and no caller owns, and
   which of them the counters have seen. *)

Uncounted == {t \in Threads : pc[t] \in {"allocated", "live"}}

Known == {t \in Threads : pc[t] \in {"peakload", "peak", "growths", "lastload", "grew", "notify"}}

Coming == {t \in Threads : own[t] /\ pc[t] \in {"dealloc", "liveload", "livecas"}}

Leaving == {t \in Threads : own[t] /\ pc[t] = "free"}

(* They have seen live_ at zero and will not lower it. *)
Clamping == {t \in Threads : own[t] /\ pc[t] = "livecas" /\ last[t] = 0}

(* allocations_, respectively deallocations_, is ahead of live_. *)
Entered == {t \in Threads : pc[t] = "live"}
Left == {t \in Threads : own[t] /\ pc[t] \in {"liveload", "livecas"}}

Raising == {t \in Threads : pc[t] \in {"peakload", "peak"}}

-----------------------------------------------------------------------------
(* The inductive invariant. *)

Deallocating(t) == pc[t] \in {"dealloc", "liveload", "livecas", "free"}

OwnOnlyInside == \A t \in Threads : own[t] => Deallocating(t)

(* Every block handed out is somewhere. *)
BlocksPlaced ==
    vended = held + Cardinality(Uncounted) + Cardinality(Known)
                  + Cardinality(Coming) + Cardinality(Leaving)

(* live_ is behind the blocks it should count, by one at least for each thread
   that is about to leave it where it is. *)
LiveBehind ==
    live + Cardinality(Clamping) <= held + Cardinality(Known) + Cardinality(Coming)

(* As long as only blocks are deallocated it counts all of them, *)
LiveTrue ==
    ~ strayed => /\ live = held + Cardinality(Known) + Cardinality(Coming)
                 /\ \A t \in Threads : Deallocating(t) => own[t]

(* and the totals agree with it, except for those on their way and for the
   wrap-around of the counters. *)
TotalsTrue ==
    ~ strayed => \E k \in Int :
        allocations + Cardinality(Left) + k * CountMod
            = deallocations + live + Cardinality(Entered)

PeakBounded ==
    /\ peak_live <= capacity
    /\ \A t \in Raising : want[t] <= capacity

(* The high-water mark is in peak_live_ or in the hands of a thread, and a thread
   that compares has seen no greater peak than there is. *)
PeakMarked ==
    LET marks == {peak_live} \cup {want[t] : t \in Raising}
    IN  /\ highest \in marks
        /\ \A m \in marks : m <= highest
        /\ \A t \in Threads : pc[t] = "peak" => last[t] <= peak_live

(* The growths noted so far are divided among the events sent and those pending. *)
EventsExact ==
    /\ \A t \in Threads : Claimed(t) \cap reported = {}
    /\ \A t, u \in Threads : t # u => Claimed(t) \cap Claimed(u) = {}
    /\ reported \cup Pending = 1 .. last_growths

(* Growths are noted in ascending order and reported after that. *)
GrowthsNoted ==
    /\ EventsExact
    /\ last_growths <= grow_count
    /\ \A t \in Threads : pc[t] \in {"lastload", "grew"} => want[t] <= grow_count
    /\ \A t \in Threads : pc[t] = "grew" => last[t] <= last_growths

(* A thread that will look at the latest growth, or has done so. *)
WillNote(t) ==
    \/ pc[t] \in {"grown", "allocated", "live", "peakload", "peak", "growths"}
    \/ pc[t] \in {"lastload", "grew"} /\ want[t] = grow_count

GrowthPending ==
    grow_count > Adopted /\ last_growths < grow_count => \E t \in Threads : WillNote(t)

IInv ==
    /\ TypeOK /\ OwnOnlyInside
    /\ BlocksPlaced /\ LiveBehind /\ LiveTrue /\ TotalsTrue
    /\ PeakBounded /\ PeakMarked
    /\ GrowthsNoted /\ GrowthPending

-----------------------------------------------------------------------------
(* A step of thread t changes no local variable of another thread, so that t
   alone can enter or leave one of the sets above. *)

Acts(t) == AllocBegin(t) \/ DeallocBegin(t) \/ Step(t)

(* One element enters or leaves. *)
LEMMA OneMoves ==
    ASSUME NEW S, NEW T, NEW t, IsFiniteSet(S), S \ {t} = T \ {t}
    PROVE  /\ IsFiniteSet(T)
           /\ Cardinality(S) \in Nat /\ Cardinality(T) \in Nat
           /\ Cardinality(T) = Cardinality(S) + (IF t \in T THEN 1 ELSE 0)
                                              - (IF t \in S THEN 1 ELSE 0)
<1> DEFINE R == S \ {t}
<1>1. IsFiniteSet(R) /\ Cardinality(R) \in Nat
  BY FS_Difference, FS_CardinalityType
<1>2. S = R \cup (IF t \in S THEN {t} ELSE {}) /\ T = R \cup (IF t \in T THEN {t} ELSE {})
  OBVIOUS
<1>3. IsFiniteSet(R \cup {t}) /\ Cardinality(R \cup {t}) = Cardinality(R) + 1
  BY <1>1, FS_AddElement
<1> HIDE DEF R
<1>4. Cardinality(S) = Cardinality(R) + (IF t \in S THEN 1 ELSE 0)
  BY <1>1, <1>2, <1>3
<1>5. IsFiniteSet(T) /\ Cardinality(T) = Cardinality(R) + (IF t \in T THEN 1 ELSE 0)
  BY <1>1, <1>2, <1>3
<1> QED BY <1>1, <1>4, <1>5

(* The other threads stay where they are. *)
LEMMA OthersStay ==
    ASSUME TypeOK, NEW t \in Threads, Acts(t), NEW u \in Threads \ {t}
    PROVE  pc'[u] = pc[u] /\ own'[u] = own[u] /\ last'[u] = last[u] /\ want'[u] = want[u]
<1>1. /\ \E label : pc' = [pc EXCEPT ![t] = label]
      /\ \E value : own' = [own EXCEPT ![t] = value]
      /\ \E value : last' = [last EXCEPT ![t] = value]
      /\ \E value : want' = [want EXCEPT ![t] = value]
  <2>0. /\ pc = [pc EXCEPT ![t] = pc[t]] /\ own = [own EXCEPT ![t] = own[t]]
        /\ last = [last EXCEPT ![t] = last[t]] /\ want = [want EXCEPT ![t] = want[t]]
    BY DEF TypeOK
  <2>1. CASE CoreGrows(t) \/ CoreVends(t) \/ CoreExhausted(t) \/ CoreFrees(t) \/ CountFailure(t)
    BY <2>0, <2>1 DEF CoreGrows, CoreVends, CoreExhausted, CoreFrees, CountFailure,
                      Goto, Return, EndLoop
  <2>2. CASE CountAllocation(t) \/ LiveUp(t) \/ PeakLoad(t) \/ PeakRaised(t) \/ PeakReloaded(t)
             \/ PeakHigher(t)
    BY <2>0, <2>2 DEF CountAllocation, LiveUp, PeakLoad, PeakRaised, PeakReloaded, PeakHigher,
                      Goto, Load, EndLoop
  <2>3. CASE GrowthsLoad(t) \/ LastLoad(t) \/ GrewClaimed(t) \/ GrewReloaded(t)
             \/ NotifyGrew(t) \/ NotGrown(t)
    BY <2>0, <2>3 DEF GrowthsLoad, LastLoad, GrewClaimed, GrewReloaded, NotifyGrew, NotGrown,
                      Goto, Load, Return, EndLoop
  <2>4. CASE CountDeallocation(t) \/ LiveLoad(t) \/ LiveDown(t) \/ LiveReloaded(t) \/ LiveClamped(t)
    BY <2>0, <2>4 DEF CountDeallocation, LiveLoad, LiveDown, LiveReloaded, LiveClamped,
                      Goto, Load, EndLoop
  <2>5. CASE AllocBegin(t) \/ DeallocBegin(t)
    BY <2>0, <2>5 DEF AllocBegin, DeallocBegin, Goto
  <2> QED BY <2>1, <2>2, <2>3, <2>4, <2>5 DEF Acts, Step
<1> QED BY <1>1 DEF TypeOK

(* What a step of t does to the sets. *)
LEMMA CountsMove ==
    ASSUME TypeOK, NEW t \in Threads, Acts(t)
    PROVE  /\ Cardinality(Uncounted') =
                Cardinality(Uncounted) + (IF t \in Uncounted' THEN 1 ELSE 0)
                                       - (IF t \in Uncounted THEN 1 ELSE 0)
           /\ Cardinality(Known') =
                Cardinality(Known) + (IF t \in Known' THEN 1 ELSE 0)
                                   - (IF t \in Known THEN 1 ELSE 0)
           /\ Cardinality(Coming') =
                Cardinality(Coming) + (IF t \in Coming' THEN 1 ELSE 0)
                                    - (IF t \in Coming THEN 1 ELSE 0)
           /\ Cardinality(Leaving') =
                Cardinality(Leaving) + (IF t \in Leaving' THEN 1 ELSE 0)
                                     - (IF t \in Leaving THEN 1 ELSE 0)
           /\ Cardinality(Clamping') =
                Cardinality(Clamping) + (IF t \in Clamping' THEN 1 ELSE 0)
                                      - (IF t \in Clamping THEN 1 ELSE 0)
           /\ Cardinality(Clamping') \in Nat
           /\ Cardinality(Entered') =
                Cardinality(Entered) + (IF t \in Entered' THEN 1 ELSE 0)
                                     - (IF t \in Entered THEN 1 ELSE 0)
           /\ Cardinality(Left') =
                Cardinality(Left) + (IF t \in Left' THEN 1 ELSE 0)
                                  - (IF t \in Left THEN 1 ELSE 0)
<1>1. \A u \in Threads \ {t} : pc'[u] = pc[u] /\ own'[u] = own[u] /\ last'[u] = last[u]
  BY OthersStay
<1>2. \A S \in SUBSET Threads : IsFiniteSet(S)
  BY ThreadAssumption, FS_Subset
<1>3. Uncounted \ {t} = Uncounted' \ {t} /\ IsFiniteSet(Uncounted)
  BY <1>1, <1>2 DEF Uncounted
<1>4. Known \ {t} = Known' \ {t} /\ IsFiniteSet(Known)
  BY <1>1, <1>2 DEF Known
<1>5. Coming \ {t} = Coming' \ {t} /\ IsFiniteSet(Coming)
  BY <1>1, <1>2 DEF Coming
<1>6. Leaving \ {t} = Leaving' \ {t} /\ IsFiniteSet(Leaving)
  BY <1>1, <1>2 DEF Leaving
<1>7. Clamping \ {t} = Clamping' \ {t} /\ IsFiniteSet(Clamping)
  BY <1>1, <1>2 DEF Clamping
<1>8. Entered \ {t} = Entered' \ {t} /\ IsFiniteSet(Entered)
  BY <1>1, <1>2 DEF Entered
<1>9. Left \ {t} = Left' \ {t} /\ IsFiniteSet(Left)
  BY <1>1, <1>2 DEF Left
<1> QED BY <1>3, <1>4, <1>5, <1>6, <1>7, <1>8, <1>9, OneMoves

(* The threads between two steps of a call can be counted. *)
LEMMA CountsNatural ==
    /\ Cardinality(Uncounted) \in Nat /\ Cardinality(Known) \in Nat
    /\ Cardinality(Coming) \in Nat /\ Cardinality(Leaving) \in Nat
    /\ Cardinality(Clamping) \in Nat /\ Cardinality(Entered) \in Nat
    /\ Cardinality(Left) \in Nat
<1>1. \A S \in SUBSET Threads : Cardinality(S) \in Nat
  BY ThreadAssumption, FS_Subset, FS_CardinalityType
<1> QED BY <1>1 DEF Uncounted, Known, Coming, Leaving, Clamping, Entered, Left

-----------------------------------------------------------------------------
(* Counters of w bits. *)

(* The remainder is the only number below the modulus at a multiple's distance. *)
LEMMA RemainderUnique ==
    ASSUME NEW m \in Nat \ {0}, NEW a \in 0 .. (m - 1), NEW k \in Int, NEW x \in Nat, x = a + k * m
    PROVE  x % m = a
<1> DEFINE r == x % m
<1> DEFINE q == x \div m
<1>1. x = m * q + r /\ r \in 0 .. (m - 1) /\ q \in Int
  OBVIOUS
<1> HIDE DEF r, q
<1>2. m * (q - k) = a - r /\ a - r < m /\ a - r > - m
  <2>1. m * (q - k) = m * q - k * m
    BY <1>1
  <2> QED BY <2>1, <1>1
<1>3. q - k = 0
  <2>1. ASSUME q - k >= 1 PROVE FALSE
    <3>1. m * (q - k) = m + m * ((q - k) - 1) /\ m * ((q - k) - 1) >= 0
      BY <2>1, <1>1
    <3> QED BY <3>1, <1>1, <1>2
  <2>2. ASSUME q - k <= -1 PROVE FALSE
    <3>1. m * (q - k) = - m - m * (k - q - 1) /\ m * (k - q - 1) >= 0
      BY <2>2, <1>1
    <3> QED BY <3>1, <1>1, <1>2
  <2> QED BY <2>1, <2>2, <1>1
<1>4. r = a
  BY <1>2, <1>3, <1>1
<1> QED BY <1>4 DEF r

(* Counting wraps around from the greatest value to zero. *)
LEMMA CountedWraps ==
    ASSUME NEW n \in 0 .. (CountMod - 1)
    PROVE  Counted(n) = IF n + 1 = CountMod THEN 0 ELSE n + 1
<1>1. CountMod \in Nat \ {0}
  BY CountAssumption
<1>2. CASE n + 1 = CountMod
  <2>1. n + 1 = 0 + 1 * CountMod /\ 0 \in 0 .. (CountMod - 1)
    BY <1>1, <1>2
  <2>2. (n + 1) % CountMod = 0
    BY <1>1, <2>1, RemainderUnique
  <2> QED BY <1>2, <2>2 DEF Counted
<1>3. CASE n + 1 # CountMod
  <2>1. n + 1 = (n + 1) + 0 * CountMod /\ n + 1 \in 0 .. (CountMod - 1)
    BY <1>1, <1>3
  <2>2. (n + 1) % CountMod = n + 1
    BY <1>1, <2>1, RemainderUnique
  <2> QED BY <1>3, <2>2 DEF Counted
<1> QED BY <1>2, <1>3

(* A counter that wraps stays within its width. *)
LEMMA CountedStays ==
    ASSUME NEW n \in 0 .. (CountMod - 1)
    PROVE  Counted(n) \in 0 .. (CountMod - 1)
BY CountedWraps, CountAssumption

-----------------------------------------------------------------------------
(* Type correctness.  A thread that returns a block of its own finds one. *)
LEMMA TypesStep ==
    ASSUME IInv, NEW t \in Threads, Acts(t)
    PROVE  TypeOK' /\ OwnOnlyInside'
<1>0. TypeOK /\ OwnOnlyInside
  BY DEF IInv
<1> USE <1>0 DEF TypeOK
<1>1. CASE CoreGrows(t)
  <2>1. capacity * Factor \in Nat /\ capacity <= capacity * Factor
    <3>1. Factor \in Nat /\ Factor >= 1 /\ capacity \in Nat
      BY CoreAssumption
    <3>2. capacity * Factor = capacity + capacity * (Factor - 1) /\ capacity * (Factor - 1) \in Nat
      BY <3>1
    <3> QED BY <3>1, <3>2
  <2> QED BY <1>1, <2>1 DEF CoreGrows, Goto, OwnOnlyInside, Deallocating, counters, gauges, history
<1>2. CASE CoreVends(t)
  BY <1>2 DEF CoreVends, Goto, OwnOnlyInside, Deallocating, counters, gauges, history
<1>3. CASE CoreExhausted(t)
  BY <1>3 DEF CoreExhausted, Goto, OwnOnlyInside, Deallocating, core, counters, gauges, history
<1>4. CASE CoreFrees(t)
  <2>1. own[t] => vended >= 1
    <3> SUFFICES ASSUME own[t] PROVE vended >= 1
      OBVIOUS
    <3>1. t \in Leaving
      BY <1>4 DEF CoreFrees, Leaving
    <3>2. IsFiniteSet(Leaving)
      BY ThreadAssumption, FS_Subset DEF Leaving
    <3>3. Cardinality(Leaving) # 0
      BY <3>1, <3>2, FS_EmptySet
    <3>4. BlocksPlaced /\ held \in Nat
      BY DEF IInv
    <3> HIDE DEF TypeOK
    <3> QED BY <3>3, <3>4, CountsNatural DEF BlocksPlaced
  <2> QED BY <1>4, <2>1 DEF CoreFrees, Return, EndLoop, Goto, OwnOnlyInside, Deallocating,
                            counters, gauges, history
<1>5. CASE AllocBegin(t)
  BY <1>5 DEF AllocBegin, Goto, OwnOnlyInside, Deallocating, core, counters, gauges, history
<1>6. CASE CountFailure(t)
  BY <1>6, CountedStays
     DEF CountFailure, Return, EndLoop, Goto, OwnOnlyInside, Deallocating, core, gauges, history
<1>7. CASE CountAllocation(t)
  BY <1>7, CountedStays
     DEF CountAllocation, Goto, OwnOnlyInside, Deallocating, core, gauges, history
<1>8. CASE LiveUp(t)
  <2>1. Max({highest, live + 1}) \in Nat
    <3>1. \E x \in {highest, live + 1} : \A y \in {highest, live + 1} : x >= y
      OBVIOUS
    <3> QED BY <3>1 DEF Max
  <2> QED BY <1>8, <2>1 DEF LiveUp, Goto, OwnOnlyInside, Deallocating, core, counters
<1>9. CASE PeakLoad(t) \/ PeakRaised(t) \/ PeakReloaded(t) \/ PeakHigher(t)
  <2>1. CASE PeakLoad(t) \/ PeakReloaded(t)
    BY <2>1 DEF PeakLoad, PeakReloaded, Load, Goto,
                OwnOnlyInside, Deallocating, core, counters, gauges, history
  <2>2. CASE PeakRaised(t)
    BY <2>2 DEF PeakRaised, EndLoop, Goto,
                OwnOnlyInside, Deallocating, core, counters, history
  <2>3. CASE PeakHigher(t)
    BY <2>3 DEF PeakHigher, EndLoop, Goto,
                OwnOnlyInside, Deallocating, core, counters, gauges, history
  <2> QED BY <1>9, <2>1, <2>2, <2>3
<1>10. CASE GrowthsLoad(t) \/ LastLoad(t) \/ GrewClaimed(t) \/ GrewReloaded(t)
            \/ NotifyGrew(t) \/ NotGrown(t)
  <2>1. CASE GrowthsLoad(t) \/ LastLoad(t)
    BY <2>1 DEF GrowthsLoad, LastLoad, Load, Goto, OwnOnlyInside, Deallocating,
                core, counters, gauges, history
  <2>2. CASE GrewClaimed(t) \/ GrewReloaded(t)
    BY <2>2 DEF GrewClaimed, GrewReloaded, Load, Goto, OwnOnlyInside, Deallocating,
                core, counters, gauges, history
  <2>3. CASE NotifyGrew(t)
    <3>1. Claimed(t) \subseteq Nat
      BY DEF Claimed
    <3>2. reported' \subseteq Nat
      BY <2>3, <3>1 DEF NotifyGrew
    <3> QED BY <2>3, <3>2 DEF NotifyGrew, Return, EndLoop, Goto, OwnOnlyInside, Deallocating,
                              core, counters, gauges
  <2>4. CASE NotGrown(t)
    BY <2>4 DEF NotGrown, Return, EndLoop, Goto, OwnOnlyInside, Deallocating,
                core, counters, gauges, history
  <2> QED BY <1>10, <2>1, <2>2, <2>3, <2>4
<1>11. CASE DeallocBegin(t)
  <2>1. /\ held' \in Nat /\ strayed' \in BOOLEAN
        /\ own' = own \/ own' = [own EXCEPT ![t] = TRUE]
        /\ pc' = [pc EXCEPT ![t] = "dealloc"]
    <3>1. held > 0 /\ held' = held - 1 => held' \in Nat
      OBVIOUS
    <3> HIDE DEF TypeOK
    <3>2. held \in Nat /\ strayed \in BOOLEAN
      BY <1>0 DEF TypeOK
    <3> QED BY <1>11, <3>1, <3>2 DEF DeallocBegin, Goto
  <2>2. UNCHANGED <<core, counters, gauges, want, last, highest, reported>>
    BY <1>11 DEF DeallocBegin
  <2>3. own' \in [Threads -> BOOLEAN]
    BY <2>1
  <2>4. TypeOK'
    BY <2>1, <2>2, <2>3 DEF core, counters, gauges
  <2>5. OwnOnlyInside'
    BY <2>1 DEF OwnOnlyInside, Deallocating
  <2> QED BY <2>4, <2>5
<1>12. CASE CountDeallocation(t)
  BY <1>12, CountedStays
     DEF CountDeallocation, Goto, OwnOnlyInside, Deallocating, core, gauges, history
<1>13. CASE LiveLoad(t) \/ LiveDown(t) \/ LiveReloaded(t) \/ LiveClamped(t)
  <2>1. CASE LiveLoad(t) \/ LiveReloaded(t)
    BY <2>1 DEF LiveLoad, LiveReloaded, Load, Goto,
                OwnOnlyInside, Deallocating, core, counters, gauges, history
  <2>2. CASE LiveDown(t)
    BY <2>2 DEF LiveDown, EndLoop, Goto, OwnOnlyInside, Deallocating, core, counters, history
  <2>3. CASE LiveClamped(t)
    BY <2>3 DEF LiveClamped, EndLoop, Goto,
                OwnOnlyInside, Deallocating, core, counters, gauges, history
  <2> QED BY <1>13, <2>1, <2>2, <2>3
<1> QED BY <1>1, <1>2, <1>3, <1>4, <1>5, <1>6, <1>7, <1>8, <1>9, <1>10, <1>11, <1>12, <1>13
        DEF Acts, Step

-----------------------------------------------------------------------------
(* Where a thread is counted. *)
LEMMA Members ==
    ASSUME NEW t \in Threads
    PROVE  /\ t \in Uncounted <=> pc[t] \in {"allocated", "live"}
           /\ t \in Known <=>
                pc[t] \in {"peakload", "peak", "growths", "lastload", "grew", "notify"}
           /\ t \in Coming <=> own[t] /\ pc[t] \in {"dealloc", "liveload", "livecas"}
           /\ t \in Leaving <=> own[t] /\ pc[t] = "free"
           /\ t \in Clamping <=> own[t] /\ pc[t] = "livecas" /\ last[t] = 0
           /\ t \in Entered <=> pc[t] = "live"
           /\ t \in Left <=> own[t] /\ pc[t] \in {"liveload", "livecas"}
BY DEF Uncounted, Known, Coming, Leaving, Clamping, Entered, Left

(* Which of the sets of threads t belongs to after a step follows from where it
   then is. *)
LEMMA MembersNext ==
    ASSUME NEW t \in Threads
    PROVE  /\ t \in Uncounted' <=> pc'[t] \in {"allocated", "live"}
           /\ t \in Known' <=>
                pc'[t] \in {"peakload", "peak", "growths", "lastload", "grew", "notify"}
           /\ t \in Coming' <=> own'[t] /\ pc'[t] \in {"dealloc", "liveload", "livecas"}
           /\ t \in Leaving' <=> own'[t] /\ pc'[t] = "free"
           /\ t \in Clamping' <=> own'[t] /\ pc'[t] = "livecas" /\ last'[t] = 0
           /\ t \in Entered' <=> pc'[t] = "live"
           /\ t \in Left' <=> own'[t] /\ pc'[t] \in {"liveload", "livecas"}
BY DEF Uncounted, Known, Coming, Leaving, Clamping, Entered, Left

BlocksInv == BlocksPlaced /\ LiveBehind /\ LiveTrue /\ TotalsTrue

(* Only blocks are deallocated: so it was before, and so it is for every thread. *)
LEMMA OwnStays ==
    ASSUME IInv, NEW t \in Threads, Acts(t), ~ strayed,
           Deallocating(t)' => own'[t]
    PROVE  \A u \in Threads : Deallocating(u)' => own'[u]
<1>1. TypeOK /\ \A u \in Threads : Deallocating(u) => own[u]
  BY DEF IInv, LiveTrue
<1> QED BY <1>1, OthersStay DEF Deallocating

(* A step that moves no block and changes no count of them. *)
LEMMA BlocksFrame ==
    ASSUME IInv, NEW t \in Threads, Acts(t),
           UNCHANGED <<vended, held, live, allocations, deallocations, strayed>>,
           pc[t] \notin {"allocated", "live", "dealloc", "liveload", "livecas", "free"},
           pc'[t] \notin {"allocated", "live", "dealloc", "liveload", "livecas", "free"},
           t \in Known' <=> t \in Known
    PROVE  BlocksInv'
<1>1. BlocksInv /\ TypeOK
  BY DEF IInv, BlocksInv
<1>2. /\ Cardinality(Uncounted') = Cardinality(Uncounted)
      /\ Cardinality(Known') = Cardinality(Known)
      /\ Cardinality(Coming') = Cardinality(Coming)
      /\ Cardinality(Leaving') = Cardinality(Leaving)
      /\ Cardinality(Clamping') = Cardinality(Clamping)
      /\ Cardinality(Entered') = Cardinality(Entered)
      /\ Cardinality(Left') = Cardinality(Left)
  BY <1>1, CountsMove, CountsNatural, Members, MembersNext
<1>3. BlocksPlaced' /\ LiveBehind'
  BY <1>1, <1>2 DEF BlocksInv, BlocksPlaced, LiveBehind
<1>4. LiveTrue'
  <2>1. ~ Deallocating(t)'
    BY DEF Deallocating
  <2> QED BY <2>1, <1>1, <1>2, OwnStays DEF BlocksInv, LiveTrue
<1>5. TotalsTrue'
  BY <1>1, <1>2 DEF BlocksInv, TotalsTrue
<1> QED BY <1>3, <1>4, <1>5 DEF BlocksInv

(* A step that changes the totals and live_ alike. *)
LEMMA TotalsAlike ==
    ASSUME IInv, strayed => strayed', live' \in Int, allocations' \in Int, deallocations' \in Int,
           Cardinality(Left') \in Int, Cardinality(Entered') \in Int,
           ~ strayed => (allocations' - allocations) + (Cardinality(Left') - Cardinality(Left))
                          = (deallocations' - deallocations) + (live' - live)
                              + (Cardinality(Entered') - Cardinality(Entered))
    PROVE  TotalsTrue'
<1> SUFFICES ASSUME ~ strayed PROVE TotalsTrue'
  BY DEF TotalsTrue
<1>1. PICK k \in Int : allocations + Cardinality(Left) + k * CountMod
                         = deallocations + live + Cardinality(Entered)
  BY DEF IInv, TotalsTrue
<1>2. k * CountMod \in Int
  BY CountAssumption
<1>3. live \in Int /\ allocations \in Int /\ deallocations \in Int
  BY CountAssumption DEF IInv, TypeOK
<1>4. allocations' + Cardinality(Left') + k * CountMod
        = deallocations' + live' + Cardinality(Entered')
  BY <1>1, <1>2, <1>3, CountsNatural
<1> QED BY <1>4 DEF TotalsTrue

(* Some thread returns a block and has not seen live_ at zero. *)
LEMMA ClampingFewer ==
    ASSUME NEW t \in Coming, t \notin Clamping
    PROVE  Cardinality(Clamping) + 1 <= Cardinality(Coming)
<1>1. Clamping \subseteq Coming \ {t}
  BY DEF Clamping, Coming
<1>2. IsFiniteSet(Coming)
  BY ThreadAssumption, FS_Subset DEF Coming
<1>3. Cardinality(Coming \ {t}) = Cardinality(Coming) - 1
  BY <1>2, FS_RemoveElement
<1>4. IsFiniteSet(Coming \ {t}) /\ Cardinality(Clamping) <= Cardinality(Coming \ {t})
  BY <1>1, <1>2, FS_Subset
<1> QED BY <1>3, <1>4, CountsNatural

(* The steps that move a block, or count it. *)
LEMMA BlocksStep ==
    ASSUME IInv, NEW t \in Threads, Acts(t)
    PROVE  BlocksInv'
<1>0. /\ BlocksInv /\ TypeOK
      /\ live \in Nat /\ held \in Nat /\ vended \in Nat /\ last[t] \in Nat
      /\ own[t] \in BOOLEAN
      /\ allocations \in 0 .. (CountMod - 1) /\ deallocations \in 0 .. (CountMod - 1)
      /\ CountMod \in Nat \ {0}
      /\ pc[t] = "idle" => ~ own[t]
      /\ ~ strayed /\ Deallocating(t) => own[t]
  BY CountAssumption DEF IInv, BlocksInv, TypeOK, OwnOnlyInside, Deallocating, LiveTrue
<1>1. CASE CoreVends(t)
  <2>1. /\ pc[t] \in {"core", "grown"} /\ pc'[t] = "allocated" /\ own'[t] = own[t]
    BY <1>0, <1>1 DEF CoreVends, Goto, TypeOK
  <2>2. /\ vended' = vended + 1
        /\ UNCHANGED <<held, live, allocations, deallocations, strayed>>
    BY <1>1 DEF CoreVends, Goto, core, counters, gauges, history
  <2>3. /\ Cardinality(Uncounted') = Cardinality(Uncounted) + 1
        /\ Cardinality(Known') = Cardinality(Known)
        /\ Cardinality(Coming') = Cardinality(Coming)
        /\ Cardinality(Leaving') = Cardinality(Leaving)
        /\ Cardinality(Clamping') = Cardinality(Clamping)
        /\ Cardinality(Entered') = Cardinality(Entered)
        /\ Cardinality(Left') = Cardinality(Left)
    BY <1>0, <2>1, CountsMove, CountsNatural, Members, MembersNext
  <2>4. BlocksPlaced' /\ LiveBehind'
    BY <1>0, <2>1, <2>2, <2>3, CountsNatural DEF BlocksInv, BlocksPlaced, LiveBehind
  <2>5. LiveTrue'
    <3>1. ~ strayed => \A o \in Threads : Deallocating(o)' => own'[o]
      BY <1>0, <2>1, OwnStays DEF Deallocating
    <3> QED BY <1>0, <2>1, <2>2, <2>3, <3>1, CountsNatural DEF BlocksInv, LiveTrue, LiveBehind, Deallocating
  <2>6. TotalsTrue'
    <3>1. ~ strayed /\ Deallocating(t) => own[t]
      BY <1>0
    <3> QED BY <1>0, <2>1, <2>2, <2>3, <3>1, CountsNatural, TotalsAlike DEF Deallocating
  <2> QED BY <2>4, <2>5, <2>6 DEF BlocksInv
<1>2. CASE CoreFrees(t)
  <2>1. /\ pc[t] = "free" /\ pc'[t] = "idle" /\ ~ own'[t]
    BY <1>0, <1>2 DEF CoreFrees, Return, EndLoop, Goto, TypeOK
  <2>2. /\ vended' = IF own[t] THEN vended - 1 ELSE vended
        /\ UNCHANGED <<held, live, allocations, deallocations, strayed>>
    BY <1>2 DEF CoreFrees, Return, EndLoop, Goto, core, counters, gauges, history
  <2>3. /\ Cardinality(Uncounted') = Cardinality(Uncounted)
        /\ Cardinality(Known') = Cardinality(Known)
        /\ Cardinality(Coming') = Cardinality(Coming)
        /\ Cardinality(Leaving') = Cardinality(Leaving) - (IF own[t] THEN 1 ELSE 0)
        /\ Cardinality(Clamping') = Cardinality(Clamping)
        /\ Cardinality(Entered') = Cardinality(Entered)
        /\ Cardinality(Left') = Cardinality(Left)
    BY <1>0, <2>1, CountsMove, CountsNatural, Members, MembersNext
  <2>4. BlocksPlaced' /\ LiveBehind'
    BY <1>0, <2>1, <2>2, <2>3, CountsNatural DEF BlocksInv, BlocksPlaced, LiveBehind
  <2>5. LiveTrue'
    <3>1. ~ strayed => \A o \in Threads : Deallocating(o)' => own'[o]
      BY <1>0, <2>1, OwnStays DEF Deallocating
    <3> QED BY <1>0, <2>1, <2>2, <2>3, <3>1, CountsNatural DEF BlocksInv, LiveTrue, LiveBehind, Deallocating
  <2>6. TotalsTrue'
    <3>1. ~ strayed /\ Deallocating(t) => own[t]
      BY <1>0
    <3> QED BY <1>0, <2>1, <2>2, <2>3, <3>1, CountsNatural, TotalsAlike DEF Deallocating
  <2> QED BY <2>4, <2>5, <2>6 DEF BlocksInv
<1>3. CASE CountAllocation(t)
  <2>1. /\ pc[t] = "allocated" /\ pc'[t] = "live" /\ own'[t] = own[t]
    BY <1>0, <1>3 DEF CountAllocation, Goto, TypeOK
  <2>2. /\ allocations' = Counted(allocations)
        /\ UNCHANGED <<vended, held, live, deallocations, strayed>>
    BY <1>3 DEF CountAllocation, Goto, core, counters, gauges, history
  <2>3. /\ Cardinality(Uncounted') = Cardinality(Uncounted)
        /\ Cardinality(Known') = Cardinality(Known)
        /\ Cardinality(Coming') = Cardinality(Coming)
        /\ Cardinality(Leaving') = Cardinality(Leaving)
        /\ Cardinality(Clamping') = Cardinality(Clamping)
        /\ Cardinality(Entered') = Cardinality(Entered) + 1
        /\ Cardinality(Left') = Cardinality(Left)
    BY <1>0, <2>1, CountsMove, CountsNatural, Members, MembersNext
  <2>4. BlocksPlaced' /\ LiveBehind'
    BY <1>0, <2>1, <2>2, <2>3, CountsNatural DEF BlocksInv, BlocksPlaced, LiveBehind
  <2>5. LiveTrue'
    <3>1. ~ strayed => \A o \in Threads : Deallocating(o)' => own'[o]
      BY <1>0, <2>1, OwnStays DEF Deallocating
    <3> QED BY <1>0, <2>1, <2>2, <2>3, <3>1, CountsNatural DEF BlocksInv, LiveTrue, LiveBehind, Deallocating
  <2>6. TotalsTrue'
    <3> SUFFICES ASSUME ~ strayed PROVE TotalsTrue'
      BY <2>2 DEF TotalsTrue
    <3>1. PICK k \in Int : allocations + Cardinality(Left) + k * CountMod
                             = deallocations + live + Cardinality(Entered)
      BY <1>0 DEF BlocksInv, TotalsTrue
    <3>2. allocations' = allocations + 1 \/ allocations' = allocations + 1 - CountMod
      BY <1>0, <2>2, CountedWraps
    <3>3. PICK m \in Int : /\ k * CountMod = m
                           /\ (k + 1) * CountMod = m + CountMod /\ (k - 1) * CountMod = m - CountMod
      BY <1>0
    <3>4. /\ CountMod \in Int /\ k + 1 \in Int /\ k - 1 \in Int
          /\ allocations \in Int /\ deallocations \in Int /\ live \in Int
          /\ Cardinality(Left) \in Int /\ Cardinality(Entered) \in Int
      BY <1>0, CountsNatural
    <3>7. allocations + Cardinality(Left) + m = deallocations + live + Cardinality(Entered)
      BY <3>1, <3>3
    <3> DEFINE Balance(x) == allocations' + Cardinality(Left') + x
                               = deallocations' + live' + Cardinality(Entered')
    <3>6. Balance(m) \/ Balance(m + CountMod)
      <4>1. /\ deallocations' = deallocations /\ live' = live
            /\ Cardinality(Left') = Cardinality(Left)
            /\ Cardinality(Entered') = Cardinality(Entered) + 1
        BY <2>2, <2>3
      <4>2. CASE allocations' = allocations + 1
        BY <3>7, <3>4, <4>1, <4>2
      <4>3. CASE allocations' = allocations + 1 - CountMod
        BY <3>7, <3>4, <4>1, <4>3
      <4> QED BY <3>2, <4>2, <4>3
    <3> QED BY <3>3, <3>4, <3>6 DEF TotalsTrue
  <2> QED BY <2>4, <2>5, <2>6 DEF BlocksInv
<1>4. CASE LiveUp(t)
  <2>1. /\ pc[t] = "live" /\ pc'[t] = "peakload" /\ own'[t] = own[t]
    BY <1>0, <1>4 DEF LiveUp, Goto, TypeOK
  <2>2. /\ live' = live + 1
        /\ UNCHANGED <<vended, held, allocations, deallocations, strayed>>
    BY <1>4 DEF LiveUp, Goto, core, counters, gauges, history
  <2>3. /\ Cardinality(Uncounted') = Cardinality(Uncounted) - 1
        /\ Cardinality(Known') = Cardinality(Known) + 1
        /\ Cardinality(Coming') = Cardinality(Coming)
        /\ Cardinality(Leaving') = Cardinality(Leaving)
        /\ Cardinality(Clamping') = Cardinality(Clamping)
        /\ Cardinality(Entered') = Cardinality(Entered) - 1
        /\ Cardinality(Left') = Cardinality(Left)
    BY <1>0, <2>1, CountsMove, CountsNatural, Members, MembersNext
  <2>4. BlocksPlaced' /\ LiveBehind'
    BY <1>0, <2>1, <2>2, <2>3, CountsNatural DEF BlocksInv, BlocksPlaced, LiveBehind
  <2>5. LiveTrue'
    <3>1. ~ strayed => \A o \in Threads : Deallocating(o)' => own'[o]
      BY <1>0, <2>1, OwnStays DEF Deallocating
    <3> QED BY <1>0, <2>1, <2>2, <2>3, <3>1, CountsNatural DEF BlocksInv, LiveTrue, LiveBehind, Deallocating
  <2>6. TotalsTrue'
    <3>1. ~ strayed /\ Deallocating(t) => own[t]
      BY <1>0
    <3> QED BY <1>0, <2>1, <2>2, <2>3, <3>1, CountsNatural, TotalsAlike DEF Deallocating
  <2> QED BY <2>4, <2>5, <2>6 DEF BlocksInv
<1>5. CASE NotifyGrew(t) \/ NotGrown(t)
  <2>1. /\ pc[t] \in {"notify", "grew"} /\ pc'[t] = "idle" /\ ~ own'[t]
    BY <1>0, <1>5 DEF NotifyGrew, NotGrown, Return, EndLoop, Goto, TypeOK
  <2>2. /\ held' = held + 1
        /\ UNCHANGED <<vended, live, allocations, deallocations, strayed>>
    BY <1>5 DEF NotifyGrew, NotGrown, Return, EndLoop, Goto, core, counters, gauges, history
  <2>3. /\ Cardinality(Uncounted') = Cardinality(Uncounted)
        /\ Cardinality(Known') = Cardinality(Known) - 1
        /\ Cardinality(Coming') = Cardinality(Coming)
        /\ Cardinality(Leaving') = Cardinality(Leaving)
        /\ Cardinality(Clamping') = Cardinality(Clamping)
        /\ Cardinality(Entered') = Cardinality(Entered)
        /\ Cardinality(Left') = Cardinality(Left)
    BY <1>0, <2>1, CountsMove, CountsNatural, Members, MembersNext
  <2>4. BlocksPlaced' /\ LiveBehind'
    BY <1>0, <2>1, <2>2, <2>3, CountsNatural DEF BlocksInv, BlocksPlaced, LiveBehind
  <2>5. LiveTrue'
    <3>1. ~ strayed => \A o \in Threads : Deallocating(o)' => own'[o]
      BY <1>0, <2>1, OwnStays DEF Deallocating
    <3> QED BY <1>0, <2>1, <2>2, <2>3, <3>1, CountsNatural DEF BlocksInv, LiveTrue, LiveBehind, Deallocating
  <2>6. TotalsTrue'
    <3>1. ~ strayed /\ Deallocating(t) => own[t]
      BY <1>0
    <3> QED BY <1>0, <2>1, <2>2, <2>3, <3>1, CountsNatural, TotalsAlike DEF Deallocating
  <2> QED BY <2>4, <2>5, <2>6 DEF BlocksInv
<1>6. CASE DeallocBegin(t) /\ own'[t]
  <2>1. /\ pc[t] = "idle" /\ pc'[t] = "dealloc" /\ ~ own[t] /\ own'[t]
    BY <1>0, <1>6 DEF DeallocBegin, Goto, TypeOK
  <2>2. /\ held' = held - 1 /\ held > 0
        /\ UNCHANGED <<vended, live, allocations, deallocations, strayed>>
    BY <1>6, <2>1 DEF DeallocBegin, core, counters, gauges
  <2>3. /\ Cardinality(Uncounted') = Cardinality(Uncounted)
        /\ Cardinality(Known') = Cardinality(Known)
        /\ Cardinality(Coming') = Cardinality(Coming) + 1
        /\ Cardinality(Leaving') = Cardinality(Leaving)
        /\ Cardinality(Clamping') = Cardinality(Clamping)
        /\ Cardinality(Entered') = Cardinality(Entered)
        /\ Cardinality(Left') = Cardinality(Left)
    BY <1>0, <2>1, CountsMove, CountsNatural, Members, MembersNext
  <2>4. BlocksPlaced' /\ LiveBehind'
    BY <1>0, <2>1, <2>2, <2>3, CountsNatural DEF BlocksInv, BlocksPlaced, LiveBehind
  <2>5. LiveTrue'
    <3>1. ~ strayed => \A o \in Threads : Deallocating(o)' => own'[o]
      BY <1>0, <2>1, OwnStays DEF Deallocating
    <3> QED BY <1>0, <2>1, <2>2, <2>3, <3>1, CountsNatural DEF BlocksInv, LiveTrue, LiveBehind, Deallocating
  <2>6. TotalsTrue'
    <3>1. ~ strayed /\ Deallocating(t) => own[t]
      BY <1>0
    <3> QED BY <1>0, <2>1, <2>2, <2>3, <3>1, CountsNatural, TotalsAlike DEF Deallocating
  <2> QED BY <2>4, <2>5, <2>6 DEF BlocksInv
<1>7. CASE CountDeallocation(t)
  <2>1. /\ pc[t] = "dealloc" /\ pc'[t] = "liveload" /\ own'[t] = own[t]
    BY <1>0, <1>7 DEF CountDeallocation, Goto, TypeOK
  <2>2. /\ deallocations' = Counted(deallocations)
        /\ UNCHANGED <<vended, held, live, allocations, strayed>>
    BY <1>7 DEF CountDeallocation, Goto, core, counters, gauges, history
  <2>3. /\ Cardinality(Uncounted') = Cardinality(Uncounted)
        /\ Cardinality(Known') = Cardinality(Known)
        /\ Cardinality(Coming') = Cardinality(Coming)
        /\ Cardinality(Leaving') = Cardinality(Leaving)
        /\ Cardinality(Clamping') = Cardinality(Clamping)
        /\ Cardinality(Entered') = Cardinality(Entered)
        /\ Cardinality(Left') = Cardinality(Left) + (IF own[t] THEN 1 ELSE 0)
    BY <1>0, <2>1, CountsMove, CountsNatural, Members, MembersNext
  <2>4. BlocksPlaced' /\ LiveBehind'
    BY <1>0, <2>1, <2>2, <2>3, CountsNatural DEF BlocksInv, BlocksPlaced, LiveBehind
  <2>5. LiveTrue'
    <3>1. ~ strayed => \A o \in Threads : Deallocating(o)' => own'[o]
      BY <1>0, <2>1, OwnStays DEF Deallocating
    <3> QED BY <1>0, <2>1, <2>2, <2>3, <3>1, CountsNatural DEF BlocksInv, LiveTrue, LiveBehind, Deallocating
  <2>6. TotalsTrue'
    <3> SUFFICES ASSUME ~ strayed PROVE TotalsTrue'
      BY <2>2 DEF TotalsTrue
    <3>1. PICK k \in Int : allocations + Cardinality(Left) + k * CountMod
                             = deallocations + live + Cardinality(Entered)
      BY <1>0 DEF BlocksInv, TotalsTrue
    <3>2. deallocations' = deallocations + 1 \/ deallocations' = deallocations + 1 - CountMod
      BY <1>0, <2>2, CountedWraps
    <3>3. PICK m \in Int : /\ k * CountMod = m
                           /\ (k + 1) * CountMod = m + CountMod /\ (k - 1) * CountMod = m - CountMod
      BY <1>0
    <3>4. /\ CountMod \in Int /\ k + 1 \in Int /\ k - 1 \in Int
          /\ allocations \in Int /\ deallocations \in Int /\ live \in Int
          /\ Cardinality(Left) \in Int /\ Cardinality(Entered) \in Int
      BY <1>0, CountsNatural
    <3>5. own[t]
      BY <1>0, <2>1 DEF Deallocating
    <3>7. allocations + Cardinality(Left) + m = deallocations + live + Cardinality(Entered)
      BY <3>1, <3>3
    <3> DEFINE Balance(x) == allocations' + Cardinality(Left') + x
                               = deallocations' + live' + Cardinality(Entered')
    <3>6. Balance(m) \/ Balance(m - CountMod)
      <4>1. /\ allocations' = allocations /\ live' = live
            /\ Cardinality(Left') = Cardinality(Left) + 1
            /\ Cardinality(Entered') = Cardinality(Entered)
        BY <2>2, <2>3, <3>5
      <4>2. CASE deallocations' = deallocations + 1
        BY <3>7, <3>4, <4>1, <4>2
      <4>3. CASE deallocations' = deallocations + 1 - CountMod
        BY <3>7, <3>4, <4>1, <4>3
      <4> QED BY <3>2, <4>2, <4>3
    <3> QED BY <3>3, <3>4, <3>6 DEF TotalsTrue
  <2> QED BY <2>4, <2>5, <2>6 DEF BlocksInv
<1>8. CASE LiveLoad(t) \/ LiveReloaded(t)
  <2>1. /\ pc[t] \in {"liveload", "livecas"} /\ pc'[t] = "livecas" /\ own'[t] = own[t]
        /\ (pc[t] = "livecas" => last[t] > 0) /\ last'[t] = live
    BY <1>0, <1>8 DEF LiveLoad, LiveReloaded, Load, Goto, TypeOK
  <2>2. /\ UNCHANGED <<vended, held, live, allocations, deallocations, strayed>>
    BY <1>8 DEF LiveLoad, LiveReloaded, Load, Goto, core, counters, gauges, history
  <2>3. /\ Cardinality(Uncounted') = Cardinality(Uncounted)
        /\ Cardinality(Known') = Cardinality(Known)
        /\ Cardinality(Coming') = Cardinality(Coming)
        /\ Cardinality(Leaving') = Cardinality(Leaving)
        /\ Cardinality(Clamping') = Cardinality(Clamping) + (IF own[t] /\ live = 0 THEN 1 ELSE 0)
        /\ Cardinality(Entered') = Cardinality(Entered)
        /\ Cardinality(Left') = Cardinality(Left)
    BY <1>0, <2>1, CountsMove, CountsNatural, Members, MembersNext
  <2>4. BlocksPlaced' /\ LiveBehind'
    BY <1>0, <2>1, <2>2, <2>3, CountsNatural, Members, ClampingFewer DEF BlocksInv, BlocksPlaced, LiveBehind
  <2>5. LiveTrue'
    <3>1. ~ strayed => \A o \in Threads : Deallocating(o)' => own'[o]
      BY <1>0, <2>1, OwnStays DEF Deallocating
    <3> QED BY <1>0, <2>1, <2>2, <2>3, <3>1, CountsNatural DEF BlocksInv, LiveTrue, LiveBehind, Deallocating
  <2>6. TotalsTrue'
    <3>1. ~ strayed /\ Deallocating(t) => own[t]
      BY <1>0
    <3> QED BY <1>0, <2>1, <2>2, <2>3, <3>1, CountsNatural, TotalsAlike DEF Deallocating
  <2> QED BY <2>4, <2>5, <2>6 DEF BlocksInv
<1>9. CASE LiveDown(t)
  <2>1. /\ pc[t] = "livecas" /\ pc'[t] = "free" /\ own'[t] = own[t] /\ last[t] > 0
    BY <1>0, <1>9 DEF LiveDown, EndLoop, Goto, TypeOK
  <2>2. /\ live' = live - 1
        /\ UNCHANGED <<vended, held, allocations, deallocations, strayed>>
    BY <1>9 DEF LiveDown, EndLoop, Goto, core, counters, gauges, history
  <2>3. /\ Cardinality(Uncounted') = Cardinality(Uncounted)
        /\ Cardinality(Known') = Cardinality(Known)
        /\ Cardinality(Coming') = Cardinality(Coming) - (IF own[t] THEN 1 ELSE 0)
        /\ Cardinality(Leaving') = Cardinality(Leaving) + (IF own[t] THEN 1 ELSE 0)
        /\ Cardinality(Clamping') = Cardinality(Clamping)
        /\ Cardinality(Entered') = Cardinality(Entered)
        /\ Cardinality(Left') = Cardinality(Left) - (IF own[t] THEN 1 ELSE 0)
    BY <1>0, <2>1, CountsMove, CountsNatural, Members, MembersNext
  <2>4. BlocksPlaced' /\ LiveBehind'
    BY <1>0, <2>1, <2>2, <2>3, CountsNatural DEF BlocksInv, BlocksPlaced, LiveBehind
  <2>5. LiveTrue'
    <3>1. ~ strayed => \A o \in Threads : Deallocating(o)' => own'[o]
      BY <1>0, <2>1, OwnStays DEF Deallocating
    <3> QED BY <1>0, <2>1, <2>2, <2>3, <3>1, CountsNatural DEF BlocksInv, LiveTrue, LiveBehind, Deallocating
  <2>6. TotalsTrue'
    <3>1. ~ strayed /\ Deallocating(t) => own[t]
      BY <1>0
    <3> QED BY <1>0, <2>1, <2>2, <2>3, <3>1, CountsNatural, TotalsAlike DEF Deallocating
  <2> QED BY <2>4, <2>5, <2>6 DEF BlocksInv
<1>10. CASE LiveClamped(t)
  <2>1. /\ pc[t] = "livecas" /\ pc'[t] = "free" /\ own'[t] = own[t] /\ last[t] = 0
    BY <1>0, <1>10 DEF LiveClamped, EndLoop, Goto, TypeOK
  <2>2. /\ UNCHANGED <<vended, held, live, allocations, deallocations, strayed>>
    BY <1>10 DEF LiveClamped, EndLoop, Goto, core, counters, gauges, history
  <2>3. /\ Cardinality(Uncounted') = Cardinality(Uncounted)
        /\ Cardinality(Known') = Cardinality(Known)
        /\ Cardinality(Coming') = Cardinality(Coming) - (IF own[t] THEN 1 ELSE 0)
        /\ Cardinality(Leaving') = Cardinality(Leaving) + (IF own[t] THEN 1 ELSE 0)
        /\ Cardinality(Clamping') = Cardinality(Clamping) - (IF own[t] THEN 1 ELSE 0)
        /\ Cardinality(Entered') = Cardinality(Entered)
        /\ Cardinality(Left') = Cardinality(Left) - (IF own[t] THEN 1 ELSE 0)
    BY <1>0, <2>1, CountsMove, CountsNatural, Members, MembersNext
  <2>0. ~ strayed => FALSE
    <3>1. ~ strayed => own[t] /\ Cardinality(Clamping) >= 1
      BY <1>0, <2>1, <2>3, CountsMove, CountsNatural DEF Deallocating
    <3>2. ~ strayed => Cardinality(Clamping) = 0
      BY <1>0, CountsNatural DEF BlocksInv, LiveBehind, LiveTrue
    <3> QED BY <3>1, <3>2
  <2>4. BlocksPlaced' /\ LiveBehind'
    BY <1>0, <2>1, <2>2, <2>3, CountsNatural DEF BlocksInv, BlocksPlaced, LiveBehind
  <2>5. LiveTrue' /\ TotalsTrue'
    BY <2>0, <2>2 DEF LiveTrue, TotalsTrue
  <2> QED BY <2>4, <2>5 DEF BlocksInv
<1>11. CASE \/ CoreGrows(t) \/ CoreExhausted(t) \/ AllocBegin(t) \/ CountFailure(t)
  <2>1. /\ pc[t] \in {"idle", "core", "failed"} /\ pc'[t] \in {"idle", "core", "failed", "grown"}
        /\ UNCHANGED <<vended, held, live, allocations, deallocations, strayed>>
    BY <1>0, <1>11 DEF CoreGrows, CoreExhausted, AllocBegin, CountFailure, Return, EndLoop, Goto,
                       TypeOK, core, counters, gauges, history
  <2>2. t \in Known' <=> t \in Known
    BY <2>1 DEF Known
  <2> QED BY <2>1, <2>2, BlocksFrame
<1>12. CASE \/ PeakLoad(t) \/ PeakRaised(t) \/ PeakReloaded(t) \/ PeakHigher(t)
            \/ GrowthsLoad(t) \/ LastLoad(t) \/ GrewClaimed(t) \/ GrewReloaded(t)
  <2>1. /\ pc[t] \in {"peakload", "peak", "growths", "lastload", "grew"}
        /\ pc'[t] \in {"peakload", "peak", "growths", "lastload", "grew", "notify"}
        /\ UNCHANGED <<vended, held, live, allocations, deallocations, strayed>>
    BY <1>0, <1>12
       DEF PeakLoad, PeakRaised, PeakReloaded, PeakHigher, GrowthsLoad, LastLoad, GrewClaimed,
           GrewReloaded, EndLoop, Goto, Load, TypeOK, core, counters, gauges, history
  <2>2. t \in Known' <=> t \in Known
    BY <2>1 DEF Known
  <2> QED BY <2>1, <2>2, BlocksFrame
<1>13. CASE DeallocBegin(t) /\ ~ own'[t]
  <2>1. pc[t] = "idle" /\ pc'[t] = "dealloc" /\ ~ own[t] /\ ~ own'[t]
    BY <1>0, <1>13 DEF DeallocBegin, Goto, TypeOK
  <2>2. strayed' = TRUE /\ UNCHANGED <<vended, held, live>>
    BY <1>0, <1>13 DEF DeallocBegin, core, gauges, TypeOK
  <2>3. /\ Cardinality(Uncounted') = Cardinality(Uncounted)
        /\ Cardinality(Known') = Cardinality(Known)
        /\ Cardinality(Coming') = Cardinality(Coming)
        /\ Cardinality(Leaving') = Cardinality(Leaving)
        /\ Cardinality(Clamping') = Cardinality(Clamping)
    BY <1>0, <2>1, CountsMove, CountsNatural, Members, MembersNext
  <2> QED BY <1>0, <2>2, <2>3 DEF BlocksInv, BlocksPlaced, LiveBehind, LiveTrue, TotalsTrue
<1> QED BY <1>1, <1>2, <1>3, <1>4, <1>5, <1>6, <1>7, <1>8, <1>9, <1>10, <1>11, <1>12, <1>13
        DEF Acts, Step

-----------------------------------------------------------------------------
(* The high-water mark. *)

(* A member that no other exceeds is the maximum. *)
LEMMA MaxIsGreatest ==
    ASSUME NEW S, NEW m \in S, \A x \in S : x \in Nat /\ x <= m
    PROVE  Max(S) = m
<1>1. \A y \in S : m >= y
  OBVIOUS
<1>2. Max(S) \in S /\ \A y \in S : Max(S) >= y
  BY <1>1 DEF Max
<1> QED BY <1>1, <1>2

(* What live_ rises to is within the pool: the block that t counts was handed out. *)
LEMMA LiveUpBounded ==
    ASSUME IInv, NEW t \in Threads, LiveUp(t)
    PROVE  live + 1 <= capacity
<1>1. t \in Uncounted /\ IsFiniteSet(Uncounted)
  BY ThreadAssumption, FS_Subset DEF LiveUp, Uncounted
<1>2. Cardinality(Uncounted) # 0
  BY <1>1, FS_EmptySet
<1>3. live \in Nat /\ held \in Nat /\ vended \in Nat /\ vended <= capacity /\ capacity \in Nat
  BY DEF IInv, TypeOK
<1>4. BlocksPlaced /\ LiveBehind
  BY DEF IInv
<1>5. live + 1 <= vended
  BY <1>2, <1>3, <1>4, CountsNatural DEF BlocksPlaced, LiveBehind
<1> QED BY <1>3, <1>5

PeakInv == PeakBounded /\ PeakMarked

(* A step of a thread that is not raising the mark. *)
LEMMA PeakFrame ==
    ASSUME IInv, NEW t \in Threads, Acts(t), UNCHANGED <<peak_live, highest>>,
           capacity' \in Nat, capacity <= capacity',
           pc[t] \notin {"peakload", "peak"}, pc'[t] \notin {"peakload", "peak"}
    PROVE  PeakInv'
<1>0. PeakBounded /\ PeakMarked /\ TypeOK
  BY DEF IInv
<1>1. \A o \in Threads \ {t} : pc'[o] = pc[o] /\ last'[o] = last[o] /\ want'[o] = want[o]
  BY <1>0, OthersStay
<1>2. Raising' = Raising /\ t \notin Raising
  BY <1>1 DEF Raising
<1>3. \A o \in Raising : want'[o] = want[o] /\ want[o] \in Nat
  BY <1>0, <1>1, <1>2 DEF Raising, TypeOK
<1>4. peak_live \in Nat /\ capacity \in Nat
  BY <1>0 DEF TypeOK
<1>5. PeakBounded'
  BY <1>0, <1>2, <1>3, <1>4 DEF PeakBounded
<1>6. PeakMarked'
  BY <1>0, <1>1, <1>2, <1>3 DEF PeakMarked
<1> QED BY <1>5, <1>6 DEF PeakInv

(* Every step preserves the high-water mark: peak_live_ is highest, or a thread
   is about to raise it. *)
LEMMA PeakStep ==
    ASSUME IInv, NEW t \in Threads, Acts(t)
    PROVE  PeakInv'
<1>0. PeakBounded /\ PeakMarked /\ TypeOK /\ TypeOK'
  BY TypesStep DEF IInv
<1>a. \A o \in Threads \ {t} : pc'[o] = pc[o] /\ last'[o] = last[o] /\ want'[o] = want[o]
  BY <1>0, OthersStay
<1>b. /\ peak_live \in Nat /\ highest \in Nat /\ capacity \in Nat /\ live \in Nat
      /\ \A o \in Threads : want[o] \in Nat /\ last[o] \in Nat
      /\ peak_live' \in Nat /\ highest' \in Nat
  BY <1>0 DEF TypeOK
<1>1. CASE LiveUp(t)
  <2>1. /\ pc[t] = "live" /\ pc'[t] = "peakload" /\ want'[t] = live + 1
        /\ highest' = Max({highest, live + 1})
        /\ UNCHANGED <<capacity, peak_live>>
    BY <1>0, <1>1 DEF LiveUp, Goto, TypeOK, core
  <2>2. Raising' = Raising \cup {t} /\ t \notin Raising
    BY <1>a, <2>1 DEF Raising
  <2>3. \A o \in Raising : want'[o] = want[o]
    BY <1>a, <2>2 DEF Raising
  <2>4. highest' \in {highest, live + 1} /\ highest' >= highest /\ highest' >= live + 1
    <3>1. CASE highest >= live + 1
      BY <3>1, <2>1, <1>b, MaxIsGreatest
    <3>2. CASE highest < live + 1
      <4>1. \A x \in {highest, live + 1} : x \in Nat /\ x <= live + 1
        BY <3>2, <1>b
      <4>2. Max({highest, live + 1}) = live + 1
        BY <4>1, MaxIsGreatest
      <4> QED BY <4>2, <3>2, <2>1, <1>b
    <3> QED BY <3>1, <3>2, <1>b
  <2>5. PeakBounded'
    BY <1>0, <1>1, <2>1, <2>2, <2>3, LiveUpBounded DEF PeakBounded
  <2>6. PeakMarked'
    <3> DEFINE marks == {peak_live} \cup {want[o] : o \in Raising}
    <3>1. marks' = marks \cup {live + 1}
      BY <2>1, <2>2, <2>3
    <3>2. \A m \in marks : m \in Nat
      BY <1>b DEF Raising
    <3>3. highest \in marks /\ \A m \in marks : m <= highest
      BY <1>0 DEF PeakMarked
    <3>4. \A o \in Threads : pc'[o] = "peak" => last'[o] <= peak_live'
      BY <1>0, <1>a, <2>1 DEF PeakMarked
    <3> HIDE DEF marks
    <3>5. highest' \in marks' /\ \A m \in marks' : m <= highest'
      BY <1>b, <2>4, <3>1, <3>2, <3>3
    <3> QED BY <3>4, <3>5 DEF PeakMarked, marks
  <2> QED BY <2>5, <2>6 DEF PeakInv
<1>2. CASE PeakLoad(t) \/ PeakReloaded(t)
  <2>1. /\ pc[t] \in {"peakload", "peak"} /\ pc'[t] = "peak" /\ last'[t] = peak_live
        /\ want' = want /\ UNCHANGED <<capacity, peak_live, highest>>
    BY <1>0, <1>2 DEF PeakLoad, PeakReloaded, Load, Goto, TypeOK, core, gauges, history
  <2>2. Raising' = Raising
    BY <1>a, <2>1 DEF Raising
  <2>3. PeakBounded'
    BY <1>0, <2>1, <2>2 DEF PeakBounded
  <2>4. PeakMarked'
    BY <1>0, <1>a, <1>b, <2>1, <2>2 DEF PeakMarked
  <2> QED BY <2>3, <2>4 DEF PeakInv
<1>3. CASE PeakRaised(t) \/ PeakHigher(t)
  <2>1. /\ pc[t] = "peak" /\ pc'[t] = "growths"
        /\ \/ peak_live < want[t] /\ peak_live' = want[t]
           \/ want[t] <= last[t] /\ peak_live' = peak_live
        /\ UNCHANGED <<capacity, highest>>
    BY <1>0, <1>3, <1>b DEF PeakRaised, PeakHigher, Goto, TypeOK, core, gauges, history
  <2>2. Raising' = Raising \ {t} /\ t \in Raising
    BY <1>a, <2>1 DEF Raising
  <2>3. \A o \in Raising \ {t} : want'[o] = want[o]
    BY <1>a DEF Raising
  <2>4. last[t] <= peak_live
    BY <1>0, <2>1 DEF PeakMarked
  <2>5. peak_live <= peak_live' /\ want[t] <= peak_live' /\ peak_live' \in {peak_live, want[t]}
    BY <1>b, <2>1, <2>4
  <2>6. PeakBounded'
    BY <1>0, <1>b, <2>1, <2>2, <2>3, <2>5 DEF PeakBounded
  <2>7. PeakMarked'
    <3> DEFINE marks == {peak_live} \cup {want[o] : o \in Raising}
    <3>1. \A m : m \in marks' <=> m = peak_live' \/ \E o \in Raising \ {t} : m = want[o]
      BY <2>2, <2>3
    <3>2. \A m : m \in marks <=> m = peak_live \/ m = want[t] \/ \E o \in Raising \ {t} : m = want[o]
      BY <2>2
    <3>3. highest \in marks /\ \A m \in marks : m <= highest
      BY <1>0 DEF PeakMarked
    <3>4. \A o \in Threads : pc'[o] = "peak" => last'[o] <= peak_live'
      BY <1>0, <1>a, <1>b, <2>1, <2>5 DEF PeakMarked
    <3> HIDE DEF marks
    <3>5. \A m \in marks' : m <= highest'
      BY <2>1, <2>5, <3>1, <3>2, <3>3
    <3>6. highest' \in marks'
      <4>1. CASE highest \in {peak_live, want[t]}
        <5>1. highest = peak_live'
          BY <4>1, <1>b, <2>5, <3>2, <3>3
        <5> QED BY <5>1, <2>1, <3>1
      <4>2. CASE highest \notin {peak_live, want[t]}
        BY <4>2, <2>1, <3>1, <3>2, <3>3
      <4> QED BY <4>1, <4>2
    <3> QED BY <3>4, <3>5, <3>6 DEF PeakMarked, marks
  <2> QED BY <2>6, <2>7 DEF PeakInv
<1>4. CASE CoreGrows(t)
  <2>1. capacity' = capacity * Factor /\ UNCHANGED <<peak_live, highest>>
        /\ pc[t] = "core" /\ pc'[t] = "grown"
    BY <1>0, <1>4 DEF CoreGrows, Goto, TypeOK, gauges, history
  <2>2. capacity <= capacity' /\ capacity' \in Nat
    <3>1. Factor \in Nat /\ Factor >= 1
      BY CoreAssumption
    <3>2. capacity * Factor = capacity + capacity * (Factor - 1) /\ capacity * (Factor - 1) \in Nat
      BY <1>b, <3>1
    <3> QED BY <1>b, <2>1, <3>1, <3>2
  <2> QED BY <2>1, <2>2, PeakFrame
<1>5. CASE \/ CoreVends(t) \/ CoreExhausted(t) \/ CoreFrees(t) \/ CountFailure(t)
           \/ CountAllocation(t) \/ NotifyGrew(t) \/ NotGrown(t) \/ AllocBegin(t)
  <2>1. /\ UNCHANGED <<capacity, peak_live, highest>>
        /\ pc[t] \notin {"peakload", "peak"} /\ pc'[t] \notin {"peakload", "peak"}
    BY <1>0, <1>5 DEF CoreVends, CoreExhausted, CoreFrees, CountFailure, CountAllocation,
           NotifyGrew, NotGrown, AllocBegin, Goto, Return, EndLoop, TypeOK, core, gauges, history
  <2> QED BY <2>1, <1>b, PeakFrame
<1>6. CASE \/ GrowthsLoad(t) \/ LastLoad(t) \/ GrewClaimed(t) \/ GrewReloaded(t)
  <2>1. /\ UNCHANGED <<capacity, peak_live, highest>>
        /\ pc[t] \notin {"peakload", "peak"} /\ pc'[t] \notin {"peakload", "peak"}
    BY <1>0, <1>6 DEF GrowthsLoad, LastLoad, GrewClaimed, GrewReloaded,
           Load, Goto, TypeOK, core, gauges, history
  <2> QED BY <2>1, <1>b, PeakFrame
<1>7. CASE \/ DeallocBegin(t) \/ CountDeallocation(t) \/ LiveLoad(t) \/ LiveDown(t)
           \/ LiveReloaded(t) \/ LiveClamped(t)
  <2>1. /\ UNCHANGED <<capacity, peak_live, highest>>
        /\ pc[t] \notin {"peakload", "peak"} /\ pc'[t] \notin {"peakload", "peak"}
    BY <1>0, <1>7 DEF DeallocBegin, CountDeallocation, LiveLoad, LiveDown, LiveReloaded,
           LiveClamped, Load, EndLoop, Goto, TypeOK, core, gauges, history
  <2> QED BY <2>1, <1>b, PeakFrame
<1> QED BY <1>1, <1>2, <1>3, <1>4, <1>5, <1>6, <1>7 DEF Acts, Step

-----------------------------------------------------------------------------
(* The growths that are noted and reported. *)

GrowthInv == GrowthsNoted /\ GrowthPending

(* A claim of no thread but t changes with a step of t. *)
LEMMA ClaimsMove ==
    ASSUME IInv, NEW t \in Threads, Acts(t)
    PROVE  /\ \A u \in Threads \ {t} : Claimed(u)' = Claimed(u)
           /\ \A g : g \in Pending <=> \E u \in Threads : g \in Claimed(u)
           /\ \A g : g \in Pending' <=> \E u \in Threads : g \in Claimed(u)'
<1>1. \A u \in Threads \ {t} : pc'[u] = pc[u] /\ last'[u] = last[u] /\ want'[u] = want[u]
  BY OthersStay DEF IInv
<1> QED BY <1>1 DEF Claimed, Pending

(* A step after which t, if it was to look at the latest growth, still is, or the
   latest growth is noted. *)
LEMMA GrowthFrame ==
    ASSUME IInv, NEW t \in Threads, Acts(t),
           grow_count <= grow_count', last_growths <= last_growths', last_growths' <= grow_count',
           EventsExact',
           pc'[t] \in {"lastload", "grew"} => want'[t] <= grow_count',
           pc'[t] = "grew" => last'[t] <= last_growths',
           \/ WillNote(t)'
           \/ last_growths' = grow_count'
           \/ grow_count' = grow_count /\ ~ WillNote(t)
    PROVE  GrowthInv'
<1>0. GrowthsNoted /\ GrowthPending /\ TypeOK /\ TypeOK'
  BY TypesStep DEF IInv
<1>1. \A o \in Threads \ {t} : pc'[o] = pc[o] /\ last'[o] = last[o] /\ want'[o] = want[o]
  BY <1>0, OthersStay
<1>2. /\ grow_count \in Nat /\ last_growths \in Nat /\ grow_count' \in Nat /\ last_growths' \in Nat
      /\ \A o \in Threads : want[o] \in Nat /\ last[o] \in Nat
  BY <1>0 DEF TypeOK
<1>3. \A o \in Threads : pc'[o] \in {"lastload", "grew"} => want'[o] <= grow_count'
  BY <1>0, <1>1, <1>2 DEF GrowthsNoted
<1>4. \A o \in Threads : pc'[o] = "grew" => last'[o] <= last_growths'
  BY <1>0, <1>1, <1>2 DEF GrowthsNoted
<1>5. GrowthsNoted'
  BY <1>3, <1>4 DEF GrowthsNoted
<1>6. GrowthPending'
  <2> SUFFICES ASSUME grow_count' > Adopted, last_growths' < grow_count'
               PROVE  \E u \in Threads : WillNote(u)'
    BY DEF GrowthPending
  <2>1. CASE WillNote(t)'
    BY <2>1
  <2>2. CASE grow_count' = grow_count /\ ~ WillNote(t)
    <3>1. PICK u \in Threads : WillNote(u)
      BY <1>0, <1>2, <2>2 DEF GrowthPending
    <3>2. u \in Threads \ {t}
      BY <2>2, <3>1
    <3>3. WillNote(u)'
      BY <1>1, <2>2, <3>1, <3>2 DEF WillNote
    <3> QED BY <3>3
  <2> QED BY <1>2, <2>1, <2>2
<1> QED BY <1>5, <1>6 DEF GrowthInv

(* A step that notes and reports nothing. *)
LEMMA GrowthQuiet ==
    ASSUME IInv, NEW t \in Threads, Acts(t), UNCHANGED <<grow_count, last_growths, reported>>,
           pc[t] # "notify", pc'[t] # "notify",
           pc'[t] \in {"lastload", "grew"} => want'[t] <= grow_count,
           pc'[t] = "grew" => last'[t] <= last_growths,
           WillNote(t) => WillNote(t)' \/ last_growths = grow_count
    PROVE  GrowthInv'
<1>1. GrowthsNoted /\ TypeOK
  BY DEF IInv
<1>2. EventsExact'
  <2>1. Claimed(t) = {} /\ Claimed(t)' = {}
    BY DEF Claimed
  <2>2. \A u \in Threads : Claimed(u)' = Claimed(u)
    BY <2>1, ClaimsMove
  <2>3. \A g : g \in Pending' <=> g \in Pending
    BY <2>2, ClaimsMove
  <2>4. Pending' = Pending
    BY <2>3
  <2> QED BY <1>1, <2>2, <2>4 DEF GrowthsNoted, EventsExact
<1>3. grow_count \in Nat /\ last_growths \in Nat
  BY <1>1 DEF TypeOK
<1> QED BY <1>1, <1>2, <1>3, GrowthFrame DEF GrowthsNoted

(* Every step preserves the account of growths: each is reported, claimed, or
   noted by a thread. *)
LEMMA GrowthStep ==
    ASSUME IInv, NEW t \in Threads, Acts(t)
    PROVE  GrowthInv'
<1>0. GrowthsNoted /\ TypeOK
  BY DEF IInv
<1>1. /\ grow_count \in Nat /\ last_growths \in Nat
      /\ want[t] \in Nat /\ last[t] \in Nat
      /\ last_growths <= grow_count
      /\ EventsExact
      /\ pc[t] \in {"lastload", "grew"} => want[t] <= grow_count
      /\ pc[t] = "grew" => last[t] <= last_growths
  BY <1>0 DEF GrowthsNoted, TypeOK
<1>2. CASE CoreGrows(t)
  <2>1. /\ pc[t] = "core" /\ pc'[t] = "grown" /\ grow_count' = grow_count + 1
        /\ UNCHANGED <<last_growths, reported>>
    BY <1>0, <1>2 DEF CoreGrows, Goto, TypeOK, gauges, history
  <2>2. EventsExact'
    <3>1. Claimed(t) = {} /\ Claimed(t)' = {}
      BY <2>1 DEF Claimed
    <3>2. \A u \in Threads : Claimed(u)' = Claimed(u)
      BY <3>1, <1>2, ClaimsMove DEF Acts, Step
    <3>3. \A g : g \in Pending' <=> g \in Pending
      BY <3>2, <1>2, ClaimsMove DEF Acts, Step
    <3>4. Pending' = Pending
      BY <3>3
    <3> QED BY <1>1, <2>1, <3>2, <3>4 DEF EventsExact
  <2>3. WillNote(t)'
    BY <2>1 DEF WillNote
  <2> QED BY <1>1, <2>1, <2>2, <2>3, GrowthFrame
<1>3. CASE CoreVends(t) \/ CountAllocation(t) \/ LiveUp(t) \/ PeakLoad(t)
           \/ PeakRaised(t) \/ PeakReloaded(t) \/ PeakHigher(t)
  <2>1. /\ UNCHANGED <<grow_count, last_growths, reported>>
        /\ pc[t] # "notify"
        /\ pc'[t] \in {"allocated", "live", "peakload", "peak", "growths"}
    BY <1>0, <1>3 DEF CoreVends, CountAllocation, LiveUp, PeakLoad, PeakRaised, PeakReloaded,
           PeakHigher, Goto, Load, EndLoop, TypeOK, core, gauges, history
  <2>2. WillNote(t)'
    BY <2>1 DEF WillNote
  <2> QED BY <2>1, <2>2, GrowthQuiet
<1>4. CASE CoreExhausted(t) \/ CoreFrees(t) \/ CountFailure(t) \/ AllocBegin(t)
  <2>1. /\ UNCHANGED <<grow_count, last_growths, reported>>
        /\ pc[t] \in {"core", "free", "failed", "idle"}
        /\ pc'[t] \in {"core", "failed", "idle"}
    BY <1>0, <1>4 DEF CoreExhausted, CoreFrees, CountFailure, AllocBegin, Goto, Return, EndLoop,
           TypeOK, core, gauges, history
  <2>2. ~ WillNote(t)
    BY <2>1 DEF WillNote
  <2> QED BY <2>1, <2>2, GrowthQuiet
<1>5. CASE \/ DeallocBegin(t) \/ CountDeallocation(t) \/ LiveLoad(t) \/ LiveDown(t)
           \/ LiveReloaded(t) \/ LiveClamped(t)
  <2>1. /\ UNCHANGED <<grow_count, last_growths, reported>>
        /\ pc[t] \in {"idle", "dealloc", "liveload", "livecas"}
        /\ pc'[t] \in {"dealloc", "liveload", "livecas", "free"}
    BY <1>0, <1>5 DEF DeallocBegin, CountDeallocation, LiveLoad, LiveDown, LiveReloaded,
           LiveClamped, Load, EndLoop, Goto, TypeOK, core, gauges, history
  <2>2. ~ WillNote(t)
    BY <2>1 DEF WillNote
  <2> QED BY <2>1, <2>2, GrowthQuiet
<1>6. CASE GrowthsLoad(t)
  <2>1. /\ UNCHANGED <<grow_count, last_growths, reported>>
        /\ pc[t] = "growths" /\ pc'[t] = "lastload" /\ want'[t] = grow_count
    BY <1>0, <1>6 DEF GrowthsLoad, Goto, TypeOK, core, gauges, history
  <2>2. WillNote(t)'
    BY <2>1 DEF WillNote
  <2> QED BY <1>1, <2>1, <2>2, GrowthQuiet
<1>7. CASE LastLoad(t) \/ GrewReloaded(t)
  <2>1. /\ UNCHANGED <<grow_count, last_growths, reported>> /\ want' = want
        /\ pc[t] \in {"lastload", "grew"} /\ pc'[t] = "grew" /\ last'[t] = last_growths
    BY <1>0, <1>7 DEF LastLoad, GrewReloaded, Load, Goto, TypeOK, core, gauges, history
  <2>2. WillNote(t) => WillNote(t)'
    BY <2>1 DEF WillNote
  <2> QED BY <1>1, <2>1, <2>2, GrowthQuiet
<1>8. CASE GrewClaimed(t)
  <2>1. /\ UNCHANGED <<grow_count, reported>> /\ last_growths' = want[t]
        /\ pc[t] = "grew" /\ pc'[t] = "notify" /\ want[t] > last_growths
        /\ last_growths = last[t] /\ want' = want /\ last' = last
    BY <1>0, <1>8 DEF GrewClaimed, Goto, TypeOK, core, history
  <2>2. /\ Claimed(t) = {} /\ Claimed(t)' = (last_growths + 1) .. want[t]
        /\ \A u \in Threads \ {t} : Claimed(u)' = Claimed(u)
    BY <1>8, <2>1, ClaimsMove DEF Claimed, Acts, Step
  <2>3. last_growths <= last_growths' /\ last_growths' <= grow_count'
    BY <1>1, <2>1
  <2>4. EventsExact'
    <3>1. \A g : g \in Pending' <=> g \in Pending \/ g \in (last_growths + 1) .. want[t]
      BY <1>8, <2>2, ClaimsMove DEF Acts, Step
    <3>2. reported \cup Pending' = 1 .. want[t]
      BY <1>1, <2>1, <3>1 DEF EventsExact
    <3>3. \A u \in Threads : Claimed(u) \subseteq 1 .. last_growths
      BY <1>1, <1>8, ClaimsMove DEF EventsExact, Acts, Step
    <3>4. reported \subseteq 1 .. last_growths
      BY <1>1 DEF EventsExact
    <3>5. ((last_growths + 1) .. want[t]) \cap (1 .. last_growths) = {}
      BY <1>1
    <3>6. \A u \in Threads : Claimed(u)' \cap reported = {}
      BY <1>1, <2>2, <3>4, <3>5 DEF EventsExact
    <3>7. \A u, v \in Threads : u # v => Claimed(u)' \cap Claimed(v)' = {}
      BY <1>1, <2>2, <3>3, <3>5 DEF EventsExact
    <3> QED BY <2>1, <3>2, <3>6, <3>7 DEF EventsExact
  <2>5. WillNote(t) => last_growths' = grow_count'
    BY <2>1 DEF WillNote
  <2> QED BY <1>1, <2>1, <2>3, <2>4, <2>5, GrowthFrame
<1>9. CASE NotifyGrew(t)
  <2>1. /\ UNCHANGED <<grow_count, last_growths>> /\ reported' = reported \cup Claimed(t)
        /\ pc[t] = "notify" /\ pc'[t] = "idle"
    BY <1>0, <1>9 DEF NotifyGrew, Goto, Return, TypeOK, core, gauges
  <2>2. Claimed(t)' = {} /\ \A u \in Threads \ {t} : Claimed(u)' = Claimed(u)
    BY <1>9, <2>1, ClaimsMove DEF Claimed, Acts, Step
  <2>3. EventsExact'
    <3>1. \A g : g \in reported' \/ g \in Pending' <=> g \in reported \/ g \in Pending
      BY <1>9, <2>1, <2>2, ClaimsMove DEF Acts, Step
    <3>2. reported' \cup Pending' = reported \cup Pending
      BY <3>1
    <3>3. \A u \in Threads : Claimed(u)' \cap reported' = {}
      BY <1>1, <2>1, <2>2 DEF EventsExact
    <3>4. \A u, v \in Threads : u # v => Claimed(u)' \cap Claimed(v)' = {}
      BY <1>1, <2>2 DEF EventsExact
    <3> QED BY <1>1, <2>1, <3>2, <3>3, <3>4 DEF EventsExact
  <2>4. ~ WillNote(t)
    BY <2>1 DEF WillNote
  <2> QED BY <1>1, <2>1, <2>3, <2>4, GrowthFrame
<1>10. CASE NotGrown(t)
  <2>1. /\ UNCHANGED <<grow_count, last_growths, reported>>
        /\ pc[t] = "grew" /\ pc'[t] = "idle" /\ want[t] <= last[t]
    BY <1>0, <1>10 DEF NotGrown, Goto, Return, TypeOK, core, gauges, history
  <2>2. WillNote(t) => last_growths = grow_count
    BY <1>1, <2>1 DEF WillNote
  <2> QED BY <2>1, <2>2, GrowthQuiet
<1> QED BY <1>2, <1>3, <1>4, <1>5, <1>6, <1>7, <1>8, <1>9, <1>10 DEF Acts, Step

-----------------------------------------------------------------------------
(* The initial states satisfy the invariant. *)
LEMMA InitInvariant == Init => IInv
<1> SUFFICES ASSUME Init PROVE IInv
  OBVIOUS
<1>1. \A t \in Threads : pc[t] = "idle" /\ own[t] = FALSE
  BY DEF Init
<1>2. /\ Uncounted = {} /\ Known = {} /\ Coming = {} /\ Leaving = {} /\ Clamping = {}
      /\ Entered = {} /\ Left = {} /\ Raising = {}
  BY <1>1 DEF Uncounted, Known, Coming, Leaving, Clamping, Entered, Left, Raising
<1>3. Cardinality({}) = 0
  BY FS_EmptySet
<1>4. /\ capacity \in Nat /\ vended = 0 /\ grow_count \in Nat /\ grow_count = Adopted
      /\ allocations = 0 /\ deallocations = 0 /\ allocation_failures = 0
      /\ live = 0 /\ peak_live = 0 /\ last_growths = 0 /\ held = 0
      /\ highest = 0 /\ reported = {} /\ CountMod \in Nat \ {0}
  BY CoreAssumption, CountAssumption DEF Init
<1>5. TypeOK
  <2>1. /\ pc = [t \in Threads |-> "idle"] /\ own = [t \in Threads |-> FALSE]
        /\ want = [t \in Threads |-> 0] /\ last = [t \in Threads |-> 0] /\ strayed = FALSE
    BY DEF Init
  <2>2. 0 \in 0 .. (CountMod - 1) /\ 0 \in Nat
    BY <1>4
  <2>3. {allocations, deallocations, allocation_failures} \subseteq 0 .. (CountMod - 1)
    BY <1>4, <2>2
  <2>4. vended \in 0 .. capacity
    BY <1>4
  <2> QED BY <1>4, <2>1, <2>2, <2>3, <2>4 DEF TypeOK
<1>6. OwnOnlyInside
  BY <1>1 DEF OwnOnlyInside
<1>7. BlocksPlaced /\ LiveBehind
  BY <1>2, <1>3, <1>4 DEF BlocksPlaced, LiveBehind
<1>8. LiveTrue
  BY <1>1, <1>2, <1>3, <1>4 DEF LiveTrue, Deallocating
<1>9. TotalsTrue
  <2>1. 0 * CountMod = 0
    BY <1>4
  <2>2. allocations + Cardinality(Left) + 0 * CountMod = deallocations + live + Cardinality(Entered)
    BY <1>2, <1>3, <1>4, <2>1
  <2>3. 0 \in Int
    OBVIOUS
  <2> QED BY <2>2, <2>3 DEF TotalsTrue
<1>10. PeakBounded
  BY <1>2, <1>4 DEF PeakBounded
<1>11. PeakMarked
  <2>1. {peak_live} \cup {want[t] : t \in Raising} = {0}
    BY <1>2, <1>4
  <2> QED BY <2>1, <1>1, <1>4 DEF PeakMarked
<1>12. GrowthsNoted
  <2>1. \A t \in Threads : Claimed(t) = {}
    BY <1>1 DEF Claimed
  <2>2. Pending = {}
    BY <2>1 DEF Pending
  <2>3. EventsExact
    BY <1>4, <2>1, <2>2 DEF EventsExact
  <2> QED BY <1>1, <1>4, <2>3 DEF GrowthsNoted
<1>13. GrowthPending
  BY <1>4, CoreAssumption DEF GrowthPending
<1> QED BY <1>5, <1>6, <1>7, <1>8, <1>9, <1>10, <1>11, <1>12, <1>13 DEF IInv

(* Every step preserves the invariant. *)
LEMMA NextInvariant == IInv /\ [Next]_vars => IInv'
<1> SUFFICES ASSUME IInv, [Next]_vars PROVE IInv'
  OBVIOUS
<1>1. CASE Next
  <2>1. PICK t \in Threads : Acts(t)
    BY <1>1 DEF Next, Acts
  <2>2. TypeOK' /\ OwnOnlyInside'
    BY <2>1, TypesStep
  <2>3. BlocksInv'
    BY <2>1, BlocksStep
  <2>4. PeakInv'
    BY <2>1, PeakStep
  <2>5. GrowthInv'
    BY <2>1, GrowthStep
  <2> QED BY <2>2, <2>3, <2>4, <2>5 DEF IInv, BlocksInv, PeakInv, GrowthInv
<1>2. CASE UNCHANGED vars
  <2>1. /\ UNCHANGED <<capacity, vended, grow_count, allocations, deallocations,
                       allocation_failures, live, peak_live, last_growths>>
        /\ UNCHANGED <<held, pc, want, last, own, highest, reported, strayed>>
    BY <1>2 DEF vars, core, counters, gauges, history
  <2>2. TypeOK' /\ OwnOnlyInside'
    BY <2>1 DEF IInv, TypeOK, OwnOnlyInside, Deallocating
  <2>3. /\ Uncounted' = Uncounted /\ Known' = Known /\ Coming' = Coming /\ Leaving' = Leaving
        /\ Clamping' = Clamping /\ Entered' = Entered /\ Left' = Left
        /\ Raising' = Raising
    BY <2>1 DEF Uncounted, Known, Coming, Leaving, Clamping, Entered, Left, Raising
  <2>4. BlocksPlaced' /\ LiveBehind' /\ LiveTrue' /\ TotalsTrue'
    BY <2>1, <2>3 DEF IInv, BlocksPlaced, LiveBehind, LiveTrue, TotalsTrue, Deallocating
  <2>5. PeakBounded' /\ PeakMarked'
    BY <2>1, <2>3 DEF IInv, PeakBounded, PeakMarked
  <2>6. GrowthsNoted' /\ GrowthPending'
    BY <2>1 DEF IInv, GrowthsNoted, EventsExact, Pending, Claimed, GrowthPending, WillNote
  <2> QED BY <2>2, <2>4, <2>5, <2>6 DEF IInv
<1> QED BY <1>1, <1>2 DEF Next

(* The invariant holds in every reachable state, for any finite number of threads. *)
THEOREM Invariance == Spec => []IInv
<1>1. Init => IInv
  BY InitInvariant
<1>2. IInv /\ [Next]_vars => IInv'
  BY NextInvariant
<1> QED BY <1>1, <1>2, PTL DEF Spec

(* Every counter keeps its type; live_ is decremented only when it is positive. *)
THEOREM TypeCorrect == Spec => []TypeOK
<1>1. IInv => TypeOK
  BY DEF IInv
<1> QED BY <1>1, Invariance, PTL

(* record_allocation runs after the core has handed the block out and
   record_deallocation before it goes back, so the gauge is never ahead. *)
THEOREM GaugeIsBehind == Spec => []LiveNeverAhead
<1>1. IInv => LiveNeverAhead
  <2> SUFFICES ASSUME IInv PROVE LiveNeverAhead
    OBVIOUS
  <2>1. BlocksPlaced /\ LiveBehind /\ PeakBounded
    BY DEF IInv
  <2>2. live \in Nat /\ held \in Nat /\ vended \in Nat
    BY DEF IInv, TypeOK
  <2>3. live <= vended
    BY <2>1, <2>2, CountsNatural DEF BlocksPlaced, LiveBehind
  <2> QED BY <2>1, <2>3 DEF LiveNeverAhead, PeakBounded
<1> QED BY <1>1, Invariance, PTL

(* The compare-and-swap loop of record_allocation loses no peak. *)
THEOREM PeakIsHighWaterMark == Spec => []PeakExact
<1>1. IInv => PeakExact
  <2> SUFFICES ASSUME IInv PROVE PeakExact
    OBVIOUS
  <2> DEFINE marks == {peak_live} \cup {want[t] : t \in Raising}
  <2>1. highest \in marks /\ \A m \in marks : m <= highest
    BY DEF IInv, PeakMarked
  <2>2. \A m \in marks : m \in Nat
    BY DEF IInv, TypeOK, Raising
  <2> HIDE DEF marks
  <2>3. Max(marks) = highest
    BY <2>1, <2>2, MaxIsGreatest
  <2> QED BY <2>3 DEF marks, PeakExact, Raising
<1> QED BY <1>1, Invariance, PTL

(* When no call is under way the counters agree with what the callers own. *)
THEOREM CountsTrueAtRest == Spec => []CountsAtRest
<1>1. IInv => CountsAtRest
  <2> SUFFICES ASSUME IInv, AtRest
               PROVE  /\ held = vended
                      /\ live <= held
                      /\ ~ strayed => /\ live = held
                                      /\ allocations = (deallocations + live) % CountMod
    BY DEF CountsAtRest
  <2>1. /\ Uncounted = {} /\ Known = {} /\ Coming = {} /\ Leaving = {} /\ Clamping = {}
        /\ Entered = {} /\ Left = {}
    BY DEF AtRest, Uncounted, Known, Coming, Leaving, Clamping, Entered, Left
  <2>2. Cardinality({}) = 0
    BY FS_EmptySet
  <2>3. /\ live \in Nat /\ held \in Nat /\ vended \in Nat
        /\ allocations \in 0 .. (CountMod - 1) /\ deallocations \in 0 .. (CountMod - 1)
        /\ CountMod \in Nat \ {0}
    BY CountAssumption DEF IInv, TypeOK
  <2>4. BlocksPlaced /\ LiveBehind /\ LiveTrue /\ TotalsTrue
    BY DEF IInv
  <2>5. held = vended /\ live <= held
    BY <2>1, <2>2, <2>3, <2>4 DEF BlocksPlaced, LiveBehind
  <2>6. ASSUME ~ strayed PROVE live = held /\ allocations = (deallocations + live) % CountMod
    <3>1. live = held
      BY <2>1, <2>2, <2>3, <2>4, <2>6 DEF LiveTrue
    <3>2. PICK k \in Int : allocations + k * CountMod = deallocations + live
      <4>1. PICK j \in Int : allocations + Cardinality(Left) + j * CountMod
                               = deallocations + live + Cardinality(Entered)
        BY <2>4, <2>6 DEF TotalsTrue
      <4>2. j * CountMod \in Int
        BY <2>3
      <4>3. allocations + j * CountMod = deallocations + live
        BY <4>1, <4>2, <2>1, <2>2, <2>3
      <4> QED BY <4>3
    <3>3. deallocations + live \in Nat
      BY <2>3
    <3>4. (deallocations + live) % CountMod = allocations
      <4> DEFINE x == deallocations + live
      <4>1. x \in Nat /\ x = allocations + k * CountMod
        BY <3>2, <3>3
      <4> HIDE DEF x
      <4>2. x % CountMod = allocations
        BY <2>3, <4>1, RemainderUnique
      <4> QED BY <4>2 DEF x
    <3> QED BY <3>1, <3>4
  <2> QED BY <2>5, <2>6
<1> QED BY <1>1, Invariance, PTL

(* notify_if_grew tells of every growth in one grew event, and of none in two,
   however its load and its compare-exchange interleave with those of others. *)
THEOREM GrowthsReported == Spec => []GrowthReportedOnce
<1>1. ASSUME IInv PROVE GrowthReportedOnce
  <2>1. GrowthsNoted /\ GrowthPending /\ EventsExact /\ last_growths <= grow_count
    BY <1>1 DEF IInv, GrowthsNoted
  <2>2. grow_count \in Nat /\ last_growths \in Nat
    BY <1>1 DEF IInv, TypeOK
  <2>3. ASSUME AtRest, grow_count > Adopted PROVE reported = 1 .. grow_count
    <3>1. \A t \in Threads : ~ WillNote(t) /\ Claimed(t) = {}
      BY <2>3 DEF AtRest, WillNote, Claimed
    <3>2. last_growths = grow_count
      BY <3>1, <2>1, <2>2, <2>3 DEF GrowthPending
    <3>3. Pending = {}
      BY <3>1 DEF Pending
    <3> QED BY <3>2, <3>3, <2>1 DEF EventsExact
  <2> QED BY <2>1, <2>3 DEF EventsExact, GrowthReportedOnce
<1> QED BY <1>1, Invariance, PTL
=============================================================================
