-------------------------- MODULE MutexPoolProofs --------------------------
(***************************************************************************)
(* For every number of threads, first chunk, growth factor and limit: the  *)
(* mutex pool keeps its free list exact, grows geometrically and           *)
(* implements PoolSpec, its guard and its accessors outside the mutex      *)
(* included.                                                               *)
(***************************************************************************)
EXTENDS MutexPool, FreeListProofs, SequenceTheorems

-----------------------------------------------------------------------------
(* The inductive invariant.  What the unlocked reads rely on is that whoever has a
   block is sure of the growth that acquired it, and that the n oldest chunks are
   the slots up to the n-th growth; what the others rely on is that only the holder
   of the mutex is in a critical section. *)

Critical(t) == pc[t] \in {"pop", "grow", "publish", "push"}

(* The holder of the mutex has built a chunk, and has linked it. *)
Growing == mutex \in Threads /\ pc[mutex] \in {"grow", "publish"}
Linked == mutex \in Threads /\ pc[mutex] = "publish"

Grown == GrownTo[grow_count]

MutualExclusion == \A t \in Threads : Critical(t) <=> mutex = t

(* The chunk of a growth continues where the pool ends, is seeded, and the
   free list is empty meanwhile. *)
ChunkFits ==
    IF Growing
    THEN /\ Factor >= 2 /\ Grown * Factor <= MaxBlocks
         /\ chunk = [first |-> Grown + 1, count |-> Grown * (Factor - 1)]
         /\ head = NULL
         /\ ListsExactly(chunk.first, next, SlotsOf(chunk))
    ELSE chunk = NoChunk

(* The linked chunks are the slots up to the last growth. *)
ChunksCounted ==
    /\ Grown \in Blocks
    /\ Len(overflow) = IF Linked THEN grow_count + 1 ELSE grow_count
    /\ Owned(overflow) = 1 .. (IF Linked THEN Grown * Factor ELSE Grown)

ChunksDisjoint ==
    \A c, d \in ChunksOf(overflow) : c # d => SlotsOf(c) \cap SlotsOf(d) = {}

(* A block that is owned or returned is one of a complete growth, and is so by
   one client or thread. *)
OwnershipSound ==
    /\ held \subseteq 1 .. Grown
    /\ \A t \in Threads : Freeing(t) =>
          /\ blk[t] \in (1 .. Grown) \ held
          /\ \A u \in Threads \ {t} : Freeing(u) => blk[u] # blk[t]

(* Only blocks get past the guard. *)
GuardPassed == \A t \in Threads : pc[t] \in {"pushlock", "push"} => blk[t] \in Blocks

(* The n-th growth acquired the slots from the (n-1)-st size of the pool to the n-th. *)
ChunksInOrder ==
    /\ \A g \in 0 .. Len(overflow) :
          /\ GrownTo[g] \in Nat
          /\ \A h \in g .. Len(overflow) : GrownTo[g] <= GrownTo[h]
    /\ \A i \in 1 .. Len(overflow) :
          SlotsOf(overflow[i]) =
              (GrownTo[Len(overflow) - i] + 1) .. GrownTo[Len(overflow) - i + 1]

(* The owner of a block, and who returns it, are sure of its growth. *)
SeenSound ==
    /\ \A b \in Blocks : seen[b] <= grow_count
    /\ \A b \in held : b <= GrownTo[seen[b]]
    /\ \A t \in Threads : Freeing(t) => blk[t] <= GrownTo[seen[blk[t]]]

IInv ==
    /\ TypeOK
    /\ MutualExclusion
    /\ ChunkFits
    /\ ChunksCounted
    /\ ChunksDisjoint
    /\ OwnershipSound
    /\ GuardPassed
    /\ ChunksInOrder
    /\ SeenSound
    /\ FreeListExact

(* The names below unfold in almost every step. *)
USE DEF NULL, Blocks, Foreign, NoChunk

-----------------------------------------------------------------------------
(* The recursive function GrownTo exists and meets its equation: up to any m it
   is the union of the finite functions that do. *)

GrownUpTo(m, f) ==
    /\ f \in [0 .. m -> Nat]
    /\ \A g \in 0 .. m : f[g] = IF g = 0 THEN N ELSE Factor * f[g - 1]

(* There is a table of the sizes up to any number of growths. *)
LEMMA GrownUpToExists == \A m \in Nat : \E f : GrownUpTo(m, f)
<1> DEFINE S == {m \in Nat : \E f : GrownUpTo(m, f)}
<1>1. 0 \in S
  <2>1. GrownUpTo(0, [g \in 0 .. 0 |-> N])
    BY NAssumption DEF GrownUpTo
  <2> QED BY <2>1
<1>2. ASSUME NEW m \in Nat, m \in S
      PROVE  m + 1 \in S
  <2>1. PICK f : GrownUpTo(m, f)
    BY <1>2
  <2> DEFINE h == [g \in 0 .. (m + 1) |-> IF g = m + 1 THEN Factor * f[m] ELSE f[g]]
  <2>2. GrownUpTo(m + 1, h)
    BY <2>1, NAssumption, FactorAssumption DEF GrownUpTo
  <2> QED BY <2>2
<1> HIDE DEF S
<1>3. Nat \subseteq S
  BY <1>1, <1>2, NatSetInduction
<1> QED BY <1>3 DEF S

(* Two such tables agree where both are defined. *)
LEMMA GrownUpToAgree ==
    ASSUME NEW m \in Nat, NEW k \in Nat, NEW f, NEW h, GrownUpTo(m, f), GrownUpTo(k, h)
    PROVE  \A g \in Nat : g <= m /\ g <= k => f[g] = h[g]
<1> DEFINE S == {g \in Nat : g <= m /\ g <= k => f[g] = h[g]}
<1>1. 0 \in S
  BY DEF GrownUpTo
<1>2. ASSUME NEW g \in Nat, g \in S
      PROVE  g + 1 \in S
  BY <1>2 DEF GrownUpTo
<1> HIDE DEF S
<1>3. Nat \subseteq S
  BY <1>1, <1>2, NatSetInduction
<1> QED BY <1>3 DEF S

(* The recursive definition of the size after g growths has a solution, and so
   obeys its equation. *)
LEMMA GrownToUnfolds ==
    GrownTo[0] = N /\ \A g \in Nat : GrownTo[g + 1] = Factor * GrownTo[g]
<1> DEFINE fs == [m \in Nat |-> CHOOSE f : GrownUpTo(m, f)]
<1> DEFINE w == [g \in Nat |-> fs[g][g]]
<1> DEFINE rec(f) == [g \in Nat |-> IF g = 0 THEN N ELSE Factor * f[g - 1]]
<1>1. \A m \in Nat : GrownUpTo(m, fs[m])
  BY GrownUpToExists
<1> HIDE DEF fs
<1>2. w = rec(w)
  <2> SUFFICES ASSUME NEW g \in Nat
               PROVE  w[g] = IF g = 0 THEN N ELSE Factor * w[g - 1]
    OBVIOUS
  <2>1. fs[g][g] = IF g = 0 THEN N ELSE Factor * fs[g][g - 1]
    BY <1>1 DEF GrownUpTo
  <2>2. g # 0 => fs[g][g - 1] = fs[g - 1][g - 1]
    <3> SUFFICES ASSUME g # 0 PROVE fs[g][g - 1] = fs[g - 1][g - 1]
      OBVIOUS
    <3> QED BY <1>1, GrownUpToAgree
  <2> QED BY <2>1, <2>2
<1>3. GrownTo = CHOOSE f : f = rec(f)
  BY DEF GrownTo
<1>4. GrownTo = rec(GrownTo)
  <2> HIDE DEF w
  <2> QED BY <1>2, <1>3
<1> QED BY <1>4

(* A growth multiplies the slots. *)
LEMMA GrownStep ==
    ASSUME IInv
    PROVE  /\ Grown \in Nat \ {0} /\ Grown <= MaxBlocks
           /\ grow_count \in Nat
           /\ GrownTo[grow_count + 1] = Grown * Factor
           /\ 1 .. Grown \subseteq Blocks
<1>1. Grown \in Nat \ {0} /\ Grown <= MaxBlocks /\ grow_count \in Nat
  BY NAssumption DEF IInv, ChunksCounted, TypeOK
<1>2. GrownTo[grow_count + 1] = Factor * Grown
  BY <1>1, GrownToUnfolds DEF Grown
<1> QED BY <1>1, <1>2, NAssumption, FactorAssumption

-----------------------------------------------------------------------------
(* What a growth adds: the slots from the end of the pool on. *)
LEMMA NewSlots ==
    ASSUME IInv, Factor >= 2, Grown * Factor <= MaxBlocks
    PROVE  /\ Grown * (Factor - 1) \in Nat \ {0}
           /\ SlotAddresses(Grown + 1, 1, Grown * (Factor - 1)) = (Grown + 1) .. (Grown * Factor)
           /\ Grown + Grown * (Factor - 1) = Grown * Factor
           /\ Grown * Factor \in Nat /\ Grown + 1 <= Grown * Factor
           /\ (Grown + 1) .. (Grown * Factor) \subseteq Blocks
<1>1. Factor \in Nat /\ Grown \in Nat \ {0} /\ MaxBlocks \in Nat
  BY GrownStep, NAssumption, FactorAssumption
<1>2. Grown * Factor = Grown + Grown * (Factor - 1) /\ Grown * Factor \in Nat
  BY <1>1
<1>3. Grown * (Factor - 1) \in Nat /\ Grown * (Factor - 1) >= Grown
  <2>1. Grown * (Factor - 1) = Grown + Grown * (Factor - 2) /\ Grown * (Factor - 2) \in Nat
    BY <1>1
  <2> QED BY <1>1, <2>1
<1> DEFINE count == Grown * (Factor - 1)
<1>4. count \in Nat \ {0} /\ Grown + count = Grown * Factor /\ Grown + count <= MaxBlocks
  BY <1>1, <1>2, <1>3
<1> HIDE DEF count
<1>5. SlotAddresses(Grown + 1, 1, count) = (Grown + 1) .. (Grown + 1 + count - 1)
  BY <1>1, <1>4, SlotInterval
<1>6. Grown + 1 + count - 1 = Grown + count
  BY <1>1, <1>4
<1>7. (Grown + 1) .. (Grown + count) \subseteq Blocks /\ Grown + 1 <= Grown + count
  BY <1>1, <1>4
<1> QED BY <1>2, <1>4, <1>5, <1>6, <1>7 DEF count

(* The slots of the chunk under construction. *)
LEMMA ChunkSlots ==
    ASSUME IInv, Growing
    PROVE  /\ chunk # NoChunk /\ chunk \in Chunks /\ Factor >= 2
           /\ SlotsOf(chunk) = (Grown + 1) .. (Grown * Factor)
           /\ chunk.first = Grown + 1 /\ chunk.first \in SlotsOf(chunk)
           /\ SlotsOf(chunk) \subseteq Blocks
           /\ chunk.count \in Nat \ {0}
           /\ Grown * Factor <= MaxBlocks
<1>1. /\ Factor >= 2 /\ Grown * Factor <= MaxBlocks
      /\ chunk = [first |-> Grown + 1, count |-> Grown * (Factor - 1)]
  BY DEF IInv, ChunkFits
<1>2. Grown \in Nat \ {0} /\ MaxBlocks \in Nat
  BY GrownStep, NAssumption
<1>3. /\ chunk.first = Grown + 1 /\ chunk.count \in Nat \ {0}
      /\ SlotsOf(chunk) = (Grown + 1) .. (Grown * Factor)
      /\ SlotsOf(chunk) \subseteq Blocks
      /\ Grown + 1 <= Grown * Factor /\ Grown * Factor \in Nat
  BY <1>1, NewSlots DEF SlotsOf
<1>4. chunk.first \in SlotsOf(chunk) /\ chunk # NoChunk
  BY <1>1, <1>2, <1>3
<1>5. chunk \in Chunks
  BY <1>1, <1>4 DEF IInv, TypeOK
<1> QED BY <1>1, <1>3, <1>4, <1>5

(* Capacity is the slots up to the last complete growth, at every moment. *)
LEMMA CapacityGrown ==
    ASSUME IInv
    PROVE  Capacity = 1 .. Grown
<1>1. CASE Growing
  BY <1>1, ChunkSlots, GrownStep, FactorAssumption DEF IInv, ChunksCounted, Capacity
<1>2. CASE ~ Growing
  BY <1>2 DEF IInv, ChunkFits, ChunksCounted, Capacity, Growing, Linked
<1> QED BY <1>1, <1>2

(* The blocks nobody owns are among the first Grown ones. *)
LEMMA AvailableFinite ==
    ASSUME IInv
    PROVE  IsFiniteSet(Available) /\ Available \subseteq 1 .. Grown /\ NULL \notin Available
<1>1. IsFiniteSet(1 .. Grown) /\ Available \in SUBSET (1 .. Grown)
  BY FS_Interval, GrownStep, CapacityGrown DEF Available
<1>2. IsFiniteSet(Available)
  BY <1>1, FS_Subset
<1> QED BY <1>1, <1>2, GrownStep

(* A block in transit is the one some thread is returning. *)
LEMMA InTransitMember ==
    ASSUME NEW b
    PROVE  /\ b \in InTransit <=> \E t \in Threads : Freeing(t) /\ blk[t] = b
           /\ b \in InTransit' <=> \E t \in Threads : Freeing(t)' /\ blk'[t] = b
BY DEF InTransit

-----------------------------------------------------------------------------
(* What a step leaves alone. *)

(* A growth neither begins, is linked, nor ends. *)
LEMMA GrowthFrame ==
    ASSUME IInv, UNCHANGED <<head, overflow, grow_count, chunk>>,
           Growing' <=> Growing, Linked' <=> Linked,
           Growing => ListsExactly(chunk.first, next', SlotsOf(chunk))
    PROVE  ChunkFits' /\ ChunksCounted' /\ ChunksDisjoint' /\ ChunksInOrder' /\ Grown' = Grown
           /\ Capacity' = Capacity
BY DEF IInv, ChunkFits, ChunksCounted, ChunksDisjoint, ChunksInOrder, Grown, Capacity

(* The same blocks are owned and returned. *)
LEMMA TransitFrame ==
    ASSUME IInv, held' = held, UNCHANGED <<seen, grow_count>>, Grown' = Grown, Capacity' = Capacity,
           \A u \in Threads : Freeing(u)' <=> Freeing(u),
           \A u \in Threads : Freeing(u) => blk'[u] = blk[u]
    PROVE  /\ OwnershipSound' /\ SeenSound'
           /\ InTransit' = InTransit /\ Available' = Available
<1>1. \A b : b \in InTransit' <=> b \in InTransit
  BY DEF InTransit
<1>2. InTransit' = InTransit
  BY <1>1
<1>3. OwnershipSound'
  BY DEF IInv, OwnershipSound
<1>4. SeenSound'
  BY DEF IInv, SeenSound
<1> QED BY <1>2, <1>3, <1>4 DEF Available

(* A thread outside the critical section changes the mutex or its own locals. *)
LEMMA OutsideFrame ==
    ASSUME IInv, NEW t \in Threads, ~ Critical(t),
           mutex' = mutex \/ (mutex = NoThread /\ mutex' = t /\ pc'[t] \in {"pop", "push"}),
           \A u \in Threads \ {t} : pc'[u] = pc[u]
    PROVE  (Growing' <=> Growing) /\ (Linked' <=> Linked)
BY ThreadAssumption DEF IInv, MutualExclusion, Critical, Growing, Linked, TypeOK

-----------------------------------------------------------------------------
(* The steps outside the mutex, which disturb nothing. *)

Local(t) ==
    \/ AllocBegin(t) \/ FreeNull(t) \/ GuardFirst(t) \/ GuardAccepts(t) \/ GuardRejects(t)

(* Taking the mutex. *)
Locking(t) == PopLock(t) \/ PushLock(t)

(* The n oldest chunks, however many are behind them, are the slots up to the n-th
   growth: a reader who is sure of the growth of a block finds it. *)
LEMMA ReadCovers ==
    ASSUME IInv, NEW p, NEW list \in ReadsOverflow(p)
    PROVE  /\ GrowthsBefore(p) \in Nat /\ Len(list) \in Nat
           /\ GrowthsBefore(p) <= Len(list) /\ Len(list) <= Len(overflow)
           /\ Owned(list) \subseteq Owned(overflow)
           /\ \A b \in Nat \ {0} : b <= GrownTo[GrowthsBefore(p)] => b \in Owned(list)
<1> USE DEF IInv
<1> DEFINE len == Len(overflow)
<1>1. overflow \in Seq(Chunks) /\ len \in Nat /\ grow_count \in Nat /\ grow_count <= len
  BY DEF TypeOK, ChunksCounted
<1>2. GrowthsBefore(p) \in Nat /\ GrowthsBefore(p) <= len
  BY <1>1 DEF GrowthsBefore, SeenSound, TypeOK
<1>3. PICK n \in GrowthsBefore(p) .. len : list = Oldest(n)
  BY DEF ReadsOverflow
<1>4. n \in Nat /\ GrowthsBefore(p) <= n /\ n <= len
  BY <1>1, <1>2, <1>3
<1> HIDE DEF len
<1>5. /\ Len(list) = n /\ DOMAIN list = 1 .. n
      /\ \A j \in 1 .. n : list[j] = overflow[len - n + j] /\ len - n + j \in 1 .. len
  BY <1>1, <1>3, <1>4 DEF Oldest, len
<1>6. DOMAIN overflow = 1 .. len
  BY <1>1 DEF len
<1>7. ChunksOf(list) \subseteq ChunksOf(overflow)
  BY <1>5, <1>6 DEF ChunksOf
<1>8. ASSUME NEW b \in Nat \ {0}, b <= GrownTo[GrowthsBefore(p)]
      PROVE  b \in Owned(list)
  <2>1. GrownTo[GrowthsBefore(p)] \in Nat /\ GrownTo[n] \in Nat /\ GrownTo[len] \in Nat
        /\ GrownTo[GrowthsBefore(p)] <= GrownTo[n] /\ GrownTo[n] <= GrownTo[len]
    BY <1>1, <1>2, <1>4 DEF ChunksInOrder, len
  <2>2. Owned(overflow) = 1 .. GrownTo[len]
    <3>1. CASE Linked
      <4>1. Growing
        BY <3>1 DEF Growing, Linked
      <4> QED BY <3>1, <4>1, GrownStep DEF ChunksCounted, len
    <3> QED BY <3>1 DEF ChunksCounted, Grown, len
  <2>3. PICK c \in ChunksOf(overflow) : b \in SlotsOf(c)
    BY <1>8, <2>1, <2>2 DEF Owned
  <2>4. CASE c = FirstChunk
    BY <2>3, <2>4 DEF Owned, ChunksOf
  <2>5. CASE c # FirstChunk
    <3>1. PICK i \in 1 .. len : c = overflow[i]
      BY <2>3, <2>5, <1>6 DEF ChunksOf
    <3>2. GrownTo[len - i] < b /\ GrownTo[len - i] \in Nat /\ len - i \in 0 .. len
      <4>1. len - i \in 0 .. len
        BY <3>1, <1>1 DEF len
      <4>2. GrownTo[len - i] \in Nat
        BY <4>1 DEF ChunksInOrder, len
      <4>3. b \in (GrownTo[len - i] + 1) .. GrownTo[len - i + 1]
        BY <2>3, <3>1 DEF ChunksInOrder, len
      <4> QED BY <4>1, <4>2, <4>3
    <3>3. len - i < n
      <4>1. SUFFICES ASSUME n <= len - i PROVE FALSE
        BY <1>1, <1>4, <3>2 DEF len
      <4>2. GrownTo[n] <= GrownTo[len - i]
        BY <4>1, <1>1, <1>4, <3>2 DEF ChunksInOrder, len
      <4> QED BY <4>2, <2>1, <3>2, <1>8
    <3>4. n - (len - i) \in 1 .. n /\ list[n - (len - i)] = c
      BY <1>1, <1>4, <1>5, <3>1, <3>3 DEF len
    <3> QED BY <2>3, <3>4, <1>5 DEF Owned, ChunksOf
  <2> QED BY <2>4, <2>5
<1> QED BY <1>2, <1>4, <1>5, <1>7, <1>8 DEF Owned, len

(* A pointer that the guard rejects, stale as its read may be, is no block: a block
   on its way back is one of a growth that happened before the block was vended. *)
LEMMA RejectedIsForeign ==
    ASSUME IInv, NEW t \in Threads, GuardRejects(t)
    PROVE  blk[t] \notin 1 .. Grown /\ ~ Freeing(t)
<1>1. PICK list \in ReadsOverflow(blk[t]) : blk[t] \notin Owned(list)
  BY DEF GuardRejects
<1>2. ~ Freeing(t)
  <2>1. SUFFICES ASSUME Freeing(t) PROVE FALSE
    OBVIOUS
  <2>2. blk[t] \in Blocks /\ blk[t] <= GrownTo[seen[blk[t]]]
    BY <2>1 DEF IInv, SeenSound, Freeing
  <2>3. blk[t] \in Nat \ {0} /\ blk[t] <= GrownTo[GrowthsBefore(blk[t])]
    BY <2>2, NAssumption DEF GrowthsBefore
  <2> QED BY <1>1, <2>3, ReadCovers
<1>3. blk[t] \notin Blocks
  BY <1>2 DEF Freeing, GuardRejects
<1> QED BY <1>2, <1>3, GrownStep

(* The guard lets only blocks through. *)
LEMMA AcceptedIsBlock ==
    ASSUME IInv, NEW t \in Threads,
           \/ GuardFirst(t) /\ blk[t] \in SlotsOf(FirstChunk)
           \/ GuardAccepts(t)
    PROVE  blk[t] \in Blocks
<1>1. SlotsOf(FirstChunk) \subseteq Blocks
  <2>1. SlotAddresses(1, 1, N) = 1 .. (1 + N - 1)
    BY NAssumption, SlotInterval
  <2> QED BY <2>1, NAssumption DEF SlotsOf, FirstChunk
<1>2. Owned(overflow) \subseteq Blocks
  <2>1. Grown * Factor <= MaxBlocks \/ ~ Linked
    BY DEF IInv, ChunkFits, Growing, Linked
  <2> QED BY <2>1, GrownStep, NAssumption, FactorAssumption DEF IInv, ChunksCounted
<1>3. GuardAccepts(t) => blk[t] \in Owned(overflow)
  BY ReadCovers DEF GuardAccepts
<1> QED BY <1>1, <1>2, <1>3

(* What a step outside the critical section leaves alone, and its types. *)
LEMMA LocalTypes ==
    ASSUME IInv, NEW t \in Threads, Local(t) \/ Locking(t)
    PROVE  /\ ~ Critical(t)
           /\ \A u \in Threads \ {t} : pc'[u] = pc[u] /\ blk'[u] = blk[u]
           /\ UNCHANGED <<head, next, overflow, grow_count, held, chunk, seen>>
           /\ TypeOK'
           /\ Freeing(t)' <=> Freeing(t)
           /\ Freeing(t) => blk'[t] = blk[t]
           /\ pc'[t] \in {"pushlock", "push"} => blk'[t] \in Blocks
<1>0. TypeOK /\ GuardPassed
  BY DEF IInv, TypeOK
<1>1. CASE AllocBegin(t)
  BY <1>0, <1>1
     DEF AllocBegin, Goto, Critical, TypeOK, Freeing, GuardPassed
<1>2. CASE FreeNull(t)
  BY <1>0, <1>2
     DEF FreeNull, Return, Goto, Critical, TypeOK, Freeing, GuardPassed
<1>3. CASE GuardFirst(t)
  BY <1>0, <1>3, AcceptedIsBlock
     DEF GuardFirst, Goto, Critical, TypeOK, Freeing, GuardPassed
<1>4. CASE GuardAccepts(t)
  BY <1>0, <1>4, AcceptedIsBlock
     DEF GuardAccepts, Goto, Critical, TypeOK, Freeing, GuardPassed
<1>5. CASE GuardRejects(t)
  BY <1>0, <1>5, RejectedIsForeign
     DEF GuardRejects, Return, Goto, Critical, TypeOK, Freeing, GuardPassed
<1>6. CASE PopLock(t)
  BY <1>0, <1>6
     DEF PopLock, Acquire, Goto, Critical, TypeOK, Freeing, GuardPassed
<1>7. CASE PushLock(t)
  BY <1>0, <1>7
     DEF PushLock, Acquire, Goto, Critical, TypeOK, Freeing, GuardPassed
<1> QED BY <1>1, <1>2, <1>3, <1>4, <1>5, <1>6, <1>7 DEF Local, Locking

(* A step outside the critical section, or one that takes the mutex, preserves
   the invariant. *)
LEMMA LocalStep ==
    ASSUME IInv, NEW t \in Threads, Local(t) \/ Locking(t)
    PROVE  IInv' /\ Capacity' = Capacity /\ Available' = Available /\ held' = held
<1>1. /\ ~ Critical(t)
      /\ \A u \in Threads \ {t} : pc'[u] = pc[u] /\ blk'[u] = blk[u]
      /\ UNCHANGED <<head, next, overflow, grow_count, held, chunk, seen>>
      /\ TypeOK'
      /\ Freeing(t)' <=> Freeing(t)
      /\ Freeing(t) => blk'[t] = blk[t]
      /\ pc'[t] \in {"pushlock", "push"} => blk'[t] \in Blocks
  BY LocalTypes
<1>2. \/ mutex' = mutex /\ ~ Critical(t)'
      \/ mutex = NoThread /\ mutex' = t /\ pc'[t] \in {"pop", "push"}
  BY DEF IInv, TypeOK, Local, Locking, AllocBegin, FreeNull, GuardFirst, GuardAccepts,
         GuardRejects, PopLock, PushLock, Acquire, Return, Goto, Critical
<1>3. MutualExclusion'
  BY <1>1, <1>2, ThreadAssumption DEF IInv, MutualExclusion, Critical
<1>4. GuardPassed'
  BY <1>1 DEF IInv, GuardPassed
<1>5. (Growing' <=> Growing) /\ (Linked' <=> Linked)
  BY <1>1, <1>2, OutsideFrame
<1>6. ChunkFits' /\ ChunksCounted' /\ ChunksDisjoint' /\ ChunksInOrder' /\ Grown' = Grown /\ Capacity' = Capacity
  BY <1>1, <1>5, GrowthFrame DEF IInv, ChunkFits
<1>7. \A u \in Threads : (Freeing(u)' <=> Freeing(u)) /\ (Freeing(u) => blk'[u] = blk[u])
  BY <1>1 DEF Freeing
<1>8. OwnershipSound' /\ SeenSound' /\ Available' = Available
  BY <1>1, <1>6, <1>7, TransitFrame
<1>9. FreeListExact'
  BY <1>1, <1>8 DEF IInv, FreeListExact
<1> QED BY <1>1, <1>3, <1>4, <1>6, <1>8, <1>9 DEF IInv

-----------------------------------------------------------------------------
(* The steps of the holder of the mutex. *)

(* The end of a call: the mutex is free again. *)
LEMMA ReleaseStep ==
    ASSUME IInv, NEW t \in Threads, Critical(t), Release, Return(t)
    PROVE  /\ mutex = t
           /\ MutualExclusion' /\ GuardPassed' /\ ~ Growing' /\ ~ Linked'
           /\ mutex' \in Threads \cup {NoThread}
           /\ pc' \in [Threads -> {"idle", "lock", "pop", "grow", "publish",
                                   "guard", "walk", "pushlock", "push"}]
           /\ blk' \in [Threads -> {NULL, Foreign} \cup Blocks]
           /\ pc'[t] = "idle" /\ ~ Freeing(t)'
           /\ \A u \in Threads \ {t} : pc'[u] = pc[u] /\ blk'[u] = blk[u]
<1>1. TypeOK /\ MutualExclusion /\ GuardPassed
  BY DEF IInv
<1>2. /\ pc' \in [Threads -> {"idle", "lock", "pop", "grow", "publish",
                              "guard", "walk", "pushlock", "push"}]
      /\ blk' \in [Threads -> {NULL, Foreign} \cup Blocks]
      /\ pc'[t] = "idle"
      /\ \A u \in Threads \ {t} : pc'[u] = pc[u] /\ blk'[u] = blk[u]
  BY <1>1 DEF TypeOK, Return, Goto
<1>3. mutex = t /\ mutex' = NoThread
  BY <1>1 DEF MutualExclusion, Release
<1>4. MutualExclusion'
  BY <1>1, <1>2, <1>3, ThreadAssumption DEF MutualExclusion, Critical
<1>5. GuardPassed'
  BY <1>1, <1>2 DEF GuardPassed
<1>6. ~ Growing' /\ ~ Linked'
  BY <1>3, ThreadAssumption DEF Growing, Linked
<1>7. ~ Freeing(t)'
  BY <1>2 DEF Freeing
<1> QED BY <1>2, <1>3, <1>4, <1>5, <1>6, <1>7

(* While the holder is not growing the pool, a call that ends leaves the chunks. *)
LEMMA NoGrowthEnds ==
    ASSUME IInv, ~ Growing, ~ Growing', ~ Linked', UNCHANGED <<overflow, grow_count, chunk>>
    PROVE  ChunkFits' /\ ChunksCounted' /\ ChunksDisjoint' /\ ChunksInOrder' /\ Grown' = Grown
           /\ Capacity' = Capacity
BY DEF IInv, ChunkFits, ChunksCounted, ChunksDisjoint, ChunksInOrder, Grown, Capacity, Growing, Linked

(* Who pops a block is sure of its growth: it holds the mutex, and the first chunk
   needs none. *)
LEMMA VendKnown ==
    ASSUME IInv, NEW b \in 1 .. Grown
    PROVE  /\ b \in SlotsOf(FirstChunk) => b <= GrownTo[0]
           /\ b <= GrownTo[grow_count]
<1>1. SlotAddresses(1, 1, N) = 1 .. (1 + N - 1)
  BY NAssumption, SlotInterval
<1> QED BY <1>1, NAssumption, GrownStep, GrownToUnfolds DEF SlotsOf, FirstChunk, Grown

(* A pop takes the head; the block leaves the list for its new owner. *)
LEMMA PopStep ==
    ASSUME IInv, NEW t \in Threads, Pop(t)
    PROVE  /\ IInv'
           /\ head \in Available
           /\ Capacity' = Capacity
           /\ Available' = Available \ {head}
           /\ held' = held \cup {head}
<1> USE DEF IInv
<1>1. /\ pc[t] = "pop" /\ Critical(t) /\ Release /\ Return(t)
      /\ head # NULL /\ head' = next[head] /\ held' = held \cup {head}
      /\ seen' = [seen EXCEPT ![head] = IF head \in SlotsOf(FirstChunk) THEN 0 ELSE grow_count]
      /\ UNCHANGED <<next, overflow, grow_count, chunk>>
  BY DEF Pop, Vend, Critical
<1>2. head \in Available /\ next[head] \in {NULL} \cup Available
  BY <1>1, AvailableFinite, ListHead DEF FreeListExact
<1>3. head \in 1 .. Grown /\ head \notin held /\ head \notin InTransit /\ head \in Blocks
      /\ next[head] \in {NULL} \cup Blocks
  BY <1>2, AvailableFinite, GrownStep DEF Available
<1>4. ~ Growing
  BY <1>1, ReleaseStep DEF Growing
<1>5. ChunkFits' /\ ChunksCounted' /\ ChunksDisjoint' /\ ChunksInOrder' /\ Grown' = Grown /\ Capacity' = Capacity
  BY <1>1, <1>4, ReleaseStep, NoGrowthEnds
<1>6. TypeOK'
  BY <1>1, <1>3, ReleaseStep DEF TypeOK
<1>7. MutualExclusion' /\ GuardPassed'
  BY <1>1, ReleaseStep
<1>8. \A u \in Threads : (Freeing(u)' <=> Freeing(u)) /\ (Freeing(u) => blk'[u] = blk[u])
  <2>1. ~ Freeing(t) /\ ~ Freeing(t)'
    BY <1>1, ReleaseStep DEF Freeing
  <2>2. \A u \in Threads \ {t} : (Freeing(u)' <=> Freeing(u)) /\ blk'[u] = blk[u]
    BY <1>1, ReleaseStep DEF Freeing
  <2> QED BY <2>1, <2>2
<1>9. InTransit' = InTransit
  <2>1. \A b : b \in InTransit' <=> b \in InTransit
    BY <1>8, InTransitMember
  <2> QED BY <2>1
<1>10. Available' = Available \ {head}
  BY <1>1, <1>5, <1>9 DEF Available
<1>11. FreeListExact'
  BY <1>1, <1>10, AvailableFinite, ListPop DEF FreeListExact
<1>12. OwnershipSound'
  <2>1. \A u \in Threads : Freeing(u) => blk[u] # head
    BY <1>3, InTransitMember
  <2> QED BY <2>1, <1>1, <1>3, <1>5, <1>8 DEF OwnershipSound
<1>13. SeenSound'
  <2>1. \A u \in Threads : Freeing(u) => blk[u] # head /\ blk[u] \in Blocks
    BY <1>3, InTransitMember DEF Freeing
  <2> QED BY <2>1, <1>1, <1>3, <1>8, VendKnown DEF SeenSound, TypeOK
<1> QED BY <1>1, <1>2, <1>5, <1>6, <1>7, <1>10, <1>11, <1>12, <1>13

(* An alloc of an exhausted pool that does not grow changes nothing. *)
LEMMA PopExhaustedStep ==
    ASSUME IInv, NEW t \in Threads, PopExhausted(t)
    PROVE  IInv' /\ Capacity' = Capacity /\ Available' = Available /\ held' = held
<1> USE DEF IInv
<1>1. /\ pc[t] = "pop" /\ Critical(t) /\ Release /\ Return(t)
      /\ UNCHANGED <<head, next, overflow, grow_count, held, chunk, seen>>
  BY DEF PopExhausted, Critical
<1>2. ~ Growing
  BY <1>1, ReleaseStep DEF Growing
<1>3. ChunkFits' /\ ChunksCounted' /\ ChunksDisjoint' /\ ChunksInOrder' /\ Grown' = Grown /\ Capacity' = Capacity
  BY <1>1, <1>2, ReleaseStep, NoGrowthEnds
<1>4. TypeOK'
  BY <1>1, ReleaseStep DEF TypeOK
<1>5. MutualExclusion' /\ GuardPassed'
  BY <1>1, ReleaseStep
<1>6. \A u \in Threads : (Freeing(u)' <=> Freeing(u)) /\ (Freeing(u) => blk'[u] = blk[u])
  <2>1. ~ Freeing(t) /\ ~ Freeing(t)'
    BY <1>1, ReleaseStep DEF Freeing
  <2>2. \A u \in Threads \ {t} : (Freeing(u)' <=> Freeing(u)) /\ blk'[u] = blk[u]
    BY <1>1, ReleaseStep DEF Freeing
  <2> QED BY <2>1, <2>2
<1>7. OwnershipSound' /\ SeenSound' /\ Available' = Available
  BY <1>1, <1>3, <1>6, TransitFrame
<1>8. FreeListExact'
  BY <1>1, <1>7 DEF FreeListExact
<1> QED BY <1>1, <1>3, <1>4, <1>5, <1>7, <1>8

(* A push links its block to the head and makes it the head. *)
LEMMA PushStep ==
    ASSUME IInv, NEW t \in Threads, Push(t)
    PROVE  /\ IInv'
           /\ blk[t] \in Capacity
           /\ Capacity' = Capacity
           /\ Available' = Available \cup {blk[t]}
           /\ held' = held
<1> USE DEF IInv
<1>1. /\ pc[t] = "push" /\ Critical(t) /\ Release /\ Return(t)
      /\ next' = [next EXCEPT ![blk[t]] = head] /\ head' = blk[t]
      /\ seen' = [seen EXCEPT ![blk[t]] = 0]
      /\ UNCHANGED <<overflow, grow_count, held, chunk>>
  BY DEF Push, Critical
<1>2. blk[t] \in Blocks /\ Freeing(t)
  BY <1>1 DEF GuardPassed, Freeing
<1>3. /\ blk[t] \in (1 .. Grown) \ held
      /\ \A u \in Threads \ {t} : Freeing(u) => blk[u] # blk[t]
  BY <1>2 DEF OwnershipSound
<1>4. blk[t] \notin Available
  BY <1>2, InTransitMember DEF Available
<1>5. ~ Growing
  BY <1>1, ReleaseStep DEF Growing
<1>6. ChunkFits' /\ ChunksCounted' /\ ChunksDisjoint' /\ ChunksInOrder' /\ Grown' = Grown /\ Capacity' = Capacity
  BY <1>1, <1>5, ReleaseStep, NoGrowthEnds
<1>7. TypeOK'
  <2>1. next' \in [Blocks -> Word] /\ head' \in Blocks
    BY <1>1, <1>2 DEF TypeOK, Word
  <2> QED BY <2>1, <1>1, ReleaseStep DEF TypeOK
<1>8. MutualExclusion' /\ GuardPassed'
  BY <1>1, ReleaseStep
<1>9. /\ ~ Freeing(t)'
      /\ \A u \in Threads \ {t} : (Freeing(u)' <=> Freeing(u)) /\ blk'[u] = blk[u]
  BY <1>1, ReleaseStep DEF Freeing
<1>10. \A b : b \in InTransit' <=> b \in InTransit /\ b # blk[t]
  <2> TAKE b
  <2>1. \A u \in Threads : Freeing(u)' <=> Freeing(u) /\ u # t
    BY <1>9
  <2> QED BY <2>1, <1>2, <1>3, <1>9, InTransitMember
<1>11. Available' = Available \cup {blk[t]}
  BY <1>1, <1>3, <1>6, <1>10, CapacityGrown DEF Available
<1>12. FreeListExact'
  <2>1. \A b \in Available : next'[b] = next[b]
    BY <1>1, <1>4, AvailableFinite, GrownStep DEF TypeOK
  <2>2. ListsExactly(head, next', Available)
    BY <2>1, ListFrame DEF FreeListExact
  <2>3. next'[blk[t]] = head
    BY <1>1, <1>2 DEF TypeOK
  <2> QED BY <2>2, <2>3, <1>1, <1>4, <1>11, AvailableFinite, ListPush DEF FreeListExact
<1>13. OwnershipSound'
  BY <1>1, <1>6, <1>9 DEF OwnershipSound
<1>14. SeenSound'
  BY <1>1, <1>2, <1>3, <1>9 DEF SeenSound, TypeOK, Freeing
<1> QED BY <1>1, <1>3, <1>6, <1>7, <1>8, <1>11, <1>12, <1>13, <1>14, CapacityGrown

(* grow_pool seeds its slots behind the last one of the pool, all of them new: the
   lists and the owners of the others see nothing of it. *)
LEMMA GrowSeedStep ==
    ASSUME IInv, NEW t \in Threads, GrowSeed(t)
    PROVE  IInv' /\ Capacity' = Capacity /\ Available' = Available /\ held' = held
<1> USE DEF IInv
<1>1. /\ pc[t] = "pop" /\ mutex = t /\ head = NULL /\ Factor >= 2
      /\ pc' = [pc EXCEPT ![t] = "grow"]
      /\ UNCHANGED <<mutex, head, overflow, grow_count, held, blk, seen>>
  BY DEF GrowSeed, Goto, MutualExclusion, Critical
<1>2. ~ Growing /\ chunk = NoChunk /\ ~ Linked
  BY <1>1 DEF Growing, Linked, ChunkFits
<1>3. Total(overflow) = Grown
  <2>1. Owned(overflow) = 1 .. Grown
    BY <1>2 DEF ChunksCounted
  <2> QED BY <2>1, GrownStep, FS_Interval DEF Total
<1>4. /\ Grown * Factor <= MaxBlocks
      /\ chunk' = [first |-> Grown + 1, count |-> Grown * (Factor - 1)]
      /\ next' = initialize_free_list(next, Grown + 1, 1, Grown * (Factor - 1))
  BY <1>3 DEF GrowSeed
<1> DEFINE count == Grown * (Factor - 1)
<1> DEFINE new == SlotAddresses(Grown + 1, 1, count)
<1>5. /\ count \in Nat \ {0} /\ Grown \in Nat
      /\ new = (Grown + 1) .. (Grown * Factor) /\ new \subseteq Blocks
      /\ Grown + count = Grown * Factor
  BY <1>1, <1>4, NewSlots, GrownStep
<1>6. DOMAIN next = Blocks /\ next \in [Blocks -> Word]
  BY DEF TypeOK
<1>7. ListsExactly(Grown + 1, next', new) /\ SlotsOf(chunk') = new /\ chunk'.first = Grown + 1
  <2>1. SlotsOf(chunk') = new /\ chunk'.first = Grown + 1
    BY <1>4 DEF SlotsOf
  <2> HIDE DEF count
  <2>2. ListsExactly(Grown + 1, initialize_free_list(next, Grown + 1, 1, count), new)
    <3>1. Grown + 1 \in Int /\ 1 \in Nat \ {0} /\ count \in Nat \ {0} /\ new \subseteq DOMAIN next
      BY <1>5, <1>6
    <3> QED BY <3>1, SeededList
  <2> QED BY <2>1, <2>2, <1>4 DEF count
<1>8. next' \in [Blocks -> Word] /\ \A b \in 1 .. Grown : next'[b] = next[b]
  <2>1. next' = [b \in Blocks |->
                    IF b \notin new THEN next[b]
                    ELSE IF b = (Grown + 1) + (count - 1) * 1 THEN NULL ELSE b + 1]
    BY <1>4, <1>6 DEF initialize_free_list
  <2> HIDE DEF count, new
  <2>2. ASSUME NEW b \in new, b # (Grown + 1) + (count - 1) * 1
        PROVE  b + 1 \in Blocks
    BY <2>2, <1>4, <1>5, NAssumption
  <2>3. \A b \in 1 .. Grown : b \in Blocks /\ b \notin new
    BY <1>5, GrownStep
  <2> QED BY <2>1, <2>2, <2>3, <1>6 DEF Word
<1>9. Growing' /\ ~ Linked'
  BY <1>1 DEF Growing, Linked, TypeOK
<1>10. Grown' = Grown /\ ChunkFits' /\ ChunksCounted' /\ ChunksDisjoint' /\ ChunksInOrder'
  <2>1. Grown' = Grown
    BY <1>1 DEF Grown
  <2> HIDE DEF new, count
  <2> QED BY <2>1, <1>1, <1>2, <1>4, <1>7, <1>9
          DEF ChunkFits, ChunksCounted, ChunksDisjoint, ChunksInOrder
<1>11. MutualExclusion' /\ GuardPassed'
  BY <1>1 DEF TypeOK, MutualExclusion, Critical, GuardPassed
<1>12. TypeOK'
  <2>1. chunk' \in Chunks
    <3>1. count \in Blocks /\ Grown + 1 \in Blocks
      BY <1>4, <1>5, NAssumption
    <3> QED BY <3>1, <1>4 DEF Chunks
  <2> QED BY <2>1, <1>1, <1>8 DEF TypeOK
<1>13. Capacity' = Capacity
  <2>1. Capacity' = Owned(overflow) \ SlotsOf(chunk')
    BY <1>1, <1>4, <1>5 DEF Capacity
  <2>2. Owned(overflow) = 1 .. Grown /\ Capacity = 1 .. Grown
    BY <1>2, CapacityGrown DEF ChunksCounted
  <2> QED BY <2>1, <2>2, <1>5, <1>7
<1>14. \A u \in Threads : (Freeing(u)' <=> Freeing(u)) /\ blk'[u] = blk[u]
  BY <1>1 DEF Freeing, TypeOK
<1>15. OwnershipSound' /\ SeenSound' /\ Available' = Available
  BY <1>1, <1>10, <1>13, <1>14, TransitFrame
<1>16. FreeListExact'
  BY <1>1, <1>8, <1>15, AvailableFinite, ListFrame DEF FreeListExact
<1> QED BY <1>1, <1>10, <1>11, <1>12, <1>13, <1>15, <1>16

(* Linking a chunk adds its slots. *)
LEMMA LinkedChunk ==
    ASSUME NEW list \in Seq(Chunks), NEW c \in Chunks
    PROVE  /\ <<c>> \o list \in Seq(Chunks)
           /\ Len(<<c>> \o list) = Len(list) + 1
           /\ ChunksOf(<<c>> \o list) = ChunksOf(list) \cup {c}
           /\ Owned(<<c>> \o list) = Owned(list) \cup SlotsOf(c)
<1> DEFINE more == <<c>> \o list
<1>1. /\ more \in Seq(Chunks) /\ Len(list) \in Nat /\ Len(more) = Len(list) + 1
      /\ more[1] = c /\ \A i \in 1 .. Len(list) : more[i + 1] = list[i]
      /\ DOMAIN more = 1 .. (Len(list) + 1) /\ DOMAIN list = 1 .. Len(list)
  OBVIOUS
<1> HIDE DEF more
<1>2. ChunksOf(more) = ChunksOf(list) \cup {c}
  <2>1. ASSUME NEW d \in {more[i] : i \in DOMAIN more}
        PROVE  d = c \/ d \in {list[i] : i \in DOMAIN list}
    <3>1. PICK i \in DOMAIN more : d = more[i]
      OBVIOUS
    <3>2. CASE i = 1
      BY <3>1, <3>2, <1>1
    <3>3. CASE i # 1
      <4>1. i - 1 \in 1 .. Len(list) /\ (i - 1) + 1 = i
        BY <3>3, <1>1
      <4> QED BY <3>1, <4>1, <1>1
    <3> QED BY <3>2, <3>3
  <2>2. ASSUME NEW i \in DOMAIN list
        PROVE  list[i] \in {more[j] : j \in DOMAIN more}
    <3>1. i + 1 \in DOMAIN more /\ more[i + 1] = list[i]
      BY <1>1
    <3> QED BY <3>1
  <2>3. c \in {more[j] : j \in DOMAIN more}
    BY <1>1
  <2> QED BY <2>1, <2>2, <2>3 DEF ChunksOf
<1>3. Owned(more) = Owned(list) \cup SlotsOf(c)
  BY <1>2 DEF Owned
<1> QED BY <1>1, <1>2, <1>3 DEF more

(* The one write that a guard outside the mutex may read: the chunk is complete by
   then, and its slots belong to nobody. *)
LEMMA GrowLinkStep ==
    ASSUME IInv, NEW t \in Threads, GrowLink(t)
    PROVE  IInv' /\ Capacity' = Capacity /\ Available' = Available /\ held' = held
<1> USE DEF IInv
<1>1. /\ pc[t] = "grow" /\ mutex = t /\ pc' = [pc EXCEPT ![t] = "publish"]
      /\ overflow' = <<chunk>> \o overflow
      /\ UNCHANGED <<mutex, head, next, grow_count, held, blk, chunk, seen>>
  BY DEF GrowLink, Goto, MutualExclusion, Critical
<1>2. Growing /\ ~ Linked /\ Growing' /\ Linked'
  BY <1>1 DEF Growing, Linked, TypeOK
<1>3. /\ chunk \in Chunks /\ chunk # NoChunk
      /\ SlotsOf(chunk) = (Grown + 1) .. (Grown * Factor)
  BY <1>2, ChunkSlots
<1>4. /\ overflow' \in Seq(Chunks) /\ Len(overflow') = Len(overflow) + 1
      /\ ChunksOf(overflow') = ChunksOf(overflow) \cup {chunk}
      /\ Owned(overflow') = Owned(overflow) \cup SlotsOf(chunk)
  BY <1>1, <1>3, LinkedChunk DEF TypeOK
<1>5. Owned(overflow) = 1 .. Grown /\ Grown' = Grown
  BY <1>1, <1>2 DEF ChunksCounted, Grown
<1>6. ChunksCounted'
  <2>1. Owned(overflow') = 1 .. (Grown * Factor)
    <3>1. Grown * Factor \in Nat /\ Grown <= Grown * Factor
      BY <1>2, ChunkSlots, NewSlots, GrownStep
    <3> QED BY <3>1, <1>3, <1>4, <1>5, GrownStep
  <2> QED BY <2>1, <1>1, <1>2, <1>4, <1>5 DEF ChunksCounted
<1>7. ChunkFits'
  BY <1>1, <1>2, <1>5 DEF ChunkFits
<1>8. ChunksDisjoint'
  <2>1. \A c \in ChunksOf(overflow) : SlotsOf(c) \cap SlotsOf(chunk) = {}
    <3>1. \A c \in ChunksOf(overflow) : SlotsOf(c) \subseteq 1 .. Grown
      BY <1>5 DEF Owned
    <3>2. (1 .. Grown) \cap SlotsOf(chunk) = {}
      BY <1>3, GrownStep
    <3> QED BY <3>1, <3>2
  <2> QED BY <2>1, <1>1, <1>4 DEF ChunksDisjoint
<1>14. ChunksInOrder'
  <2> DEFINE len == Len(overflow)
  <2>1. /\ len = grow_count /\ len \in Nat /\ Len(overflow') = len + 1
        /\ GrownTo[len] = Grown /\ GrownTo[len + 1] = Grown * Factor
        /\ Grown \in Nat /\ Grown * Factor \in Nat /\ Grown <= Grown * Factor
    BY <1>2, <1>4, ChunkSlots, NewSlots, GrownStep DEF ChunksCounted, Grown
  <2>2. overflow'[1] = chunk /\ \A i \in 2 .. (len + 1) : overflow'[i] = overflow[i - 1]
    BY <1>1, <1>3 DEF TypeOK
  <2> HIDE DEF len
  <2>3. \A g \in 0 .. len : /\ GrownTo[g] \in Nat
                           /\ \A h \in g .. len : GrownTo[g] <= GrownTo[h]
    BY DEF ChunksInOrder, len
  <2>4. \A g \in 0 .. len : GrownTo[g] <= Grown
    BY <2>1, <2>3
  <2>5. \A g \in 0 .. (len + 1) : /\ GrownTo[g] \in Nat
                                 /\ \A h \in g .. (len + 1) : GrownTo[g] <= GrownTo[h]
    <3> SUFFICES ASSUME NEW g \in 0 .. (len + 1)
                 PROVE  /\ GrownTo[g] \in Nat
                        /\ \A h \in g .. (len + 1) : GrownTo[g] <= GrownTo[h]
      OBVIOUS
    <3>1. CASE g = len + 1
      BY <3>1, <2>1
    <3>2. CASE g \in 0 .. len
      <4>1. GrownTo[g] \in Nat /\ GrownTo[g] <= Grown /\ \A h \in g .. len : GrownTo[g] <= GrownTo[h]
        BY <3>2, <2>3, <2>4
      <4>2. GrownTo[g] <= GrownTo[len + 1]
        BY <4>1, <2>1
      <4> QED BY <4>1, <4>2, <2>1
    <3> QED BY <3>1, <3>2, <2>1
  <2> DEFINE more == len + 1
  <2>6. ASSUME NEW i \in 1 .. more
        PROVE  SlotsOf(overflow'[i]) = (GrownTo[more - i] + 1) .. GrownTo[more - i + 1]
    <3>1. CASE i = 1
      BY <3>1, <1>3, <2>1, <2>2
    <3>2. CASE i # 1
      <4>1. i - 1 \in 1 .. len /\ overflow'[i] = overflow[i - 1]
        BY <3>2, <2>1, <2>2
      <4>2. PICK g \in 0 .. len : g = len - (i - 1) /\ g = more - i
        BY <4>1, <2>1
      <4>3. SlotsOf(overflow[i - 1]) = (GrownTo[g] + 1) .. GrownTo[g + 1]
        BY <4>1, <4>2 DEF ChunksInOrder, len
      <4> HIDE DEF more
      <4> QED BY <4>1, <4>2, <4>3
    <3> QED BY <3>1, <3>2
  <2>7. Len(overflow') = more
    BY <2>1
  <2> HIDE DEF more
  <2>8. \A g \in 0 .. Len(overflow') :
          /\ GrownTo[g] \in Nat
          /\ \A h \in g .. Len(overflow') : GrownTo[g] <= GrownTo[h]
    BY <2>5, <2>7 DEF more
  <2>9. \A i \in 1 .. Len(overflow') :
          SlotsOf(overflow'[i]) =
              (GrownTo[Len(overflow') - i] + 1) .. GrownTo[Len(overflow') - i + 1]
    BY <2>6, <2>7
  <2> QED BY <2>8, <2>9 DEF ChunksInOrder
<1>9. TypeOK' /\ MutualExclusion' /\ GuardPassed'
  BY <1>1, <1>4 DEF TypeOK, MutualExclusion, Critical, GuardPassed
<1>10. Capacity' = Capacity
  BY <1>1, <1>3, <1>4, <1>5 DEF Capacity
<1>11. \A u \in Threads : (Freeing(u)' <=> Freeing(u)) /\ blk'[u] = blk[u]
  BY <1>1 DEF Freeing, TypeOK
<1>12. OwnershipSound' /\ SeenSound' /\ Available' = Available
  BY <1>1, <1>5, <1>10, <1>11, TransitFrame
<1>13. FreeListExact'
  BY <1>1, <1>12 DEF FreeListExact
<1> QED BY <1>1, <1>6, <1>7, <1>8, <1>9, <1>10, <1>12, <1>13, <1>14

(* The growth ends with the pop that needed it: the chunk's slots become capacity,
   the first one is vended and the others are the free list. *)
LEMMA GrowPublishStep ==
    ASSUME IInv, NEW t \in Threads, GrowPublish(t)
    PROVE  /\ IInv'
           /\ Available = {}
           /\ chunk.first \in Capacity' \ Capacity
           /\ Capacity \subseteq Capacity' /\ Capacity' \subseteq Blocks
           /\ Available' = (Capacity' \ Capacity) \ {chunk.first}
           /\ held' = held \cup {chunk.first}
<1> USE DEF IInv
<1>1. /\ pc[t] = "publish" /\ Critical(t) /\ Release /\ Return(t)
      /\ head' = next[chunk.first] /\ held' = held \cup {chunk.first}
      /\ grow_count' = grow_count + 1 /\ chunk' = NoChunk
      /\ seen' = [seen EXCEPT ![chunk.first] =
                     IF chunk.first \in SlotsOf(FirstChunk) THEN 0 ELSE grow_count + 1]
      /\ UNCHANGED <<next, overflow>>
  BY DEF GrowPublish, Vend, Critical
<1>2. Growing /\ Linked /\ ~ Growing' /\ ~ Linked'
  BY <1>1, ReleaseStep DEF Growing, Linked
<1> DEFINE b == chunk.first
<1> DEFINE new == SlotsOf(chunk)
<1>3. /\ new = (Grown + 1) .. (Grown * Factor) /\ b \in new /\ new \subseteq Blocks
      /\ Grown \in Nat \ {0} /\ Grown * Factor \in Nat /\ Grown + 1 <= Grown * Factor
      /\ Grown * Factor \in Blocks
  BY <1>2, ChunkSlots, NewSlots, GrownStep, NAssumption
<1>4. ListsExactly(b, next, new) /\ head = NULL
  BY <1>2 DEF ChunkFits
<1> HIDE DEF b, new
<1>5. IsFiniteSet(new) /\ NULL \notin new /\ b # NULL
  <2>1. IsFiniteSet((Grown + 1) .. (Grown * Factor))
    BY <1>3, FS_Interval
  <2> QED BY <2>1, <1>3
<1>6. ListsExactly(next[b], next, new \ {b}) /\ next[b] \in {NULL} \cup new
  BY <1>3, <1>4, <1>5, ListPop, ListHead
<1>7. Grown' = Grown * Factor
  BY <1>1, GrownStep DEF Grown
<1>8. ChunkFits' /\ ChunksDisjoint' /\ ChunksInOrder' /\ ChunksCounted'
  <2>1. Owned(overflow) = 1 .. (Grown * Factor) /\ Len(overflow) = grow_count + 1
    BY <1>2 DEF ChunksCounted
  <2> QED BY <2>1, <1>1, <1>2, <1>3, <1>7
          DEF ChunkFits, ChunksDisjoint, ChunksInOrder, ChunksCounted
<1>9. Capacity = 1 .. Grown /\ Capacity' = 1 .. (Grown * Factor)
  <2>1. Capacity' = Owned(overflow)
    BY <1>1 DEF Capacity
  <2> QED BY <2>1, <1>2, CapacityGrown DEF ChunksCounted
<1>10. Capacity' \ Capacity = new /\ Capacity \subseteq Capacity' /\ Capacity' \subseteq Blocks
  BY <1>3, <1>9, NAssumption
<1>11. Available = {}
  BY <1>4, AvailableFinite, ListHead DEF FreeListExact
<1>12. \A u \in Threads : (Freeing(u)' <=> Freeing(u)) /\ (Freeing(u) => blk'[u] = blk[u])
  <2>1. ~ Freeing(t) /\ ~ Freeing(t)'
    BY <1>1, ReleaseStep DEF Freeing
  <2>2. \A u \in Threads \ {t} : (Freeing(u)' <=> Freeing(u)) /\ blk'[u] = blk[u]
    BY <1>1, ReleaseStep DEF Freeing
  <2> QED BY <2>1, <2>2
<1>13. InTransit' = InTransit /\ InTransit \subseteq 1 .. Grown /\ held \subseteq 1 .. Grown
  <2>1. \A c : c \in InTransit' <=> c \in InTransit
    BY <1>12, InTransitMember
  <2>2. \A c \in InTransit : c \in 1 .. Grown
    BY InTransitMember DEF OwnershipSound
  <2> QED BY <2>1, <2>2 DEF OwnershipSound
<1>14. Available' = new \ {b}
  <2>1. Available' = Capacity' \ (held \cup {b} \cup InTransit)
    BY <1>1, <1>13 DEF Available, b
  <2>2. Capacity \ (held \cup InTransit) = {}
    BY <1>11 DEF Available
  <2> QED BY <2>1, <2>2, <1>9, <1>10, <1>13
<1>15. FreeListExact'
  BY <1>1, <1>6, <1>14 DEF FreeListExact, b
<1>16. OwnershipSound'
  <2>1. held' \subseteq 1 .. Grown'
    BY <1>1, <1>3, <1>7, <1>9, <1>10, <1>13 DEF b
  <2> SUFFICES ASSUME NEW u \in Threads, Freeing(u)'
               PROVE  /\ blk'[u] \in (1 .. Grown') \ held'
                      /\ \A v \in Threads \ {u} : Freeing(v)' => blk'[v] # blk'[u]
    BY <2>1 DEF OwnershipSound
  <2>2. blk'[u] = blk[u] /\ blk[u] \in (1 .. Grown) \ held
        /\ \A v \in Threads \ {u} : Freeing(v) => blk[v] # blk[u]
    BY <1>12 DEF OwnershipSound
  <2>3. blk[u] # b /\ blk[u] \in 1 .. Grown'
    BY <2>2, <1>3, <1>7, <1>9, <1>10
  <2> QED BY <2>2, <2>3, <1>1, <1>12 DEF b
<1>17. TypeOK'
  <2>1. head' \in {NULL} \cup Blocks /\ held' \subseteq Blocks /\ grow_count' \in Nat
    <3>1. next[b] \in {NULL} \cup Blocks /\ b \in Blocks
      BY <1>3, <1>6
    <3>2. held \subseteq Blocks /\ grow_count \in Nat
      BY DEF TypeOK
    <3>3. head' = next[b] /\ held' = held \cup {b} /\ grow_count' = grow_count + 1
      BY <1>1 DEF b
    <3> QED BY <3>1, <3>2, <3>3
  <2> QED BY <2>1, <1>1, ReleaseStep DEF TypeOK
<1>18. MutualExclusion' /\ GuardPassed'
  BY <1>1, ReleaseStep
<1>19. SeenSound'
  <2>1. b \in Blocks /\ b \in 1 .. Grown' /\ grow_count \in Nat /\ seen \in [Blocks -> Nat]
    BY <1>3, <1>7, <1>9, <1>10 DEF TypeOK
  <2>2. b \in SlotsOf(FirstChunk) => b <= GrownTo[0]
    <3>1. SlotAddresses(1, 1, N) = 1 .. (1 + N - 1)
      BY NAssumption, SlotInterval
    <3> QED BY <3>1, <2>1, NAssumption, GrownToUnfolds DEF SlotsOf, FirstChunk
  <2>3. b <= GrownTo[grow_count + 1]
    BY <2>1, <1>1 DEF Grown
  <2>4. seen'[b] = (IF b \in SlotsOf(FirstChunk) THEN 0 ELSE grow_count + 1)
        /\ \A c \in Blocks \ {b} : seen'[c] = seen[c]
    BY <1>1, <2>1 DEF b
  <2>5. \A c \in Blocks : seen'[c] <= grow_count'
    BY <1>1, <2>1, <2>4 DEF SeenSound
  <2>6. \A c \in held' : c <= GrownTo[seen'[c]]
    BY <1>1, <2>2, <2>3, <2>4 DEF SeenSound, TypeOK, b
  <2>7. ASSUME NEW u \in Threads, Freeing(u)'
        PROVE  blk'[u] <= GrownTo[seen'[blk'[u]]]
    <3>1. Freeing(u) /\ blk'[u] = blk[u] /\ blk[u] \in 1 .. Grown /\ blk[u] \in Blocks
      BY <2>7, <1>12 DEF OwnershipSound, Freeing
    <3>2. blk[u] # b
      BY <3>1, <1>3
    <3> QED BY <3>1, <3>2, <2>4 DEF SeenSound
  <2> QED BY <2>5, <2>6, <2>7 DEF SeenSound
<1> QED BY <1>1, <1>3, <1>8, <1>10, <1>11, <1>14, <1>15, <1>16, <1>17, <1>18, <1>19 DEF b

-----------------------------------------------------------------------------
(* The steps of the clients. *)

(* A client gives a block up: it is in transit instead of held. *)
LEMMA FreeBeginStep ==
    ASSUME IInv, NEW t \in Threads, FreeBegin(t)
    PROVE  IInv' /\ Capacity' = Capacity /\ Available' = Available
<1> USE DEF IInv
<1>1. PICK p \in held \cup {NULL, Foreign} :
         blk' = [blk EXCEPT ![t] = p] /\ held' = held \ {p}
  BY DEF FreeBegin
<1>2. /\ pc[t] = "idle" /\ pc' = [pc EXCEPT ![t] = "guard"]
      /\ UNCHANGED <<mutex, head, next, overflow, grow_count, chunk, seen>>
  BY DEF FreeBegin, Goto
<1>3. held \subseteq Blocks /\ (p \in Blocks <=> p \in held)
  BY NAssumption DEF TypeOK
<1>4. /\ ~ Freeing(t) /\ ~ Critical(t) /\ (Freeing(t)' <=> p \in held)
      /\ pc'[t] = "guard" /\ blk'[t] = p
      /\ \A u \in Threads \ {t} : (Freeing(u)' <=> Freeing(u)) /\ blk'[u] = blk[u] /\ pc'[u] = pc[u]
  BY <1>1, <1>2, <1>3 DEF Freeing, Critical, TypeOK
<1>5. (Growing' <=> Growing) /\ (Linked' <=> Linked)
  BY <1>2, <1>4, OutsideFrame
<1>6. ChunkFits' /\ ChunksCounted' /\ ChunksDisjoint' /\ ChunksInOrder' /\ Grown' = Grown /\ Capacity' = Capacity
  BY <1>2, <1>5, GrowthFrame DEF ChunkFits
<1>7. \A b : b \in InTransit' <=> b \in InTransit \/ (b = p /\ p \in held)
  BY <1>4, InTransitMember
<1>8. Available' = Available
  BY <1>1, <1>6, <1>7 DEF Available
<1>9. FreeListExact'
  BY <1>2, <1>8 DEF FreeListExact
<1>10. OwnershipSound'
  BY <1>1, <1>4, <1>6 DEF OwnershipSound
<1>11. TypeOK' /\ MutualExclusion' /\ GuardPassed'
  BY <1>1, <1>2, <1>3, <1>4 DEF TypeOK, MutualExclusion, Critical, GuardPassed
<1>12. SeenSound'
  BY <1>1, <1>2, <1>4 DEF SeenSound
<1> QED BY <1>6, <1>8, <1>9, <1>10, <1>11, <1>12

(* A client writes to a block of its own, which is on no list, the list of a
   chunk under construction included. *)
LEMMA ClientWriteStep ==
    ASSUME IInv, ClientWrite
    PROVE  IInv' /\ Capacity' = Capacity /\ Available' = Available
<1> USE DEF IInv
<1>1. PICK b \in held, w \in UserData : next' = [next EXCEPT ![b] = w]
  BY DEF ClientWrite
<1>2. UNCHANGED <<mutex, head, overflow, grow_count, held, pc, blk, chunk, seen>>
  BY DEF ClientWrite
<1>3. next \in [Blocks -> Word] /\ b \in Blocks /\ b \in 1 .. Grown /\ w \in Word
  BY DEF TypeOK, OwnershipSound, Word
<1>4. next' \in [Blocks -> Word] /\ \A c \in Blocks \ {b} : next'[c] = next[c]
  BY <1>1, <1>3
<1>5. (Growing' <=> Growing) /\ (Linked' <=> Linked)
  BY <1>2 DEF Growing, Linked
<1>6. Growing => ListsExactly(chunk.first, next', SlotsOf(chunk))
  <2> SUFFICES ASSUME Growing PROVE ListsExactly(chunk.first, next', SlotsOf(chunk))
    OBVIOUS
  <2>1. ListsExactly(chunk.first, next, SlotsOf(chunk))
    BY DEF ChunkFits
  <2>2. \A c \in SlotsOf(chunk) : next'[c] = next[c]
    BY <1>3, <1>4, ChunkSlots, GrownStep
  <2> QED BY <2>1, <2>2, ListFrame
<1>7. ChunkFits' /\ ChunksCounted' /\ ChunksDisjoint' /\ ChunksInOrder' /\ Grown' = Grown /\ Capacity' = Capacity
  BY <1>2, <1>5, <1>6, GrowthFrame
<1>8. \A u \in Threads : (Freeing(u)' <=> Freeing(u)) /\ blk'[u] = blk[u]
  BY <1>2 DEF Freeing
<1>9. OwnershipSound' /\ SeenSound' /\ Available' = Available
  BY <1>2, <1>7, <1>8, TransitFrame
<1>10. FreeListExact'
  <2>1. \A c \in Available : next'[c] = next[c]
    BY <1>4, AvailableFinite, GrownStep DEF Available
  <2> QED BY <2>1, <1>2, <1>9, ListFrame DEF FreeListExact
<1>11. TypeOK' /\ MutualExclusion' /\ GuardPassed'
  BY <1>2, <1>4 DEF TypeOK, MutualExclusion, Critical, GuardPassed
<1> QED BY <1>7, <1>9, <1>10, <1>11

-----------------------------------------------------------------------------
(* Initially the list is 1, 2, ..., N and no chunk was ever added. *)
LEMMA InitInvariant == Init => IInv
<1> SUFFICES ASSUME Init PROVE IInv
  OBVIOUS
<1> USE DEF Init
<1>1. N \in Nat \ {0} /\ MaxBlocks \in Nat /\ N <= MaxBlocks
  BY NAssumption
<1>2. SlotAddresses(1, 1, N) = 1 .. N
  <2>1. SlotAddresses(1, 1, N) = 1 .. (1 + N - 1)
    BY <1>1, SlotInterval
  <2> QED BY <2>1, <1>1
<1>3. ChunksOf(overflow) = {FirstChunk} /\ SlotsOf(FirstChunk) = 1 .. N
      /\ Owned(overflow) = 1 .. N /\ Len(overflow) = 0
  <2>1. DOMAIN overflow = {} /\ Len(overflow) = 0
    OBVIOUS
  <2>2. ChunksOf(overflow) = {FirstChunk}
    BY <2>1 DEF ChunksOf
  <2>3. SlotsOf(FirstChunk) = 1 .. N
    BY <1>2 DEF SlotsOf, FirstChunk
  <2> QED BY <2>1, <2>2, <2>3 DEF Owned
<1>4. Grown = N
  BY GrownToUnfolds DEF Grown
<1>5. ~ Growing /\ ~ Linked
  BY ThreadAssumption DEF Growing, Linked
<1>6. ChunkFits /\ ChunksDisjoint
  BY <1>3, <1>5 DEF ChunkFits, ChunksDisjoint
<1>7. ChunksCounted
  BY <1>1, <1>3, <1>4, <1>5 DEF ChunksCounted
<1>8. next \in [Blocks -> Word]
  <2>1. next = [b \in Blocks |->
                  IF b \notin 1 .. N THEN NULL
                  ELSE IF b = 1 + (N - 1) * 1 THEN NULL ELSE b + 1]
    BY <1>2 DEF initialize_free_list
  <2> QED BY <2>1, <1>1 DEF Word
<1>9. TypeOK
  BY <1>1, <1>8 DEF TypeOK
<1>10. Capacity = 1 .. N /\ Available = 1 .. N
  <2>1. InTransit = {}
    BY InTransitMember DEF Freeing
  <2>2. Capacity = 1 .. N
    BY <1>3 DEF Capacity
  <2> QED BY <2>1, <2>2 DEF Available
<1>11. FreeListExact
  <2> DEFINE unset == [b \in Blocks |-> NULL]
  <2>1. SlotAddresses(1, 1, N) \subseteq DOMAIN unset
    BY <1>1, <1>2
  <2> HIDE DEF unset
  <2>2. ListsExactly(1, initialize_free_list(unset, 1, 1, N), SlotAddresses(1, 1, N))
    BY <2>1, <1>1, SeededList
  <2> QED BY <2>2, <1>2, <1>10 DEF FreeListExact, unset
<1>12. MutualExclusion /\ OwnershipSound /\ GuardPassed /\ SeenSound
  BY ThreadAssumption
     DEF MutualExclusion, Critical, OwnershipSound, Freeing, GuardPassed, SeenSound
<1>13. ChunksInOrder
  <2>1. GrownTo[0] \in Nat /\ 0 .. Len(overflow) = {0} /\ 1 .. Len(overflow) = {}
    BY <1>1, <1>3, GrownToUnfolds
  <2> QED BY <2>1, <1>3 DEF ChunksInOrder
<1> QED BY <1>6, <1>7, <1>9, <1>11, <1>12, <1>13 DEF IInv

(* A step that changes no variable. *)
LEMMA StutterStep ==
    ASSUME IInv, UNCHANGED vars
    PROVE  IInv' /\ Capacity' = Capacity /\ Available' = Available /\ held' = held
<1> USE DEF IInv
<1>1. UNCHANGED <<mutex, head, next, overflow, grow_count, held, pc, blk, chunk, seen>>
  BY DEF vars
<1>2. (Growing' <=> Growing) /\ (Linked' <=> Linked)
  BY <1>1 DEF Growing, Linked
<1>3. ChunkFits' /\ ChunksCounted' /\ ChunksDisjoint' /\ ChunksInOrder' /\ Grown' = Grown /\ Capacity' = Capacity
  BY <1>1, <1>2, GrowthFrame DEF ChunkFits
<1>4. \A u \in Threads : (Freeing(u)' <=> Freeing(u)) /\ blk'[u] = blk[u]
  BY <1>1 DEF Freeing
<1>5. OwnershipSound' /\ SeenSound' /\ Available' = Available
  BY <1>1, <1>3, <1>4, TransitFrame
<1>6. FreeListExact'
  BY <1>1, <1>5 DEF FreeListExact
<1>7. TypeOK' /\ MutualExclusion' /\ GuardPassed'
  BY <1>1 DEF TypeOK, MutualExclusion, Critical, GuardPassed
<1> QED BY <1>1, <1>3, <1>5, <1>6, <1>7

(* Every step preserves the invariant. *)
LEMMA NextInvariant == IInv /\ [Next]_vars => IInv'
<1> SUFFICES ASSUME IInv, [Next]_vars PROVE IInv'
  OBVIOUS
<1>1. CASE ClientWrite
  BY <1>1, ClientWriteStep
<1>2. CASE UNCHANGED vars
  BY <1>2, StutterStep
<1>3. ASSUME NEW t \in Threads, Begin(t) \/ Step(t)
      PROVE  IInv'
  <2>1. CASE FreeBegin(t)
    BY <2>1, FreeBeginStep
  <2>2. CASE Pop(t)
    BY <2>2, PopStep
  <2>3. CASE PopExhausted(t)
    BY <2>3, PopExhaustedStep
  <2>4. CASE GrowSeed(t)
    BY <2>4, GrowSeedStep
  <2>5. CASE GrowLink(t)
    BY <2>5, GrowLinkStep
  <2>6. CASE GrowPublish(t)
    BY <2>6, GrowPublishStep
  <2>7. CASE Push(t)
    BY <2>7, PushStep
  <2>8. CASE Local(t) \/ Locking(t)
    BY <2>8, LocalStep
  <2> QED BY <1>3, <2>1, <2>2, <2>3, <2>4, <2>5, <2>6, <2>7, <2>8
          DEF Begin, Step, Local, Locking
<1> QED BY <1>1, <1>2, <1>3 DEF Next

(* The inductive invariant holds in every reachable state. *)
THEOREM Invariance == Spec => []IInv
<1>1. Init => IInv
  BY InitInvariant
<1>2. IInv /\ [Next]_vars => IInv'
  BY NextInvariant
<1> QED BY <1>1, <1>2, PTL DEF Spec

(* The head never leaves the pool's slots: no client data becomes the head. *)
THEOREM TypeCorrect == Spec => []TypeOK
<1>1. IInv => TypeOK
  BY DEF IInv
<1> QED BY <1>1, Invariance, PTL

(* Under any interleaving of pops, pushes and growths the free list is the slots of
   the complete growths that nobody owns or returns. *)
THEOREM FreeListIsExact == Spec => []FreeListExact
<1>1. IInv => FreeListExact
  BY DEF IInv
<1> QED BY <1>1, Invariance, PTL

(* Whoever finds the pool exhausted, and however many do at once: the chunks do not
   overlap and grow the pool geometrically, one factor for each growth. *)
THEOREM GrowthIsGeometric == Spec => []GrowthGeometric
<1>1. ASSUME IInv PROVE GrowthGeometric
  <2>1. Cardinality(Capacity) = Grown
    BY <1>1, CapacityGrown, GrownStep, FS_Interval
  <2>2. Total(overflow) = GrownTo[Len(overflow)]
    <3>1. CASE Linked
      <4>1. Growing
        BY <3>1 DEF Growing, Linked
      <4>2. Grown * Factor \in Nat
        BY <1>1, <4>1, ChunkSlots, NewSlots
      <4>3. Owned(overflow) = 1 .. (Grown * Factor) /\ Len(overflow) = grow_count + 1
        BY <1>1, <3>1 DEF IInv, ChunksCounted
      <4>4. Cardinality(1 .. (Grown * Factor)) = Grown * Factor
        <5> DEFINE n == Grown * Factor
        <5> HIDE DEF n
        <5>1. Cardinality(1 .. n) = n
          BY <4>2, FS_Interval DEF n
        <5> QED BY <5>1 DEF n
      <4> QED BY <1>1, <4>3, <4>4, GrownStep DEF Total
    <3>2. CASE ~ Linked
      <4>1. Owned(overflow) = 1 .. Grown /\ Len(overflow) = grow_count
        BY <1>1, <3>2 DEF IInv, ChunksCounted
      <4> QED BY <1>1, <4>1, GrownStep, FS_Interval DEF Total, Grown
    <3> QED BY <3>1, <3>2
  <2> QED BY <1>1, <2>1, <2>2 DEF GrowthGeometric, IInv, ChunksDisjoint, Grown
<1> QED BY <1>1, Invariance, PTL

(* Both accessors, relaxed and unlocked, tell the owner of a block of at least the
   growths up to the one that acquired it, whatever growth is in progress. *)
THEOREM AccessorsCover == Spec => []AccessorsCoverOwnGrowth
<1>1. ASSUME IInv PROVE AccessorsCoverOwnGrowth
  <2> USE <1>1 DEF IInv
  <2> SUFFICES ASSUME NEW b \in held, NEW i \in DOMAIN overflow, b \in SlotsOf(overflow[i]),
                      NEW n \in memory_pool_growths(b) \cup memory_pool_metadata_bytes(b)
               PROVE  n > Len(overflow) - i
    BY DEF AccessorsCoverOwnGrowth
  <2> DEFINE len == Len(overflow)
  <2>1. /\ len \in Nat /\ i \in 1 .. len /\ b \in Blocks /\ b \in Nat
        /\ seen[b] \in Nat /\ seen[b] <= len
    BY NAssumption DEF TypeOK, SeenSound, ChunksCounted
  <2>2. /\ b <= GrownTo[seen[b]] /\ GrownTo[len - i] < b
        /\ GrownTo[len - i] \in Nat /\ GrownTo[seen[b]] \in Nat
    <3>1. len - i \in 0 .. len /\ seen[b] \in 0 .. len
      BY <2>1
    <3>2. GrownTo[len - i] \in Nat /\ GrownTo[seen[b]] \in Nat
      BY <3>1 DEF ChunksInOrder
    <3>3. b \in (GrownTo[len - i] + 1) .. GrownTo[len - i + 1]
      BY <2>1 DEF ChunksInOrder
    <3> QED BY <3>2, <3>3, <2>1 DEF SeenSound
  <2>3. len - i < seen[b]
    <3>1. SUFFICES ASSUME seen[b] <= len - i PROVE FALSE
      BY <2>1
    <3>2. GrownTo[seen[b]] <= GrownTo[len - i]
      BY <3>1, <2>1 DEF ChunksInOrder
    <3> QED BY <3>2, <2>1, <2>2
  <2>4. n \in Nat /\ seen[b] <= n
    <3>1. CASE n \in memory_pool_growths(b)
      BY <3>1, <2>1 DEF memory_pool_growths, TypeOK
    <3>2. CASE n \in memory_pool_metadata_bytes(b)
      <4>1. PICK list \in ReadsOverflow(b) : n = Len(list)
        BY <3>2 DEF memory_pool_metadata_bytes
      <4> QED BY <4>1, <2>1, ReadCovers DEF GrowthsBefore
    <3> QED BY <3>1, <3>2
  <2> QED BY <2>1, <2>3, <2>4
<1> QED BY <1>1, Invariance, PTL

-----------------------------------------------------------------------------
(* The refinement.  A pop is Vend, or with its growth GrowAndVend, or Refuse; a
   push is TakeBack; the guard that rejects is Ignore; the rest of a call is
   internal, the growth's steps before its last one included. *)

(* A step of thread t leaves the calls of the others alone. *)
LEMMA CallFrame ==
    ASSUME NEW t \in Threads,
           \A u \in Threads \ {t} : pc'[u] = pc[u] /\ blk'[u] = blk[u]
    PROVE  [u \in Threads |-> CallOf(u)]' =
              [[u \in Threads |-> CallOf(u)] EXCEPT ![t] = CallOf(t)']
BY DEF CallOf

(* The initial states are those of the abstract pool. *)
LEMMA InitRefines == Init => Abs!Init
<1> SUFFICES ASSUME Init PROVE Abs!Init
  OBVIOUS
<1>1. Available = Capacity
  BY InTransitMember DEF Available, Freeing, Init
<1>2. Capacity = 1 .. Grown /\ 1 \in 1 .. Grown /\ 1 .. Grown \subseteq Blocks
  BY InitInvariant, CapacityGrown, GrownStep
<1>3. [t \in Threads |-> CallOf(t)] = [t \in Threads |-> [op |-> "none"]]
  BY DEF Init, CallOf
<1> QED BY <1>1, <1>2, <1>3 DEF Abs!Init, Abs!NoCall, Init

(* Every step is one of the abstract pool, or a stutter. *)
LEMMA NextRefines == IInv /\ [Next]_vars => [Abs!Next]_(Abs!vars)
<1> SUFFICES ASSUME IInv, [Next]_vars PROVE [Abs!Next]_(Abs!vars)
  OBVIOUS
<1> DEFINE calls == [u \in Threads |-> CallOf(u)]
<1>0. TypeOK
  BY DEF IInv
<1>1. CASE ClientWrite
  <2>1. Capacity' = Capacity /\ Available' = Available /\ held' = held /\ calls' = calls
    BY <1>1, ClientWriteStep DEF ClientWrite, CallOf
  <2> QED BY <2>1 DEF Abs!vars
<1>2. CASE UNCHANGED vars
  <2>1. Capacity' = Capacity /\ Available' = Available /\ held' = held /\ calls' = calls
    BY <1>2, StutterStep DEF vars, CallOf
  <2> QED BY <2>1 DEF Abs!vars
<1>3. ASSUME NEW t \in Threads, Begin(t) \/ Step(t)
      PROVE  [Abs!Next]_(Abs!vars)
  <2>1. \A u \in Threads \ {t} : pc'[u] = pc[u] /\ blk'[u] = blk[u]
    BY <1>0, <1>3
       DEF Begin, Step, AllocBegin, PopLock, Pop, PopExhausted, GrowSeed, GrowLink,
           GrowPublish, FreeBegin, FreeNull, GuardFirst, GuardAccepts, GuardRejects,
           PushLock, Push, Return, Goto, TypeOK
  <2>2. calls' = [calls EXCEPT ![t] = CallOf(t)'] /\ calls[t] = CallOf(t)
    BY <2>1, CallFrame
  <2>3. CASE AllocBegin(t)
    <3>1. CallOf(t) = [op |-> "none"] /\ CallOf(t)' = [op |-> "alloc"]
      BY <2>3, <1>0 DEF AllocBegin, Goto, TypeOK, CallOf
    <3>2. Abs!BeginAlloc(t)
      BY <2>2, <2>3, <3>1, LocalStep DEF Local, Abs!BeginAlloc, Abs!NoCall, Abs!AllocCall
    <3> QED BY <3>2 DEF Abs!Next
  <2>4. CASE FreeBegin(t)
    <3>1. PICK p \in held \cup {NULL, Foreign} :
             blk' = [blk EXCEPT ![t] = p] /\ held' = held \ {p}
      BY <2>4 DEF FreeBegin
    <3>2. CallOf(t) = [op |-> "none"] /\ CallOf(t)' = [op |-> "free", arg |-> p]
      BY <2>4, <3>1, <1>0 DEF FreeBegin, Goto, TypeOK, CallOf
    <3>3. Capacity' = Capacity /\ Available' = Available
      BY <2>4, FreeBeginStep
    <3>4. Abs!BeginFree(t)
      BY <2>2, <3>1, <3>2, <3>3 DEF Abs!BeginFree, Abs!NoCall, Abs!FreeCall
    <3> QED BY <3>4 DEF Abs!Next
  <2>5. CASE Pop(t)
    <3>1. CallOf(t) = [op |-> "alloc"] /\ CallOf(t)' = [op |-> "none"]
      BY <2>5, <1>0 DEF Pop, Return, Goto, TypeOK, CallOf
    <3>2. Abs!Vend(t)
      BY <2>2, <2>5, <3>1, PopStep DEF Abs!Vend, Abs!AllocCall, Abs!NoCall, Abs!Return
    <3> QED BY <3>2 DEF Abs!Next
  <2>6. CASE PopExhausted(t)
    <3>1. CallOf(t) = [op |-> "alloc"] /\ CallOf(t)' = [op |-> "none"]
      BY <2>6, <1>0 DEF PopExhausted, Return, Goto, TypeOK, CallOf
    <3>2. Available = {}
      BY <2>6, AvailableFinite, ListHead DEF PopExhausted, IInv, FreeListExact
    <3>3. Abs!Refuse(t)
      BY <2>2, <2>6, <3>1, <3>2, PopExhaustedStep
         DEF Abs!Refuse, Abs!AllocCall, Abs!NoCall, Abs!Return
    <3> QED BY <3>3 DEF Abs!Next
  <2>7. CASE GrowPublish(t)
    <3>1. CallOf(t) = [op |-> "alloc"] /\ CallOf(t)' = [op |-> "none"]
      BY <2>7, <1>0 DEF GrowPublish, Return, Goto, TypeOK, CallOf
    <3>2. Abs!GrowAndVend(t)
      BY <2>2, <2>7, <3>1, GrowPublishStep
         DEF Abs!GrowAndVend, Abs!AllocCall, Abs!NoCall, Abs!Return
    <3> QED BY <3>2 DEF Abs!Next
  <2>8. CASE Push(t)
    <3>1. CallOf(t) = [op |-> "free", arg |-> blk[t]] /\ CallOf(t)' = [op |-> "none"]
      BY <2>8, <1>0 DEF Push, Return, Goto, TypeOK, CallOf
    <3>2. Abs!TakeBack(t)
      BY <2>2, <2>8, <3>1, PushStep DEF Abs!TakeBack, Abs!NoCall, Abs!Return
    <3> QED BY <3>2 DEF Abs!Next
  <2>9. CASE FreeNull(t) \/ GuardRejects(t)
    <3>1. CallOf(t) = [op |-> "free", arg |-> blk[t]] /\ CallOf(t)' = [op |-> "none"]
      BY <2>9, <1>0 DEF FreeNull, GuardRejects, Return, Goto, TypeOK, CallOf
    <3>2. blk[t] \notin Capacity
      BY <2>9, RejectedIsForeign, CapacityGrown, GrownStep DEF FreeNull
    <3>3. Abs!Ignore(t)
      BY <2>2, <2>9, <3>1, <3>2, LocalStep DEF Local, Abs!Ignore, Abs!NoCall, Abs!Return
    <3> QED BY <3>3 DEF Abs!Next
  <2>10. CASE GuardFirst(t) \/ GuardAccepts(t) \/ Locking(t)
    <3>1. CallOf(t)' = CallOf(t)
      BY <2>10, <1>0
         DEF GuardFirst, GuardAccepts, Locking, PopLock, PushLock, Goto, TypeOK, CallOf
    <3>2. Capacity' = Capacity /\ Available' = Available /\ held' = held
      BY <2>10, LocalStep DEF Local
    <3> QED BY <2>2, <3>1, <3>2 DEF Abs!vars
  <2>11. CASE GrowSeed(t) \/ GrowLink(t)
    <3>1. CallOf(t)' = CallOf(t)
      BY <2>11, <1>0 DEF GrowSeed, GrowLink, Goto, TypeOK, CallOf
    <3>2. Capacity' = Capacity /\ Available' = Available /\ held' = held
      BY <2>11, GrowSeedStep, GrowLinkStep
    <3> QED BY <2>2, <3>1, <3>2 DEF Abs!vars
  <2> QED BY <1>3, <2>3, <2>4, <2>5, <2>6, <2>7, <2>8, <2>9, <2>10, <2>11
          DEF Begin, Step, Locking
<1> QED BY <1>1, <1>2, <1>3 DEF Next

(* Every behaviour of the growing pool is one of the abstract pool: although its
   guard and its growth race, no block is refused by mistake or vended twice, and
   NULL means exhausted. *)
THEOREM Refinement == Spec => Linearizable
<1>1. Init => Abs!Init
  BY InitRefines
<1>2. IInv /\ [Next]_vars => [Abs!Next]_(Abs!vars)
  BY NextRefines
<1> QED BY <1>1, <1>2, Invariance, PTL DEF Spec, Linearizable, Abs!Spec
=============================================================================
