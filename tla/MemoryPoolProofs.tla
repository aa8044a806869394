-------------------------- MODULE MemoryPoolProofs --------------------------
(***************************************************************************)
(* The pool at the level of addresses is correct for every width of        *)
(* size_t, every alignment, heap, block size, count and growth factor,     *)
(* wherever operator new places the chunks and whenever it throws.         *)
(***************************************************************************)
EXTENDS MemoryPool, FreeListProofs, SequenceTheorems

USE DEF NULL

-----------------------------------------------------------------------------
(* The inductive invariant. *)

PoolSet == [backing : Addrs, head : {NULL} \cup Addrs, block_size : BlockSizes,
            block_count : BlockCounts, overflow : Seq(Chunk), grow_factor : Factors,
            grow_count : Nat]

StrideOf(p) == slot_stride(p.block_size)
ChunkSet(p) == {ChunksOf(p)[i] : i \in DOMAIN ChunksOf(p)}
SlotsIn(p, c) == SlotAddresses(c.backing, StrideOf(p), c.block_count)
SlotSet(p) == UNION {SlotsIn(p, c) : c \in ChunkSet(p)}

(* The region that operator new gave for chunk c. *)
Extent(p, c) == [base |-> c.backing, size |-> StrideOf(p) * c.block_count]

(* A chunk of several slots has a stride that keeps them aligned: a saturated
   stride leaves room for one slot only. *)
Steps(p, count) == count \in Nat \ {0} /\ (count = 1 \/ StrideOf(p) % POOL_ALIGNMENT = 0)

(* The arguments passed the guards of creation and of each growth. *)
Accepted(p) ==
    /\ p \in PoolSet
    /\ is_valid_block_size(p.block_size)
    /\ p.grow_factor = 0 \/ p.grow_factor >= 2
    /\ \A c \in ChunkSet(p) : Steps(p, c.block_count)

(* The regions are what operator new may give: apart, aligned, not empty. *)
HeapSound ==
    /\ \A r \in heap :
          /\ r \in [base : Addrs, size : Sizes \ {0}]
          /\ r.base + r.size - 1 <= AddrMax
          /\ Aligned(r.base)
    /\ \A q, r \in heap : q # r => Region(q.base, q.size) \cap Region(r.base, r.size) = {}

(* They are the extents of the chunks, one each. *)
Placed ==
    /\ heap = {Extent(pool, c) : c \in ChunkSet(pool)}
    /\ \A c, d \in ChunkSet(pool) : c.backing = d.backing => c = d
    /\ IsFiniteSet(heap) /\ Cardinality(heap) = Len(pool.overflow) + 1
    /\ objects = Len(pool.overflow) + 1

(* t and g are the functions that TotalOf and GrownTo define by recursion. *)
SumsUp(p, t) ==
    \A i \in 0 .. Len(p.overflow) :
        t[i] = IF i = 0 THEN p.block_count ELSE t[i - 1] + p.overflow[i].block_count

Multiplies(p, g) ==
    \A k \in 0 .. p.grow_count :
        g[k] = IF k = 0 THEN p.block_count ELSE g[k - 1] * p.grow_factor

(* The slots are as many as the chunks say, and as the growths make them. *)
Counted ==
    /\ pool.grow_count = Len(pool.overflow)
    /\ pool.grow_factor = 0 => pool.grow_count = 0
    /\ IsFiniteSet(Slots)
    /\ \E t, g \in [0 .. Len(pool.overflow) -> Nat] :
          /\ SumsUp(pool, t) /\ Multiplies(pool, g)
          /\ t[Len(pool.overflow)] = g[Len(pool.overflow)]
          /\ Cardinality(Slots) = t[Len(pool.overflow)]

IInv ==
    /\ TypeOK
    /\ HeapSound
    /\ IF Created THEN Accepted(pool) /\ Placed /\ Counted /\ FreeListExact
       ELSE heap = {} /\ objects = 0 /\ held = {}

-----------------------------------------------------------------------------
(* Numbers. *)

(* Addresses, sizes and words are what the assumptions make them; an address is
   a size. *)
LEMMA Bounds ==
    /\ AddrMax \in Nat /\ SizeMax \in Nat /\ AddrMax <= SizeMax
    /\ Sizes \subseteq Nat /\ Addrs \subseteq Nat \ {0} /\ Addrs \subseteq Int
    /\ NULL \notin Addrs /\ NULL \in Word /\ Junk \in Word /\ Addrs \subseteq Word
    /\ BlockSizes \subseteq Nat /\ BlockCounts \subseteq Nat /\ Factors \subseteq Nat
    /\ POOL_ALIGNMENT \in Nat \ {0}
BY SizeAssumption, AddrAssumption DEF Sizes, Addrs, Word

(* A product that the guard lets pass is not changed by wrapping. *)
LEMMA GuardedProduct ==
    ASSUME NEW a \in Nat, NEW b \in Nat, ~ would_overflow_product(a, b)
    PROVE  Wrap(a * b) = a * b /\ a * b \in Nat /\ a * b <= SizeMax
<1>1. a * b \in Nat
  OBVIOUS
<1>2. a * b <= SizeMax
  <2>1. SizeMax \in Nat
    BY Bounds
  <2>2. a # 0 /\ b # 0 /\ a > SizeMax \div b <=> a * b > SizeMax
    BY <2>1, ProductGuard
  <2>3. ~ (a * b > SizeMax)
    BY <2>2 DEF would_overflow_product
  <2> QED BY <1>1, <2>1, <2>3
<1>3. \A x \in 0 .. SizeMax : Wrap(x) = x
  BY Bounds DEF Wrap
<1> QED BY <1>1, <1>2, <1>3, Bounds

(* A stride holds a block, and is aligned unless it is saturated. *)
LEMMA StrideHolds ==
    ASSUME NEW block_size \in Sizes, is_valid_block_size(block_size)
    PROVE  /\ slot_stride(block_size) \in Nat \ {0}
           /\ block_size \in Nat \ {0} /\ block_size <= slot_stride(block_size)
           /\ slot_stride(block_size) % POOL_ALIGNMENT = 0 \/ slot_stride(block_size) = SizeMax
<1>1. /\ block_size \in Nat \ {0} /\ block_size <= SizeMax /\ block_size % POOL_ALIGNMENT = 0
      /\ POOL_ALIGNMENT \in Nat \ {0} /\ GuardBytes \in Nat /\ SizeMax \in Nat
  BY SizeAssumption DEF Sizes, is_valid_block_size
<1>2. CASE ~ Hardened
  BY <1>1, <1>2 DEF slot_stride
<1>3. CASE Hardened
  <2> DEFINE need == block_size + GuardBytes
  <2>2. slot_stride(block_size) = SizeMax \/ slot_stride(block_size) = RoundUp(need)
    BY <1>3 DEF slot_stride
  <2>3. need \in Nat /\ block_size <= need
    BY <1>1
  <2> HIDE DEF need
  <2>1. RoundUp(need) \in Nat /\ RoundUp(need) % POOL_ALIGNMENT = 0 /\ need <= RoundUp(need)
    BY <1>1, <2>3, RoundedUp DEF RoundUp
  <2> QED BY <1>1, <2>1, <2>2, <2>3
<1> QED BY <1>2, <1>3

(* A request that passed would_overflow_product: several slots are never a
   saturated stride apart. *)
LEMMA StepsGuarded ==
    ASSUME NEW block_size \in Sizes, is_valid_block_size(block_size),
           NEW count \in Nat \ {0}, slot_stride(block_size) * count <= SizeMax
    PROVE  count = 1 \/ slot_stride(block_size) % POOL_ALIGNMENT = 0
<1> DEFINE stride == slot_stride(block_size)
<1>1. stride \in Nat \ {0} /\ (stride % POOL_ALIGNMENT = 0 \/ stride = SizeMax)
  BY StrideHolds
<1> HIDE DEF stride
<1>2. count # 1 => 2 * stride <= count * stride
  <2>1. count # 1 => 2 <= count
    OBVIOUS
  <2> QED BY <1>1, <2>1, ProductMonotone
<1>3. count * stride = stride * count
  BY <1>1
<1>4. count # 1 => 2 * stride <= SizeMax
  BY <1>1, <1>2, <1>3, Bounds DEF stride
<1>5. count # 1 => stride # SizeMax
  BY <1>1, <1>4, Bounds
<1> QED BY <1>1, <1>5 DEF stride

-----------------------------------------------------------------------------
(* The chunks of a pool, and how a growth adds to them. *)

(* The chunks of a pool: the initial one and those of its overflow list. *)
LEMMA ChunksAre ==
    ASSUME NEW p \in PoolSet
    PROVE  /\ Len(p.overflow) \in Nat /\ Len(ChunksOf(p)) = Len(p.overflow) + 1
           /\ ChunkSet(p) = {[backing |-> p.backing, block_count |-> p.block_count]}
                            \cup {p.overflow[i] : i \in 1 .. Len(p.overflow)}
           /\ ChunkSet(p) \subseteq Chunk
           /\ DOMAIN ChunksOf(p) = 1 .. Len(ChunksOf(p))
<1> DEFINE c == [backing |-> p.backing, block_count |-> p.block_count]
           n == Len(p.overflow)
<1>1. c \in Chunk /\ p.overflow \in Seq(Chunk) /\ n \in Nat
  BY AddrAssumption DEF PoolSet, Chunk
<1>2. <<c>> \in Seq(Chunk) /\ Len(<<c>>) = 1 /\ <<c>>[1] = c
  BY <1>1
<1>3. ChunksOf(p) = <<c>> \o p.overflow
  BY DEF ChunksOf
<1>4. /\ ChunksOf(p) \in Seq(Chunk) /\ Len(ChunksOf(p)) = 1 + n
      /\ \A i \in 1 .. (1 + n) : ChunksOf(p)[i] = IF i <= 1 THEN <<c>>[i] ELSE p.overflow[i - 1]
  BY <1>1, <1>2, <1>3, ConcatProperties
<1> HIDE DEF c, n
<1>5. DOMAIN ChunksOf(p) = 1 .. (1 + n)
  BY <1>4
<1>6. \A i \in 1 .. n : p.overflow[i] \in Chunk /\ p.overflow[i] = ChunksOf(p)[i + 1]
  <2> TAKE i \in 1 .. n
  <2>1. i + 1 \in 1 .. (1 + n) /\ ~ (i + 1 <= 1) /\ (i + 1) - 1 = i
    BY <1>1
  <2>2. p.overflow[i] \in Chunk
    BY <1>1 DEF n
  <2> QED BY <1>4, <2>1, <2>2
<1>7. ChunksOf(p)[1] = c /\ 1 \in 1 .. (1 + n)
  BY <1>1, <1>2, <1>4
<1>8. \A i \in 1 .. (1 + n) : i = 1 \/ (i - 1 \in 1 .. n /\ ChunksOf(p)[i] = p.overflow[i - 1])
  BY <1>1, <1>4
<1>9. \A x : x \in ChunkSet(p) <=> x = c \/ \E i \in 1 .. n : x = p.overflow[i]
  <2>1. \A i \in 1 .. n : i + 1 \in 1 .. (1 + n)
    BY <1>1
  <2> QED BY <1>5, <1>6, <1>7, <1>8, <2>1 DEF ChunkSet
<1>10. ChunkSet(p) = {c} \cup {p.overflow[i] : i \in 1 .. n}
  BY <1>9
<1> QED BY <1>1, <1>4, <1>5, <1>6, <1>9, <1>10 DEF c, n

(* What the pool refers to by index, said of the set of its chunks. *)
LEMMA InRange ==
    ASSUME NEW p \in PoolSet, NEW block
    PROVE  /\ is_block_in_range(p, block) <=> \E c \in ChunkSet(p) : block_in_chunk(p, c, block)
           /\ p = pool => (NotABlock(block) <=> block \notin SlotSet(p))
           /\ Slots = SlotSet(pool)
BY DEF is_block_in_range, ChunkSet, NotABlock, SlotSet, SlotsIn, StrideOf, Slots

(* A pool that differs in its head only is the same for all that follows. *)
LEMMA SameChunks ==
    ASSUME NEW p \in PoolSet, NEW h \in {NULL} \cup Addrs
    PROVE  LET q == [p EXCEPT !.head = h]
           IN  /\ q \in PoolSet /\ q.head = h /\ q # NoPool
               /\ q.backing = p.backing /\ q.block_size = p.block_size
               /\ q.block_count = p.block_count /\ q.overflow = p.overflow
               /\ q.grow_factor = p.grow_factor /\ q.grow_count = p.grow_count
               /\ ChunksOf(q) = ChunksOf(p) /\ ChunkSet(q) = ChunkSet(p)
               /\ StrideOf(q) = StrideOf(p) /\ SlotSet(q) = SlotSet(p)
<1> DEFINE q == [p EXCEPT !.head = h]
<1>1. /\ q \in PoolSet /\ q.head = h
      /\ q.backing = p.backing /\ q.block_size = p.block_size
      /\ q.block_count = p.block_count /\ q.overflow = p.overflow
      /\ q.grow_factor = p.grow_factor /\ q.grow_count = p.grow_count
  BY DEF PoolSet
<1> HIDE DEF q
<1>2. q # NoPool
  <2>1. q.backing \in Addrs
    BY <1>1 DEF PoolSet
  <2> QED BY <2>1, Bounds DEF NoPool
<1>3. ChunksOf(q) = ChunksOf(p) /\ StrideOf(q) = StrideOf(p)
  BY <1>1 DEF ChunksOf, StrideOf
<1>4. ChunkSet(q) = ChunkSet(p)
  BY <1>3 DEF ChunkSet
<1>5. SlotSet(q) = SlotSet(p)
  BY <1>3, <1>4 DEF SlotSet, SlotsIn
<1> QED BY <1>1, <1>2, <1>3, <1>4, <1>5 DEF q

(* The recursion of TotalOf has one solution. *)
LEMMA TotalIs ==
    ASSUME NEW p, NEW n \in Nat, n = Len(p.overflow),
           NEW t, t = [i \in 0 .. n |-> t[i]], SumsUp(p, t)
    PROVE  TotalOf(p) = t[n]
<1> DEFINE Step(i, sum) == IF i = 0 THEN p.block_count ELSE sum + p.overflow[i].block_count
<1>1. \A i \in 0 .. n : t[i] = Step(i, t[i - 1])
  BY DEF SumsUp
<1> DEFINE total == CHOOSE total : total = [i \in 0 .. n |-> Step(i, total[i - 1])]
<1>2. total = [i \in 0 .. n |-> Step(i, total[i - 1])]
  <2>1. t = [i \in 0 .. n |-> Step(i, t[i - 1])]
    <3> HIDE DEF Step
    <3> QED BY <1>1
  <2> HIDE DEF Step
  <2> QED BY <2>1
<1> HIDE DEF total
<1>3. \A i \in 0 .. n : total[i] = Step(i, total[i - 1])
  <2> HIDE DEF Step
  <2> QED BY <1>2
<1>4. \A i \in 0 .. n : total[i] = t[i]
  <2> DEFINE T == {i \in Nat : i \in 0 .. n => total[i] = t[i]}
  <2>1. 0 \in T
    BY <1>1, <1>3
  <2>2. ASSUME NEW i \in Nat, i \in T
        PROVE  i + 1 \in T
    <3>1. i + 1 \in 0 .. n => i \in 0 .. n /\ (i + 1) - 1 = i
      OBVIOUS
    <3>2. i \in 0 .. n => total[i] = t[i]
      BY <2>2
    <3> HIDE DEF Step
    <3>3. i + 1 \in 0 .. n => /\ total[i + 1] = Step(i + 1, total[i])
                             /\ t[i + 1] = Step(i + 1, t[i])
      BY <1>1, <1>3, <3>1
    <3> QED BY <3>1, <3>2, <3>3
  <2> HIDE DEF T
  <2>3. Nat \subseteq T
    BY <2>1, <2>2, NatSetInduction
  <2> QED BY <2>3 DEF T
<1>5. TotalOf(p) = total[n]
  BY Zenon DEF TotalOf, total
<1>6. n \in 0 .. n
  OBVIOUS
<1> QED BY <1>4, <1>5, <1>6

(* So does that of GrownTo. *)
LEMMA GrownIs ==
    ASSUME NEW p, NEW n \in Nat, n = p.grow_count,
           NEW g, g = [k \in 0 .. n |-> g[k]], Multiplies(p, g)
    PROVE  GrownTo(p, n) = g[n]
<1> DEFINE Step(k, last) == IF k = 0 THEN p.block_count ELSE last * p.grow_factor
<1>1. \A k \in 0 .. n : g[k] = Step(k, g[k - 1])
  BY DEF Multiplies
<1> DEFINE grown == CHOOSE grown : grown = [k \in 0 .. n |-> Step(k, grown[k - 1])]
<1>2. grown = [k \in 0 .. n |-> Step(k, grown[k - 1])]
  <2>1. g = [k \in 0 .. n |-> Step(k, g[k - 1])]
    <3> HIDE DEF Step
    <3> QED BY <1>1
  <2> HIDE DEF Step
  <2> QED BY <2>1
<1> HIDE DEF grown
<1>3. \A k \in 0 .. n : grown[k] = Step(k, grown[k - 1])
  <2> HIDE DEF Step
  <2> QED BY <1>2
<1>4. \A k \in 0 .. n : grown[k] = g[k]
  <2> DEFINE T == {k \in Nat : k \in 0 .. n => grown[k] = g[k]}
  <2>1. 0 \in T
    BY <1>1, <1>3
  <2>2. ASSUME NEW k \in Nat, k \in T
        PROVE  k + 1 \in T
    <3>1. k + 1 \in 0 .. n => k \in 0 .. n /\ (k + 1) - 1 = k
      OBVIOUS
    <3>2. k \in 0 .. n => grown[k] = g[k]
      BY <2>2
    <3> HIDE DEF Step
    <3>3. k + 1 \in 0 .. n => /\ grown[k + 1] = Step(k + 1, grown[k])
                             /\ g[k + 1] = Step(k + 1, g[k])
      BY <1>1, <1>3, <3>1
    <3> QED BY <3>1, <3>2, <3>3
  <2> HIDE DEF T
  <2>3. Nat \subseteq T
    BY <2>1, <2>2, NatSetInduction
  <2> QED BY <2>3 DEF T
<1>5. GrownTo(p, n) = grown[n]
  BY Zenon DEF GrownTo, grown
<1>6. n \in 0 .. n
  OBVIOUS
<1> QED BY <1>4, <1>5, <1>6

(* A growth puts a chunk in front of the overflow chunks. *)
Grown(p, c, h) == [p EXCEPT !.overflow = <<c>> \o @, !.head = h, !.grow_count = @ + 1]

(* What changes when grow_pool links a chunk in front of the others, and what
   does not. *)
LEMMA GrownChunks ==
    ASSUME NEW p \in PoolSet, NEW c \in Chunk, NEW h \in {NULL} \cup Addrs
    PROVE  LET q == Grown(p, c, h)
           IN  /\ q \in PoolSet /\ q.head = h /\ q # NoPool
               /\ q.backing = p.backing /\ q.block_size = p.block_size
               /\ q.block_count = p.block_count /\ q.grow_factor = p.grow_factor
               /\ q.grow_count = p.grow_count + 1
               /\ Len(q.overflow) = Len(p.overflow) + 1 /\ q.overflow[1] = c
               /\ \A i \in 1 .. Len(p.overflow) : q.overflow[i + 1] = p.overflow[i]
               /\ ChunkSet(q) = ChunkSet(p) \cup {c} /\ StrideOf(q) = StrideOf(p)
               /\ SlotSet(q) = SlotSet(p) \cup SlotsIn(p, c)
<1> DEFINE q == Grown(p, c, h)
           n == Len(p.overflow)
           more == <<c>> \o p.overflow
<1>1. p.overflow \in Seq(Chunk) /\ n \in Nat /\ p.grow_count \in Nat
  BY DEF PoolSet
<1>2. <<c>> \in Seq(Chunk) /\ Len(<<c>>) = 1 /\ <<c>>[1] = c
  OBVIOUS
<1>3. /\ more \in Seq(Chunk) /\ Len(more) = 1 + n
      /\ \A i \in 1 .. (1 + n) : more[i] = IF i <= 1 THEN <<c>>[i] ELSE p.overflow[i - 1]
  BY <1>1, <1>2, ConcatProperties
<1> HIDE DEF n
<1>4. more[1] = c
  BY <1>1, <1>2, <1>3
<1>5. \A i \in 1 .. n : more[i + 1] = p.overflow[i]
  <2> TAKE i \in 1 .. n
  <2>1. i + 1 \in 1 .. (1 + n) /\ ~ (i + 1 <= 1) /\ (i + 1) - 1 = i
    BY <1>1
  <2> QED BY <1>3, <2>1
<1> HIDE DEF more
<1>6. /\ q \in PoolSet /\ q.head = h
      /\ q.backing = p.backing /\ q.block_size = p.block_size
      /\ q.block_count = p.block_count /\ q.grow_factor = p.grow_factor
      /\ q.grow_count = p.grow_count + 1 /\ q.overflow = more
  <2>1. q = [[[p EXCEPT !.overflow = more] EXCEPT !.head = h] EXCEPT !.grow_count = p.grow_count + 1]
    BY DEF Grown, more, PoolSet
  <2> HIDE DEF q
  <2>2. p.grow_count + 1 \in Nat
    BY <1>1
  <2> QED BY <1>3, <2>1, <2>2 DEF PoolSet
<1> HIDE DEF q
<1>7. q # NoPool
  <2>1. q.backing \in Addrs
    BY <1>6 DEF PoolSet
  <2> QED BY <2>1, Bounds DEF NoPool
<1>8. ChunkSet(q) = ChunkSet(p) \cup {c}
  <2>1. /\ ChunkSet(p) = {[backing |-> p.backing, block_count |-> p.block_count]}
                         \cup {p.overflow[i] : i \in 1 .. n}
        /\ ChunkSet(q) = {[backing |-> p.backing, block_count |-> p.block_count]}
                         \cup {more[i] : i \in 1 .. (1 + n)}
    BY <1>1, <1>3, <1>6, ChunksAre DEF n
  <2>2. \A i \in 1 .. (1 + n) : i = 1 \/ (i - 1 \in 1 .. n /\ more[i] = p.overflow[i - 1])
    BY <1>1, <1>3
  <2>3. \A i \in 1 .. n : i + 1 \in 1 .. (1 + n)
    BY <1>1
  <2>4. 1 \in 1 .. (1 + n)
    BY <1>1
  <2>5. \A x : (\E i \in 1 .. (1 + n) : x = more[i]) <=> (x = c \/ \E i \in 1 .. n : x = p.overflow[i])
    <3>1. ASSUME NEW i \in 1 .. (1 + n), more[i] # c
          PROVE  \E k \in 1 .. n : more[i] = p.overflow[k]
      BY <1>4, <2>2, <3>1
    <3>2. \A i \in 1 .. n : \E k \in 1 .. (1 + n) : p.overflow[i] = more[k]
      BY <1>5, <2>3
    <3>3. ASSUME NEW x, NEW i \in 1 .. (1 + n), x = more[i]
          PROVE  x = c \/ \E k \in 1 .. n : x = p.overflow[k]
      BY <3>1, <3>3
    <3>4. ASSUME NEW x, NEW k \in 1 .. n, x = p.overflow[k]
          PROVE  \E i \in 1 .. (1 + n) : x = more[i]
      BY <3>2, <3>4
    <3>5. \E i \in 1 .. (1 + n) : c = more[i]
      BY <1>4, <2>4
    <3> QED BY <3>3, <3>4, <3>5
  <2>6. {more[i] : i \in 1 .. (1 + n)} = {c} \cup {p.overflow[i] : i \in 1 .. n}
    BY <2>5
  <2> QED BY <2>1, <2>6
<1>9. StrideOf(q) = StrideOf(p)
  BY <1>6 DEF StrideOf
<1>10. SlotSet(q) = SlotSet(p) \cup SlotsIn(p, c)
  <2>1. \A d : SlotsIn(q, d) = SlotsIn(p, d)
    BY <1>9 DEF SlotsIn
  <2> QED BY <1>8, <2>1 DEF SlotSet
<1>11. Len(q.overflow) = n + 1 /\ q.overflow[1] = c /\ \A i \in 1 .. n : q.overflow[i + 1] = p.overflow[i]
  BY <1>1, <1>3, <1>4, <1>5, <1>6
<1> QED BY <1>6, <1>7, <1>8, <1>9, <1>10, <1>11 DEF q, n

(* The slots of a grown pool: those it had, and those of the new chunk. *)
Prepends(p, q) ==
    /\ Len(p.overflow) \in Nat /\ Len(q.overflow) = Len(p.overflow) + 1
    /\ p.block_count \in Nat /\ q.block_count = p.block_count
    /\ q.overflow[1].block_count \in Nat
    /\ \A i \in 1 .. Len(p.overflow) :
          q.overflow[i + 1] = p.overflow[i] /\ p.overflow[i].block_count \in Nat

(* A chunk more adds its blocks to the total. *)
LEMMA SumsGrow ==
    ASSUME NEW p, NEW q, Prepends(p, q),
           NEW t, t \in [0 .. Len(p.overflow) -> Nat], SumsUp(p, t)
    PROVE  \E s \in [0 .. Len(q.overflow) -> Nat] :
              /\ SumsUp(q, s)
              /\ s[Len(q.overflow)] = t[Len(p.overflow)] + q.overflow[1].block_count
<1> DEFINE n == Len(p.overflow)
           add == q.overflow[1].block_count
<1>0. /\ n \in Nat /\ n = Len(p.overflow) /\ Len(q.overflow) = n + 1
      /\ p.block_count \in Nat /\ q.block_count = p.block_count
      /\ q.overflow[1].block_count = add /\ add \in Nat
      /\ \A i \in 1 .. n : q.overflow[i + 1] = p.overflow[i] /\ p.overflow[i].block_count \in Nat
      /\ t \in [0 .. n -> Nat]
  BY DEF Prepends
<1> HIDE DEF n, add
<1> DEFINE s == [i \in 0 .. (n + 1) |-> IF i = 0 THEN p.block_count ELSE t[i - 1] + add]
<1>1. \A i \in 0 .. (n + 1) : i # 0 => i - 1 \in 0 .. n
  BY <1>0
<1>2. s \in [0 .. (n + 1) -> Nat]
  BY <1>0, <1>1
<1>3. s[n + 1] = t[n] + add
  <2>1. n + 1 \in 0 .. (n + 1) /\ n + 1 # 0 /\ (n + 1) - 1 = n
    BY <1>0
  <2> QED BY <2>1
<1>4. t[0] = p.block_count
  BY <1>0 DEF SumsUp
<1>5. ASSUME NEW i \in 0 .. (n + 1)
      PROVE  s[i] = IF i = 0 THEN q.block_count ELSE s[i - 1] + q.overflow[i].block_count
  <2>1. CASE i = 0
    BY <1>0, <2>1
  <2>2. CASE i = 1
    <3>1. s[1] = t[0] + add /\ s[0] = p.block_count
      BY <1>0, <2>2
    <3> QED BY <1>0, <2>2, <3>1, <1>4
  <2>3. CASE i # 0 /\ i # 1
    <3> DEFINE k == i - 1
    <3>1. k \in 1 .. n /\ k \in 0 .. n /\ k - 1 \in 0 .. n /\ k + 1 = i /\ k # 0 /\ k \in 0 .. (n + 1)
      BY <1>0, <2>3
    <3>2. s[i] = t[k] + add
      BY <2>3
    <3> HIDE DEF k
    <3>3. s[k] = t[k - 1] + add
      BY <1>0, <3>1
    <3>4. t[k] = t[k - 1] + p.overflow[k].block_count
      BY <1>0, <3>1 DEF SumsUp
    <3>5. q.overflow[i] = p.overflow[k]
      BY <1>0, <3>1
    <3> HIDE DEF s
    <3>6. t[k - 1] \in Nat /\ p.overflow[k].block_count \in Nat
      BY <1>0, <3>1
    <3>7. add \in Nat
      BY <1>0
    <3>8. (t[k - 1] + p.overflow[k].block_count) + add = (t[k - 1] + add) + p.overflow[k].block_count
      BY <3>6, <3>7
    <3>9. s[i] = s[k] + q.overflow[i].block_count
      BY <3>2, <3>3, <3>4, <3>5, <3>8
    <3> QED BY <1>0, <2>3, <3>9 DEF k
  <2> QED BY <2>1, <2>2, <2>3
<1>6. SumsUp(q, s)
  BY <1>0, <1>5 DEF SumsUp
<1> QED BY <1>0, <1>2, <1>3, <1>6 DEF n, add

(* A growth more multiplies the blocks by the factor once more. *)
LEMMA MultipliesGrow ==
    ASSUME NEW p, NEW q, p.grow_count \in Nat, q.grow_count = p.grow_count + 1,
           q.block_count = p.block_count, q.grow_factor = p.grow_factor, p.grow_factor \in Nat,
           NEW g, g \in [0 .. p.grow_count -> Nat], Multiplies(p, g)
    PROVE  \E s \in [0 .. q.grow_count -> Nat] :
              Multiplies(q, s) /\ s[q.grow_count] = g[p.grow_count] * p.grow_factor
<1> DEFINE n == p.grow_count
<1>0. /\ n \in Nat /\ n = p.grow_count /\ q.grow_count = n + 1
      /\ q.block_count = p.block_count /\ q.grow_factor = p.grow_factor /\ p.grow_factor \in Nat
      /\ g \in [0 .. n -> Nat] /\ n \in 0 .. n
  OBVIOUS
<1> HIDE DEF n
<1> DEFINE s == [k \in 0 .. (n + 1) |-> IF k = n + 1 THEN g[n] * p.grow_factor ELSE g[k]]
<1>1. g[n] * p.grow_factor \in Nat
  BY <1>0
<1>2. s \in [0 .. (n + 1) -> Nat] /\ s[n + 1] = g[n] * p.grow_factor
  BY <1>0, <1>1
<1>3. ASSUME NEW k \in 0 .. (n + 1)
      PROVE  s[k] = IF k = 0 THEN q.block_count ELSE s[k - 1] * q.grow_factor
  <2>1. CASE k = n + 1
    <3>1. k # 0 /\ k - 1 = n /\ n \in 0 .. (n + 1) /\ n # n + 1
      BY <1>0, <2>1
    <3> QED BY <1>0, <2>1, <3>1
  <2>2. CASE k # n + 1
    <3>1. k \in 0 .. n /\ s[k] = g[k]
      BY <1>0, <2>2
    <3>2. k # 0 => k - 1 \in 0 .. (n + 1) /\ k - 1 # n + 1
      BY <1>0, <2>2
    <3>3. k # 0 => s[k - 1] = g[k - 1]
      BY <1>0, <3>2
    <3>4. g[k] = IF k = 0 THEN p.block_count ELSE g[k - 1] * p.grow_factor
      BY <1>0, <3>1 DEF Multiplies
    <3> HIDE DEF s
    <3> QED BY <1>0, <3>1, <3>3, <3>4
  <2> QED BY <2>1, <2>2
<1>4. Multiplies(q, s)
  BY <1>0, <1>3 DEF Multiplies
<1> QED BY <1>0, <1>2, <1>4

-----------------------------------------------------------------------------
(* Regions and the slots in them. *)

(* A region that operator new gives now keeps the heap sound, and is not the one
   a chunk has already. *)
LEMMA NewRegion ==
    ASSUME HeapSound, NEW bytes \in Nat \ {0}, NEW r \in NewRegions(bytes)
    PROVE  /\ r = [base |-> r.base, size |-> bytes] /\ r.size = bytes
           /\ r \in [base : Addrs, size : Sizes \ {0}]
           /\ r.base + bytes - 1 <= AddrMax /\ Aligned(r.base)
           /\ \A q \in heap : /\ q.base # r.base
                              /\ Region(q.base, q.size) \cap Region(r.base, r.size) = {}
           /\ r \notin heap
<1>1. PICK b \in Addrs : r = [base |-> b, size |-> bytes]
  BY DEF NewRegions
<1>2. /\ Aligned(r.base) /\ r.base + bytes - 1 <= AddrMax
      /\ \A q \in heap : Region(r.base, bytes) \cap Region(q.base, q.size) = {}
  BY DEF NewRegions
<1>3. r.base = b /\ r.size = bytes /\ b \in Nat \ {0}
  BY <1>1, Bounds
<1>4. bytes \in Sizes \ {0}
  <2>1. bytes <= AddrMax
    BY <1>2, <1>3, Bounds
  <2> QED BY <2>1, Bounds DEF Sizes
<1>5. r \in [base : Addrs, size : Sizes \ {0}]
  BY <1>1, <1>4
<1>6. ASSUME NEW q \in heap
      PROVE  q.base # r.base
  <2>1. q.base \in Nat /\ q.size \in Nat \ {0}
    BY Bounds DEF HeapSound
  <2>2. q.base \in Region(q.base, q.size)
    BY <2>1 DEF Region
  <2>3. r.base \in Region(r.base, bytes)
    BY <1>3 DEF Region
  <2> QED BY <1>2, <2>2, <2>3
<1> QED BY <1>1, <1>2, <1>3, <1>5, <1>6

(* release_backing undoes it. *)
LEMMA Released ==
    ASSUME HeapSound, NEW bytes \in Nat \ {0}, NEW r \in NewRegions(bytes)
    PROVE  release_backing(heap \cup {r}, r.base) = heap
BY NewRegion DEF release_backing

(* The slots of a chunk, wherever its backing lies. *)
LEMMA SlotsPlaced ==
    ASSUME NEW backing \in Addrs, NEW stride \in Nat \ {0}, NEW count \in Nat \ {0},
           backing + stride * count - 1 <= AddrMax, Aligned(backing),
           count = 1 \/ stride % POOL_ALIGNMENT = 0,
           NEW a \in SlotAddresses(backing, stride, count)
    PROVE  /\ a \in Addrs
           /\ Aligned(a)
           /\ Region(a, stride) \subseteq Region(backing, stride * count)
<1>0. backing \in Nat \ {0} /\ AddrMax \in Nat /\ POOL_ALIGNMENT \in Nat \ {0}
  BY Bounds
<1>1. a \in Int /\ backing <= a /\ a + stride <= backing + stride * count
  BY <1>0, SlotWithin
<1>2. stride * count \in Nat
  OBVIOUS
<1>3. a \in Addrs
  BY <1>0, <1>1, <1>2 DEF Addrs
<1>4. Region(a, stride) \subseteq Region(backing, stride * count)
  BY <1>0, <1>1, <1>2 DEF Region
<1>5. Aligned(a)
  <2>1. PICK i \in 0 .. (count - 1) : a = backing + i * stride
    BY DEF SlotAddresses
  <2>2. CASE i = 0
    BY <2>1, <2>2, <1>0
  <2>3. CASE i # 0
    <3>1. stride % POOL_ALIGNMENT = 0 /\ backing % POOL_ALIGNMENT = 0
      BY <2>3 DEF Aligned
    <3>2. i \in Nat /\ stride \in Nat /\ backing \in Nat
      BY <1>0
    <3>3. (backing + i * stride) % POOL_ALIGNMENT = 0
      BY <1>0, <3>1, <3>2, MultiplesAdd
    <3> QED BY <2>1, <3>3 DEF Aligned
  <2> QED BY <2>2, <2>3
<1> QED BY <1>3, <1>4, <1>5

(* What is known of every chunk of the pool, and of every slot. *)
LEMMA ChunkFacts ==
    ASSUME IInv, Created, NEW c \in ChunkSet(pool)
    PROVE  /\ StrideOf(pool) \in Nat \ {0} /\ c.backing \in Addrs /\ c.block_count \in Nat \ {0}
           /\ Extent(pool, c) \in heap
           /\ c.backing + StrideOf(pool) * c.block_count - 1 <= AddrMax
           /\ StrideOf(pool) * c.block_count \in Nat \ {0}
           /\ \A a \in SlotsIn(pool, c) :
                 /\ a \in Addrs /\ Aligned(a)
                 /\ Region(a, StrideOf(pool)) \subseteq Region(c.backing, StrideOf(pool) * c.block_count)
           /\ \A b \in {NULL} \cup Addrs : block_in_chunk(pool, c, b) <=> b \in SlotsIn(pool, c)
<1>1. Accepted(pool) /\ Placed /\ HeapSound /\ pool \in PoolSet
  BY DEF IInv, Accepted
<1>2. StrideOf(pool) \in Nat \ {0}
  <2>1. pool.block_size \in Sizes /\ is_valid_block_size(pool.block_size)
    BY <1>1, AddrAssumption DEF Accepted, PoolSet
  <2> QED BY <2>1, StrideHolds DEF StrideOf
<1>3. c.backing \in Addrs /\ Steps(pool, c.block_count)
  BY <1>1, ChunksAre DEF Accepted, Chunk
<1>4. c.block_count \in Nat \ {0}
  BY <1>3 DEF Steps
<1>5. Extent(pool, c) \in heap
  BY <1>1 DEF Placed
<1>6. c.backing + StrideOf(pool) * c.block_count - 1 <= AddrMax /\ Aligned(c.backing)
  BY <1>1, <1>5 DEF HeapSound, Extent
<1>7. StrideOf(pool) * c.block_count \in Nat \ {0}
  BY <1>2, <1>4
<1>8. ASSUME NEW a \in SlotsIn(pool, c)
      PROVE  /\ a \in Addrs /\ Aligned(a)
             /\ Region(a, StrideOf(pool)) \subseteq Region(c.backing, StrideOf(pool) * c.block_count)
  BY <1>2, <1>3, <1>4, <1>6, SlotsPlaced DEF SlotsIn, Steps
<1>9. ASSUME NEW b \in {NULL} \cup Addrs
      PROVE  block_in_chunk(pool, c, b) <=> b \in SlotsIn(pool, c)
  <2>1. b \in Int /\ c.backing \in Int /\ c.block_count \in Nat
    <3>1. Addrs \subseteq Int
      BY Bounds
    <3>2. b \in Int
      BY <3>1
    <3>3. c.backing \in Int
      BY <1>3, <3>1
    <3>4. c.block_count \in Nat
      BY <1>4
    <3> QED BY <3>2, <3>3, <3>4
  <2>2. b \in SlotsIn(pool, c) <=>
           /\ b >= c.backing /\ b < c.backing + StrideOf(pool) * c.block_count
           /\ (b - c.backing) % StrideOf(pool) = 0
    BY <2>1, <1>2, SlotTest DEF SlotsIn
  <2> QED BY <2>2 DEF block_in_chunk, StrideOf
<1> QED BY <1>2, <1>3, <1>4, <1>5, <1>6, <1>7, <1>8, <1>9

(* Slots of different chunks lie in different regions. *)
LEMMA ChunksApart ==
    ASSUME IInv, Created, NEW c \in ChunkSet(pool), NEW d \in ChunkSet(pool), c # d
    PROVE  Region(c.backing, StrideOf(pool) * c.block_count)
              \cap Region(d.backing, StrideOf(pool) * d.block_count) = {}
<1>1. Extent(pool, c) \in heap /\ Extent(pool, d) \in heap
  BY ChunkFacts
<1>2. Extent(pool, c) # Extent(pool, d)
  <2>1. c.backing # d.backing
    BY DEF IInv, Placed
  <2> QED BY <2>1 DEF Extent
<1>3. Region(Extent(pool, c).base, Extent(pool, c).size)
         \cap Region(Extent(pool, d).base, Extent(pool, d).size) = {}
  BY <1>1, <1>2 DEF IInv, HeapSound
<1> QED BY <1>3 DEF Extent

(* free accepts the slots of the pool, and no other address. *)
LEMMA RangeExact ==
    ASSUME IInv, Created, NEW b \in {NULL} \cup Addrs
    PROVE  /\ is_block_in_range(pool, b) <=> b \in Slots
           /\ NotABlock(b) <=> b \notin Slots
           /\ Slots = SlotSet(pool) /\ Slots \subseteq Addrs
<1>1. pool \in PoolSet
  BY DEF IInv, Accepted
<1>2. is_block_in_range(pool, b) <=> \E c \in ChunkSet(pool) : b \in SlotsIn(pool, c)
  BY <1>1, InRange, ChunkFacts
<1>3. Slots \subseteq Addrs
  BY <1>1, InRange, ChunkFacts DEF SlotSet
<1> QED BY <1>1, <1>2, <1>3, InRange DEF SlotSet

-----------------------------------------------------------------------------
(* What the invariant says of the properties. *)

(* TotalOf counts the slots, and GrownTo foretells how many they are. *)
LEMMA SlotsCounted ==
    ASSUME IInv, Created
    PROVE  /\ TotalOf(pool) \in Nat /\ Cardinality(Slots) = TotalOf(pool)
           /\ TotalOf(pool) = GrownTo(pool, pool.grow_count)
           /\ \E t, g \in [0 .. Len(pool.overflow) -> Nat] :
                 /\ SumsUp(pool, t) /\ Multiplies(pool, g)
                 /\ t[Len(pool.overflow)] = TotalOf(pool) /\ g[Len(pool.overflow)] = TotalOf(pool)
<1> DEFINE n == Len(pool.overflow)
<1>1. pool \in PoolSet /\ n \in Nat /\ Counted /\ pool.grow_count = n
  BY ChunksAre DEF IInv, Accepted, Counted
<1>2. PICK t, g \in [0 .. n -> Nat] :
         /\ SumsUp(pool, t) /\ Multiplies(pool, g) /\ t[n] = g[n] /\ Cardinality(Slots) = t[n]
  BY <1>1 DEF Counted
<1>3. t = [i \in 0 .. n |-> t[i]] /\ g = [i \in 0 .. n |-> g[i]]
  OBVIOUS
<1>4. TotalOf(pool) = t[n]
  BY <1>1, <1>2, <1>3, TotalIs
<1>5. GrownTo(pool, n) = g[n]
  BY <1>1, <1>2, <1>3, GrownIs
<1>6. n \in 0 .. n
  BY <1>1
<1> HIDE DEF n
<1>7. t[n] \in Nat
  BY <1>6
<1>8. \E t1, g1 \in [0 .. n -> Nat] :
         /\ SumsUp(pool, t1) /\ Multiplies(pool, g1) /\ t1[n] = TotalOf(pool) /\ g1[n] = TotalOf(pool)
  <2>1. /\ SumsUp(pool, t) /\ Multiplies(pool, g) /\ t[n] = TotalOf(pool) /\ g[n] = TotalOf(pool)
    BY <1>2, <1>4
  <2> QED BY <2>1
<1> QED BY <1>1, <1>2, <1>4, <1>5, <1>7, <1>8 DEF n

(* Blocks that are aligned, apart and inside their chunk follow from where the
   chunks are. *)
LEMMA Sound ==
    ASSUME IInv
    PROVE  BlocksSound
<1> SUFFICES ASSUME Created PROVE BlocksSound
  BY DEF BlocksSound
<1>0. pool \in PoolSet /\ slot_stride(pool.block_size) = StrideOf(pool)
  BY DEF IInv, Accepted, StrideOf
<1>1. Cardinality(Slots) = TotalOf(pool)
  BY SlotsCounted
<1>2. /\ pool.block_size \in Nat \ {0} /\ pool.block_size <= StrideOf(pool)
      /\ StrideOf(pool) \in Nat \ {0}
  <2>1. pool.block_size \in Sizes /\ is_valid_block_size(pool.block_size)
    BY AddrAssumption DEF IInv, Accepted, PoolSet
  <2> QED BY <2>1, StrideHolds DEF StrideOf
<1>3. ASSUME NEW a \in Slots
      PROVE  \E c \in ChunkSet(pool) : a \in SlotsIn(pool, c)
  BY <1>0, <1>3, InRange DEF SlotSet
<1>4. ASSUME NEW a \in Slots
      PROVE  /\ Aligned(a)
             /\ \E r \in heap : Region(a, StrideOf(pool)) \subseteq Region(r.base, r.size)
  <2>1. PICK c \in ChunkSet(pool) : a \in SlotsIn(pool, c)
    BY <1>3
  <2>2. Aligned(a) /\ Region(a, StrideOf(pool)) \subseteq Region(Extent(pool, c).base, Extent(pool, c).size)
    BY <2>1, ChunkFacts DEF Extent
  <2> QED BY <2>2, ChunkFacts
<1>5. ASSUME NEW a \in Slots, NEW b \in Slots \ {a}
      PROVE  Region(a, pool.block_size) \cap Region(b, pool.block_size) = {}
  <2>1. PICK c \in ChunkSet(pool) : a \in SlotsIn(pool, c)
    BY <1>3
  <2>2. PICK d \in ChunkSet(pool) : b \in SlotsIn(pool, d)
    BY <1>3
  <2>3. a \in Nat /\ b \in Nat /\ a # b
    BY RangeExact, Bounds
  <2>4. CASE c = d
    <3>1. a + StrideOf(pool) <= b \/ b + StrideOf(pool) <= a
      <4>1. c.backing \in Int /\ c.block_count \in Nat
        BY ChunkFacts, Bounds
      <4> QED BY <2>1, <2>2, <2>3, <2>4, <4>1, <1>2, SlotsApart DEF SlotsIn
    <3> QED BY <3>1, <2>3, <1>2 DEF Region
  <2>5. CASE c # d
    <3>1. /\ Region(a, pool.block_size) \subseteq Region(a, StrideOf(pool))
          /\ Region(b, pool.block_size) \subseteq Region(b, StrideOf(pool))
      BY <2>3, <1>2 DEF Region
    <3>2. /\ Region(a, StrideOf(pool)) \subseteq Region(c.backing, StrideOf(pool) * c.block_count)
          /\ Region(b, StrideOf(pool)) \subseteq Region(d.backing, StrideOf(pool) * d.block_count)
      BY <2>1, <2>2, ChunkFacts
    <3>3. Region(c.backing, StrideOf(pool) * c.block_count)
             \cap Region(d.backing, StrideOf(pool) * d.block_count) = {}
      BY <2>5, ChunksApart
    <3> QED BY <3>1, <3>2, <3>3
  <2> QED BY <2>4, <2>5
<1> QED BY <1>0, <1>1, <1>4, <1>5 DEF BlocksSound

(* That nothing leaks follows from the heap being the extents of the chunks. *)
LEMMA Ledger ==
    ASSUME IInv
    PROVE  LedgerExact
<1>1. CASE ~ Created
  BY <1>1 DEF IInv, LedgerExact
<1>2. CASE Created
  <2>1. pool \in PoolSet /\ Placed
    BY <1>2 DEF IInv, Accepted
  <2>2. Len(ChunksOf(pool)) = Len(pool.overflow) + 1
    BY <2>1, ChunksAre
  <2>3. \A c : Extent(pool, c).base = c.backing
    BY DEF Extent
  <2>4. {r.base : r \in heap} = {c.backing : c \in ChunkSet(pool)}
    BY <2>1, <2>3 DEF Placed
  <2>5. {c.backing : c \in ChunkSet(pool)} = {ChunksOf(pool)[i].backing : i \in DOMAIN ChunksOf(pool)}
    BY DEF ChunkSet
  <2>6. Cardinality(heap) = Len(ChunksOf(pool)) /\ objects = Len(ChunksOf(pool))
    BY <2>1, <2>2 DEF Placed
  <2>7. {r.base : r \in heap} = {ChunksOf(pool)[i].backing : i \in DOMAIN ChunksOf(pool)}
    BY <2>4, <2>5
  <2> QED BY <1>2, <2>6, <2>7 DEF LedgerExact
<1> QED BY <1>1, <1>2

(* Growth is geometric because the two counts agree. *)
LEMMA Geometric ==
    ASSUME IInv
    PROVE  GrowthGeometric
BY SlotsCounted DEF IInv, Counted, GrowthGeometric

(* The free list and the blocks held, for the steps that follow. *)
LEMMA FreeSlots ==
    ASSUME IInv, Created
    PROVE  /\ IsFiniteSet(Slots \ held) /\ NULL \notin Slots \ held
           /\ ListsExactly(pool.head, mem, Slots \ held) /\ held \subseteq Slots
           /\ Slots \subseteq Addrs
<1>1. IsFiniteSet(Slots) /\ FreeListExact
  BY DEF IInv, Counted
<1>2. NULL \in {NULL} \cup Addrs /\ NULL \notin Addrs
  BY Bounds
<1>3. Slots \subseteq Addrs
  BY <1>2, RangeExact
<1>4. IsFiniteSet(Slots \ held)
  BY <1>1, FS_Difference
<1> QED BY <1>1, <1>2, <1>3, <1>4 DEF FreeListExact

-----------------------------------------------------------------------------
(* The steps. *)

(* A seeded chunk: its slots are a list, and only links were written. *)
LEMMA Seeded ==
    ASSUME mem \in [Addrs -> Word], NEW backing \in Addrs, NEW stride \in Nat \ {0},
           NEW count \in Nat \ {0}, SlotAddresses(backing, stride, count) \subseteq Addrs
    PROVE  LET m == initialize_free_list(mem, backing, stride, count)
               new == SlotAddresses(backing, stride, count)
           IN  /\ m \in [Addrs -> Word]
               /\ ListsExactly(backing, m, new)
               /\ IsFiniteSet(new) /\ Cardinality(new) = count /\ NULL \notin new /\ backing \in new
               /\ m[backing] \in {NULL} \cup new
               /\ ListsExactly(m[backing], [m EXCEPT ![backing] = Junk], new \ {backing})
<1> DEFINE m == initialize_free_list(mem, backing, stride, count)
           new == SlotAddresses(backing, stride, count)
<1>0. backing \in Int /\ DOMAIN mem = Addrs /\ NULL \notin Addrs
  BY Bounds
<1>1. ListsExactly(backing, m, new)
  BY <1>0, SeededList
<1>2. IsFiniteSet(new) /\ Cardinality(new) = count
  BY <1>0, SlotCount
<1>3. NULL \notin new /\ new \subseteq Addrs
  BY <1>0
<1>4. backing \in new
  <2>1. 0 \in 0 .. (count - 1) /\ backing = backing + 0 * stride
    BY <1>0
  <2> QED BY <2>1 DEF SlotAddresses
<1>5. \A b \in new : m[b] \in {NULL} \cup new
  <2> HIDE DEF m, new
  <2> QED BY <1>1, <1>2, <1>3, ListNext
<1>6. m \in [Addrs -> Word]
  <2>1. DOMAIN m = Addrs /\ m = [b \in Addrs |-> m[b]]
    BY <1>0 DEF initialize_free_list
  <2>2. \A b \in Addrs \ new : m[b] = mem[b]
    BY <1>0 DEF initialize_free_list
  <2> HIDE DEF m, new
  <2>3. {NULL} \cup new \subseteq Word
    BY <1>3, Bounds
  <2>4. \A b \in Addrs : m[b] \in Word
    BY <1>5, <2>2, <2>3
  <2> QED BY <2>1, <2>4
<1> HIDE DEF m, new
<1>7. ListsExactly(m[backing], m, new \ {backing})
  <2>1. backing # NULL
    BY <1>3, <1>4
  <2> QED BY <1>1, <1>2, <1>3, <2>1, ListPop
<1>8. ListsExactly(m[backing], [m EXCEPT ![backing] = Junk], new \ {backing})
  <2>1. \A b \in new \ {backing} : [m EXCEPT ![backing] = Junk][b] = m[b]
    BY <1>3, <1>6
  <2> QED BY <1>7, <2>1, ListFrame
<1> QED BY <1>1, <1>2, <1>3, <1>4, <1>5, <1>6, <1>8 DEF m, new

(* The heap with one more region. *)
LEMMA HeapGrows ==
    ASSUME HeapSound, NEW bytes \in Nat \ {0}, NEW r \in NewRegions(bytes), heap' = heap \cup {r}
    PROVE  HeapSound'
<1>1. /\ r \in [base : Addrs, size : Sizes \ {0}]
      /\ r.base + r.size - 1 <= AddrMax /\ Aligned(r.base)
      /\ \A q \in heap : Region(q.base, q.size) \cap Region(r.base, r.size) = {}
  BY NewRegion
<1>2. ASSUME NEW q \in heap'
      PROVE  q \in [base : Addrs, size : Sizes \ {0}] /\ q.base + q.size - 1 <= AddrMax /\ Aligned(q.base)
  BY <1>1 DEF HeapSound
<1>3. ASSUME NEW q \in heap', NEW s \in heap', q # s
      PROVE  Region(q.base, q.size) \cap Region(s.base, s.size) = {}
  <2>1. CASE q \in heap /\ s \in heap
    BY <2>1, <1>3 DEF HeapSound
  <2>2. CASE q = r /\ s \in heap
    BY <2>2, <1>1
  <2>3. CASE q \in heap /\ s = r
    BY <2>3, <1>1
  <2> QED BY <2>1, <2>2, <2>3, <1>3
<1> QED BY <1>2, <1>3 DEF HeapSound

(* memory_pool_create and create_dynamic succeed. *)
LEMMA CreateStep ==
    ASSUME IInv, NEW bs \in BlockSizes, NEW bc \in BlockCounts, NEW f \in Factors, Create(bs, bc, f)
    PROVE  IInv'
<1> DEFINE stride == slot_stride(bs)
           bytes == create_bytes(bs, bc)
<1>1. /\ ~ Created /\ (f = 0 \/ f >= 2) /\ is_valid_block_size(bs) /\ bc # 0
      /\ ~ would_overflow_product(stride, bc) /\ objects' = objects + 1 /\ held' = held
  BY DEF Create, create_accepts
<1>2. PICK r \in NewRegions(bytes) :
         /\ heap' = heap \cup {r}
         /\ mem' = initialize_free_list(mem, r.base, stride, bc)
         /\ pool' = [backing |-> r.base, head |-> r.base,
                     block_size |-> bs, block_count |-> bc,
                     overflow |-> <<>>, grow_factor |-> f, grow_count |-> 0]
  BY DEF Create
<1>3. heap = {} /\ objects = 0 /\ held = {} /\ HeapSound /\ mem \in [Addrs -> Word]
  BY <1>1 DEF IInv, TypeOK
<1>4. bs \in Sizes /\ bc \in Nat \ {0}
  BY <1>1, AddrAssumption, Bounds
<1>5. stride \in Nat \ {0}
  BY <1>1, <1>4, StrideHolds
<1>6. bytes = stride * bc /\ bytes \in Nat \ {0} /\ bytes <= SizeMax
  <2>1. stride * bc \in Nat \ {0}
    BY <1>4, <1>5
  <2> QED BY <1>1, <1>4, <1>5, <2>1, GuardedProduct DEF create_bytes
<1>7. bc = 1 \/ stride % POOL_ALIGNMENT = 0
  BY <1>1, <1>4, <1>6, StepsGuarded
<1> HIDE DEF stride, bytes
<1>8. /\ r = [base |-> r.base, size |-> bytes] /\ r.size = bytes /\ r.base \in Addrs
      /\ r.base + bytes - 1 <= AddrMax /\ Aligned(r.base)
  BY <1>3, <1>6, NewRegion
<1>9. HeapSound'
  BY <1>2, <1>3, <1>6, HeapGrows
<1> DEFINE c == [backing |-> r.base, block_count |-> bc]
           q == [backing |-> r.base, head |-> r.base,
                 block_size |-> bs, block_count |-> bc,
                 overflow |-> <<>>, grow_factor |-> f, grow_count |-> 0]
           new == SlotAddresses(r.base, stride, bc)
<1>10. q \in PoolSet /\ q # NoPool
  <2>1. <<>> \in Seq(Chunk)
    OBVIOUS
  <2>2. q.backing = r.base /\ NoPool.backing = NULL /\ NULL \notin Addrs
    BY Bounds DEF NoPool
  <2>3. q \in PoolSet
    BY <1>8, <2>1 DEF PoolSet
  <2> QED BY <1>8, <2>2, <2>3
<1>11. /\ q.backing = r.base /\ q.head = r.base /\ q.block_size = bs /\ q.block_count = bc
       /\ q.overflow = <<>> /\ q.grow_factor = f /\ q.grow_count = 0 /\ Len(q.overflow) = 0
       /\ StrideOf(q) = stride
  BY DEF StrideOf, stride
<1>12. pool' = q
  BY <1>2
<1> HIDE DEF q
<1>13. ChunkSet(q) = {c}
  <2>1. ChunkSet(q) = {c} \cup {q.overflow[i] : i \in 1 .. 0}
    BY <1>10, <1>11, ChunksAre
  <2> QED BY <2>1
<1>14. Slots' = new
  <2>1. Slots' = SlotSet(q)
    BY <1>12 DEF Slots, SlotSet, ChunkSet, SlotsIn, StrideOf
  <2>2. SlotSet(q) = SlotsIn(q, c)
    BY <1>13 DEF SlotSet
  <2> QED BY <2>1, <2>2, <1>11 DEF SlotsIn
<1>15. new \subseteq Addrs
  BY <1>4, <1>5, <1>6, <1>7, <1>8, SlotsPlaced
<1> HIDE DEF new
<1>16. /\ mem' \in [Addrs -> Word] /\ ListsExactly(r.base, mem', new)
       /\ IsFiniteSet(new) /\ Cardinality(new) = bc
  BY <1>2, <1>3, <1>4, <1>5, <1>8, <1>15, Seeded DEF new
<1>17. Accepted(pool)'
  <2>1. \A d \in ChunkSet(q) : Steps(q, d.block_count)
    BY <1>4, <1>7, <1>11, <1>13 DEF Steps
  <2>2. Accepted(q)
    BY <1>1, <1>10, <1>11, <2>1 DEF Accepted
  <2> QED BY <1>12, <2>2 DEF Accepted, PoolSet, ChunkSet, Steps, StrideOf
<1>18. Placed'
  <2>1. heap' = {r} /\ r = Extent(q, c)
    BY <1>2, <1>3, <1>6, <1>8, <1>11 DEF Extent
  <2>2. {Extent(q, d) : d \in ChunkSet(q)} = {r}
    BY <1>13, <2>1
  <2>3. IsFiniteSet({r}) /\ Cardinality({r}) = 1
    BY FS_Singleton
  <2>4. objects' = 1
    BY <1>1, <1>3
  <2> QED BY <1>11, <1>12, <1>13, <2>1, <2>2, <2>3, <2>4 DEF Placed, ChunkSet, Extent, StrideOf
<1>19. Counted'
  <2> DEFINE t == [i \in 0 .. 0 |-> bc]
  <2>1. t \in [0 .. 0 -> Nat] /\ t[0] = bc
    BY <1>4
  <2>2. SumsUp(q, t) /\ Multiplies(q, t)
    BY <1>11, <2>1 DEF SumsUp, Multiplies
  <2> HIDE DEF t
  <2>3. \E s, g \in [0 .. 0 -> Nat] : /\ SumsUp(q, s) /\ Multiplies(q, g)
                                      /\ s[0] = g[0] /\ Cardinality(new) = s[0]
    BY <1>16, <2>1, <2>2
  <2> QED BY <1>11, <1>12, <1>14, <1>16, <2>3 DEF Counted, SumsUp, Multiplies
<1>20. FreeListExact'
  <2>1. held' = {} /\ new \ {} = new
    BY <1>1, <1>3
  <2> QED BY <1>11, <1>12, <1>14, <1>16, <2>1 DEF FreeListExact
<1>21. TypeOK'
  BY <1>1, <1>3, <1>9, <1>10, <1>12, <1>16 DEF TypeOK, PoolSet, HeapSound
<1>22. Created'
  BY <1>10, <1>12 DEF Created
<1> QED BY <1>9, <1>17, <1>18, <1>19, <1>20, <1>21, <1>22 DEF IInv

(* A call that changes the head only leaves the chunks and their slots alone. *)
LEMMA HeadStep ==
    ASSUME IInv, Created, NEW h \in {NULL} \cup Addrs, pool' = [pool EXCEPT !.head = h],
           UNCHANGED <<heap, objects>>
    PROVE  /\ Created' /\ Slots' = Slots /\ pool'.head = h /\ pool' \in PoolSet
           /\ HeapSound' /\ Accepted(pool)' /\ Placed' /\ Counted'
<1>1. pool \in PoolSet /\ Accepted(pool) /\ Placed /\ Counted /\ HeapSound
  BY DEF IInv, Accepted
<1> DEFINE q == [pool EXCEPT !.head = h]
<1>2. /\ q \in PoolSet /\ q.head = h /\ q # NoPool
      /\ q.backing = pool.backing /\ q.block_size = pool.block_size
      /\ q.block_count = pool.block_count /\ q.overflow = pool.overflow
      /\ q.grow_factor = pool.grow_factor /\ q.grow_count = pool.grow_count
      /\ ChunksOf(q) = ChunksOf(pool) /\ ChunkSet(q) = ChunkSet(pool)
      /\ StrideOf(q) = StrideOf(pool) /\ SlotSet(q) = SlotSet(pool)
  BY <1>1, SameChunks
<1>3. pool' = q
  OBVIOUS
<1> HIDE DEF q
<1>4. Created' /\ pool'.head = h /\ pool' \in PoolSet
  BY <1>2, <1>3 DEF Created
<1>5. Slots' = Slots
  <2>1. ChunksOf(pool') = ChunksOf(pool) /\ pool'.block_size = pool.block_size
    BY <1>2, <1>3
  <2> QED BY <2>1 DEF Slots
<1>6. HeapSound'
  BY <1>1 DEF HeapSound
<1>7. Accepted(q)
  BY <1>1, <1>2 DEF Accepted, Steps
<1>8. Accepted(pool)'
  <2>1. Accepted(pool')
    BY <1>3, <1>7
  <2> QED BY <2>1 DEF Accepted, PoolSet, ChunkSet, Steps, StrideOf
<1>9. Placed'
  <2>1. \A c : Extent(q, c) = Extent(pool, c)
    BY <1>2 DEF Extent
  <2>2. /\ heap = {Extent(q, c) : c \in ChunkSet(q)}
        /\ \A c, d \in ChunkSet(q) : c.backing = d.backing => c = d
        /\ IsFiniteSet(heap) /\ Cardinality(heap) = Len(q.overflow) + 1
        /\ objects = Len(q.overflow) + 1
    BY <1>1, <1>2, <2>1 DEF Placed
  <2>3. /\ heap' = {Extent(pool', c) : c \in ChunkSet(pool')}
        /\ \A c, d \in ChunkSet(pool') : c.backing = d.backing => c = d
        /\ IsFiniteSet(heap') /\ Cardinality(heap') = Len(pool'.overflow) + 1
        /\ objects' = Len(pool'.overflow) + 1
    BY <1>3, <2>2
  <2> QED BY <2>3 DEF Placed, ChunkSet, Extent, StrideOf
<1>10. Counted'
  <2>1. \A t : SumsUp(q, t) <=> SumsUp(pool, t)
    BY <1>2 DEF SumsUp
  <2>2. \A t : Multiplies(q, t) <=> Multiplies(pool, t)
    BY <1>2 DEF Multiplies
  <2>3. /\ q.grow_count = Len(q.overflow)
        /\ q.grow_factor = 0 => q.grow_count = 0
        /\ IsFiniteSet(Slots')
        /\ \E t, g \in [0 .. Len(q.overflow) -> Nat] :
              /\ SumsUp(q, t) /\ Multiplies(q, g)
              /\ t[Len(q.overflow)] = g[Len(q.overflow)]
              /\ Cardinality(Slots') = t[Len(q.overflow)]
    BY <1>1, <1>2, <1>5, <2>1, <2>2 DEF Counted
  <2> QED BY <1>3, <2>3 DEF Counted, SumsUp, Multiplies
<1> QED BY <1>4, <1>5, <1>6, <1>8, <1>9, <1>10

(* memory_pool_alloc pops the head. *)
LEMMA AllocStep ==
    ASSUME IInv, Alloc
    PROVE  IInv' /\ Slots \subseteq Slots'
<1>1. /\ Created /\ pool.head # NULL /\ UNCHANGED <<heap, objects>>
      /\ pool' = [pool EXCEPT !.head = mem[pool.head]]
      /\ mem' = [mem EXCEPT ![pool.head] = Junk] /\ held' = held \cup {pool.head}
  BY DEF Alloc, PopFrom
<1> DEFINE free == Slots \ held
           a == pool.head
<1>2. /\ IsFiniteSet(free) /\ NULL \notin free /\ ListsExactly(a, mem, free)
      /\ held \subseteq Slots /\ Slots \subseteq Addrs
  BY <1>1, FreeSlots
<1>3. TypeOK
  BY DEF IInv
<1> HIDE DEF a
<1>4. /\ a \in free /\ mem[a] \in {NULL} \cup free
      /\ ListsExactly(mem[a], mem, free \ {a})
  <2>1. a # NULL
    BY <1>1 DEF a
  <2> HIDE DEF free
  <2> QED BY <1>2, <2>1, ListHead, ListPop
<1>5. a \in Addrs /\ mem[a] \in {NULL} \cup Addrs /\ a \in Slots /\ a \notin held
  BY <1>2, <1>4
<1>6. /\ Created' /\ Slots' = Slots /\ pool'.head = mem[a] /\ pool' \in PoolSet
      /\ HeapSound' /\ Accepted(pool)' /\ Placed' /\ Counted'
  BY <1>1, <1>5, HeadStep DEF a
<1>7. ListsExactly(mem[a], mem', free \ {a})
  <2>1. \A b \in free \ {a} : mem'[b] = mem[b]
    BY <1>1, <1>2, <1>3 DEF TypeOK, a
  <2> QED BY <1>4, <2>1, ListFrame
<1>8. FreeListExact'
  <2>1. held' \subseteq Slots'
    BY <1>1, <1>2, <1>5, <1>6 DEF a
  <2>2. Slots' \ held' = free \ {a}
    BY <1>1, <1>6 DEF a
  <2> QED BY <1>6, <1>7, <2>1, <2>2 DEF FreeListExact
<1>9. TypeOK'
  <2>1. mem' \in [Addrs -> Word]
    BY <1>1, <1>3, Bounds DEF TypeOK
  <2>2. held' \subseteq Addrs
    BY <1>1, <1>3, <1>5 DEF TypeOK, a
  <2> QED BY <1>1, <1>3, <1>6, <2>1, <2>2 DEF TypeOK, PoolSet
<1> QED BY <1>6, <1>8, <1>9 DEF IInv

(* memory_pool_free pushes a block that was handed out. *)
LEMMA FreeStep ==
    ASSUME IInv, NEW block \in {NULL} \cup Addrs, Free(block)
    PROVE  IInv' /\ Slots \subseteq Slots'
<1>1. /\ Created /\ (block \in held \/ NotABlock(block)) /\ block # NULL
      /\ is_block_in_range(pool, block) /\ UNCHANGED <<heap, objects>>
      /\ mem' = [mem EXCEPT ![block] = pool.head]
      /\ pool' = [pool EXCEPT !.head = block] /\ held' = held \ {block}
  BY DEF Free
<1> DEFINE free == Slots \ held
<1>2. /\ IsFiniteSet(free) /\ ListsExactly(pool.head, mem, free)
      /\ held \subseteq Slots /\ Slots \subseteq Addrs
  BY <1>1, FreeSlots
<1>3. TypeOK /\ pool \in PoolSet
  BY <1>1 DEF IInv, Accepted
<1>4. block \in Slots /\ block \in held /\ block \in Addrs
  BY <1>1, RangeExact
<1>5. /\ Created' /\ Slots' = Slots /\ pool'.head = block /\ pool' \in PoolSet
      /\ HeapSound' /\ Accepted(pool)' /\ Placed' /\ Counted'
  BY <1>1, HeadStep
<1>6. ListsExactly(block, mem', free \cup {block})
  <2>1. \A b \in free : mem'[b] = mem[b]
    BY <1>1, <1>2, <1>3, <1>4 DEF TypeOK
  <2>2. ListsExactly(pool.head, mem', free)
    BY <1>2, <2>1, ListFrame
  <2>3. block \notin free /\ mem'[block] = pool.head
    BY <1>1, <1>3, <1>4 DEF TypeOK
  <2> HIDE DEF free
  <2> QED BY <1>2, <2>2, <2>3, ListPush
<1>7. FreeListExact'
  <2>1. held' \subseteq Slots'
    BY <1>1, <1>2, <1>5
  <2>2. Slots' \ held' = free \cup {block}
    BY <1>1, <1>4, <1>5
  <2> QED BY <1>5, <1>6, <2>1, <2>2 DEF FreeListExact
<1>8. TypeOK'
  <2>1. pool.head \in Word
    <3>1. pool.head \in {NULL} \cup Addrs
      BY <1>3 DEF PoolSet
    <3> QED BY <3>1 DEF Word
  <2>2. mem' \in [Addrs -> Word]
    BY <1>1, <1>3, <2>1 DEF TypeOK
  <2>3. held' \subseteq Addrs
    BY <1>1, <1>3 DEF TypeOK
  <2> QED BY <1>1, <1>3, <1>5, <2>2, <2>3 DEF TypeOK, PoolSet
<1> QED BY <1>5, <1>7, <1>8 DEF IInv

(* The chunk that grow_pool asks for: nothing wrapped, and it multiplies the pool. *)
LEMMA GrowthAsked ==
    ASSUME IInv, NEW r \in GrowRegions
    PROVE  /\ Created /\ pool.head = NULL
           /\ GrowAdd \in Nat \ {0} /\ GrowAdd <= SizeMax
           /\ TotalOf(pool) + GrowAdd = TotalOf(pool) * pool.grow_factor
           /\ StrideOf(pool) \in Nat \ {0}
           /\ r \in NewRegions(StrideOf(pool) * GrowAdd) /\ StrideOf(pool) * GrowAdd \in Nat \ {0}
           /\ StrideOf(pool) * GrowAdd <= SizeMax
           /\ Steps(pool, GrowAdd) /\ pool.grow_factor \in Nat /\ pool.grow_factor >= 2
<1> DEFINE total == TotalOf(pool)
           f == pool.grow_factor
           stride == StrideOf(pool)
<1>1. /\ Created /\ pool.head = NULL /\ f >= 2
      /\ grow_accepts(total, f, pool.block_size)
      /\ r \in NewRegions(grow_bytes(total, f, pool.block_size))
  BY DEF GrowRegions, Exhausted
<1>2. pool \in PoolSet /\ is_valid_block_size(pool.block_size)
  BY <1>1 DEF IInv, Accepted
<1>3. f \in Nat /\ pool.block_size \in Sizes
  BY <1>2, Bounds, AddrAssumption DEF PoolSet
<1>4. stride \in Nat \ {0}
  BY <1>2, <1>3, StrideHolds DEF StrideOf
<1>5. total \in Nat
  BY <1>1, SlotsCounted
<1>6. /\ ~ would_overflow_product(total, f - 1) /\ GrowAdd # 0
      /\ ~ would_overflow_product(GrowAdd, stride)
      /\ grow_bytes(total, f, pool.block_size) = Wrap(GrowAdd * stride)
      /\ GrowAdd = Wrap(total * (f - 1))
  BY <1>1 DEF grow_accepts, GrowAdd, grow_bytes, grow_add, StrideOf
<1> HIDE DEF total, f, stride
<1>7. f - 1 \in Nat
  BY <1>1, <1>3
<1>8. GrowAdd = total * (f - 1) /\ GrowAdd \in Nat /\ GrowAdd <= SizeMax
  BY <1>5, <1>6, <1>7, GuardedProduct
<1>9. total + total * (f - 1) = total * f
  BY <1>3, <1>5
<1>10. /\ Wrap(GrowAdd * stride) = GrowAdd * stride
       /\ GrowAdd * stride <= SizeMax
  BY <1>4, <1>6, <1>8, GuardedProduct
<1>11. GrowAdd * stride = stride * GrowAdd /\ stride * GrowAdd \in Nat \ {0}
  BY <1>4, <1>6, <1>8
<1>12. GrowAdd = 1 \/ stride % POOL_ALIGNMENT = 0
  BY <1>2, <1>3, <1>6, <1>8, <1>10, <1>11, StepsGuarded DEF stride, StrideOf
<1> QED BY <1>1, <1>3, <1>4, <1>6, <1>8, <1>9, <1>10, <1>11, <1>12 DEF Steps, total, f, stride

(* No slot of the pool lies in a region that operator new gives now. *)
LEMMA SlotsElsewhere ==
    ASSUME IInv, Created, NEW bytes \in Nat \ {0}, NEW r \in NewRegions(bytes), NEW a \in Slots
    PROVE  a \notin Region(r.base, bytes)
<1>1. HeapSound /\ a \in SlotSet(pool)
  BY InRange DEF IInv, Accepted
<1>2. PICK c \in ChunkSet(pool) : a \in SlotsIn(pool, c)
  BY <1>1 DEF SlotSet
<1>3. a \in Region(Extent(pool, c).base, Extent(pool, c).size)
  <2>1. /\ a \in Nat \ {0} /\ StrideOf(pool) \in Nat \ {0}
        /\ Region(a, StrideOf(pool)) \subseteq Region(c.backing, StrideOf(pool) * c.block_count)
    BY <1>2, ChunkFacts, Bounds
  <2>2. a \in Region(a, StrideOf(pool))
    BY <2>1 DEF Region
  <2> QED BY <2>1, <2>2 DEF Extent
<1>4. Extent(pool, c) \in heap
  BY ChunkFacts
<1> QED BY <1>1, <1>3, <1>4, NewRegion

(* memory_pool_alloc finds the pool exhausted, grows it and pops. *)
LEMMA GrowStep ==
    ASSUME IInv, AllocGrows
    PROVE  IInv' /\ Slots \subseteq Slots'
<1> DEFINE n == Len(pool.overflow)
           add == GrowAdd
           stride == StrideOf(pool)
           bytes == stride * add
<1>1. PICK r \in GrowRegions :
        /\ heap' = heap \cup {r} /\ objects' = objects + 1
        /\ PopFrom([pool EXCEPT
                       !.overflow = <<[backing |-> r.base, block_count |-> add]>> \o @,
                       !.head = r.base,
                       !.grow_count = @ + 1],
                   initialize_free_list(mem, r.base, slot_stride(pool.block_size), add))
  BY DEF AllocGrows
<1>2. /\ Created /\ pool.head = NULL
      /\ add \in Nat \ {0} /\ add <= SizeMax
      /\ TotalOf(pool) + add = TotalOf(pool) * pool.grow_factor
      /\ stride \in Nat \ {0} /\ r \in NewRegions(bytes) /\ bytes \in Nat \ {0} /\ bytes <= SizeMax
      /\ Steps(pool, add) /\ pool.grow_factor \in Nat /\ pool.grow_factor >= 2
  BY GrowthAsked
<1>3. /\ pool \in PoolSet /\ Accepted(pool) /\ Placed /\ Counted /\ HeapSound /\ TypeOK
      /\ n \in Nat
  BY <1>2, ChunksAre DEF IInv, Accepted
<1> DEFINE c == [backing |-> r.base, block_count |-> add]
           grown == Grown(pool, c, r.base)
           m == initialize_free_list(mem, r.base, stride, add)
           h == m[r.base]
           q == [grown EXCEPT !.head = h]
           new == SlotAddresses(r.base, stride, add)
<1> HIDE DEF n, add, bytes
<1>4. /\ r = [base |-> r.base, size |-> bytes] /\ r.size = bytes /\ r.base \in Addrs
      /\ r.base + bytes - 1 <= AddrMax /\ Aligned(r.base) /\ r \notin heap
      /\ \A s \in heap : s.base # r.base
  BY <1>2, <1>3, NewRegion
<1>5. c \in Chunk
  BY <1>2, <1>4, Bounds DEF Chunk, Sizes
<1>6. /\ new \subseteq Addrs
      /\ \A a \in new : a \in Region(r.base, bytes)
  <2>1. add = 1 \/ stride % POOL_ALIGNMENT = 0
    BY <1>2 DEF Steps
  <2>2. ASSUME NEW a \in new
        PROVE  a \in Addrs /\ Region(a, stride) \subseteq Region(r.base, bytes)
    BY <1>2, <1>4, <2>1, SlotsPlaced DEF bytes
  <2>3. ASSUME NEW a \in new
        PROVE  a \in Region(r.base, bytes)
    <3>1. a \in Nat /\ Region(a, stride) \subseteq Region(r.base, bytes)
      BY <2>2, Bounds
    <3>2. a \in Region(a, stride)
      BY <1>2, <3>1 DEF Region
    <3> QED BY <3>1, <3>2
  <2> QED BY <2>2, <2>3
<1>7. new \cap Slots = {}
  BY <1>2, <1>6, SlotsElsewhere
<1>8. /\ m \in [Addrs -> Word]
      /\ IsFiniteSet(new) /\ Cardinality(new) = add /\ NULL \notin new /\ r.base \in new
      /\ h \in {NULL} \cup new
      /\ ListsExactly(h, [m EXCEPT ![r.base] = Junk], new \ {r.base})
  <2>1. /\ mem \in [Addrs -> Word] /\ r.base \in Addrs /\ stride \in Nat \ {0} /\ add \in Nat \ {0}
        /\ SlotAddresses(r.base, stride, add) \subseteq Addrs
    BY <1>2, <1>3, <1>4, <1>6 DEF TypeOK
  <2> HIDE DEF stride
  <2> QED BY <2>1, Seeded
<1>9. h \in {NULL} \cup Addrs
  BY <1>6, <1>8
<1> HIDE DEF c, h, m, new
<1>10. /\ grown \in PoolSet /\ grown.head = r.base /\ grown # NoPool
       /\ grown.backing = pool.backing /\ grown.block_size = pool.block_size
       /\ grown.block_count = pool.block_count /\ grown.grow_factor = pool.grow_factor
       /\ grown.grow_count = pool.grow_count + 1
       /\ Len(grown.overflow) = n + 1 /\ grown.overflow[1] = c
       /\ \A i \in 1 .. n : grown.overflow[i + 1] = pool.overflow[i]
       /\ ChunkSet(grown) = ChunkSet(pool) \cup {c} /\ StrideOf(grown) = stride
       /\ SlotSet(grown) = SlotSet(pool) \cup SlotsIn(pool, c)
  BY <1>3, <1>4, <1>5, GrownChunks DEF n
<1>11. /\ pool' = q /\ held' = held \cup {r.base} /\ mem' = [m EXCEPT ![r.base] = Junk]
  <2>1. grown = [pool EXCEPT !.overflow = <<c>> \o @, !.head = r.base, !.grow_count = @ + 1]
    BY DEF Grown
  <2>2. PopFrom(grown, m)
    BY <1>1, <2>1 DEF c, m, StrideOf, add
  <2> HIDE DEF grown
  <2> QED BY <1>10, <2>2 DEF PopFrom, h
<1> HIDE DEF grown
<1>12. /\ q \in PoolSet /\ q.head = h /\ q # NoPool
       /\ q.block_size = pool.block_size
       /\ q.block_count = pool.block_count /\ q.grow_factor = pool.grow_factor
       /\ q.grow_count = pool.grow_count + 1
       /\ Len(q.overflow) = n + 1 /\ q.overflow[1] = c
       /\ \A i \in 1 .. n : q.overflow[i + 1] = pool.overflow[i]
       /\ ChunkSet(q) = ChunkSet(pool) \cup {c} /\ StrideOf(q) = stride
       /\ SlotSet(q) = SlotSet(pool) \cup SlotsIn(pool, c)
  <2>1. /\ q \in PoolSet /\ q.head = h /\ q # NoPool
        /\ q.block_size = grown.block_size /\ q.block_count = grown.block_count
        /\ q.overflow = grown.overflow
        /\ q.grow_factor = grown.grow_factor /\ q.grow_count = grown.grow_count
        /\ ChunkSet(q) = ChunkSet(grown) /\ StrideOf(q) = StrideOf(grown)
        /\ SlotSet(q) = SlotSet(grown)
    <3>1. grown \in PoolSet
      BY <1>10
    <3> QED BY <1>9, <3>1, SameChunks
  <2> HIDE DEF q
  <2> QED BY <1>10, <2>1
<1> HIDE DEF q
<1>13. Slots' = Slots \cup new
  <2>1. Slots' = SlotSet(q)
    BY <1>11 DEF Slots, SlotSet, ChunkSet, SlotsIn, StrideOf
  <2>2. SlotsIn(pool, c) = new
    BY DEF SlotsIn, c, new
  <2> QED BY <1>3, <1>12, <2>1, <2>2, InRange
<1>14. HeapSound'
  BY <1>1, <1>2, <1>3, HeapGrows
<1>15. Accepted(pool)'
  <2>1. \A d \in ChunkSet(q) : Steps(q, d.block_count)
    BY <1>2, <1>3, <1>12 DEF Accepted, Steps, c
  <2>2. Accepted(q)
    BY <1>3, <1>12, <2>1 DEF Accepted
  <2>3. Accepted(pool')
    BY <1>11, <2>2
  <2> QED BY <2>3 DEF Accepted, PoolSet, ChunkSet, Steps, StrideOf
<1>16. Placed'
  <2>1. \A d : Extent(q, d) = Extent(pool, d)
    BY <1>12 DEF Extent
  <2>2. r = Extent(q, c)
    BY <1>4, <1>12 DEF Extent, c, bytes
  <2>3. heap' = {Extent(q, d) : d \in ChunkSet(q)}
    BY <1>1, <1>3, <1>12, <2>1, <2>2 DEF Placed
  <2>4. \A d \in ChunkSet(pool) : d.backing # c.backing
    BY <1>2, <1>4, ChunkFacts DEF Extent, c
  <2>5. \A d, e \in ChunkSet(q) : d.backing = e.backing => d = e
    BY <1>3, <1>12, <2>4 DEF Placed
  <2>6. IsFiniteSet(heap') /\ Cardinality(heap') = (n + 1) + 1
    <3>1. IsFiniteSet(heap) /\ Cardinality(heap) = n + 1
      BY <1>3 DEF Placed, n
    <3> QED BY <1>1, <1>4, <3>1, FS_AddElement
  <2>7. objects' = (n + 1) + 1
    BY <1>1, <1>3 DEF Placed, n
  <2>8. /\ heap' = {Extent(pool', d) : d \in ChunkSet(pool')}
        /\ \A d, e \in ChunkSet(pool') : d.backing = e.backing => d = e
        /\ IsFiniteSet(heap') /\ Cardinality(heap') = Len(pool'.overflow) + 1
        /\ objects' = Len(pool'.overflow) + 1
    BY <1>11, <1>12, <2>3, <2>5, <2>6, <2>7
  <2> QED BY <2>8 DEF Placed, ChunkSet, Extent, StrideOf
<1>17. Counted'
  <2>1. PICK t, g \in [0 .. n -> Nat] :
           /\ SumsUp(pool, t) /\ Multiplies(pool, g)
           /\ t[n] = TotalOf(pool) /\ g[n] = TotalOf(pool)
    BY <1>2, SlotsCounted DEF n
  <2>2. /\ TotalOf(pool) \in Nat /\ Cardinality(Slots) = TotalOf(pool) /\ IsFiniteSet(Slots)
        /\ pool.grow_count = n
    BY <1>2, <1>3, SlotsCounted DEF Counted, n
  <2>3. \A i \in 1 .. n : pool.overflow[i].block_count \in Nat
    <3>1. pool.overflow \in Seq(Chunk)
      BY <1>3 DEF PoolSet
    <3>2. \A i \in 1 .. n : pool.overflow[i] \in Chunk
      BY <3>1 DEF n
    <3> QED BY <3>2, Bounds DEF Chunk
  <2>4. pool.block_count \in Nat /\ c.block_count = add
    BY <1>3, Bounds DEF PoolSet, c
  <2>5. PICK s \in [0 .. (n + 1) -> Nat] : SumsUp(q, s) /\ s[n + 1] = t[n] + add
    <3>1. Prepends(pool, q)
      BY <1>2, <1>3, <1>12, <2>3, <2>4 DEF n, Prepends
    <3>2. t \in [0 .. Len(pool.overflow) -> Nat]
      BY DEF n
    <3>3. \E s \in [0 .. Len(q.overflow) -> Nat] :
             SumsUp(q, s) /\ s[Len(q.overflow)] = t[Len(pool.overflow)] + q.overflow[1].block_count
      BY <2>1, <3>1, <3>2, SumsGrow
    <3> QED BY <1>12, <2>4, <3>3 DEF n
  <2>6. PICK w \in [0 .. (n + 1) -> Nat] : Multiplies(q, w) /\ w[n + 1] = g[n] * pool.grow_factor
    <3>1. /\ pool.grow_count \in Nat /\ pool.grow_count = n /\ q.grow_count = pool.grow_count + 1
          /\ q.block_count = pool.block_count /\ q.grow_factor = pool.grow_factor
          /\ pool.grow_factor \in Nat
      BY <1>2, <1>3, <1>12, <2>2
    <3>2. g \in [0 .. pool.grow_count -> Nat]
      BY <3>1
    <3>3. \E w \in [0 .. q.grow_count -> Nat] :
             Multiplies(q, w) /\ w[q.grow_count] = g[pool.grow_count] * pool.grow_factor
      BY <2>1, <3>1, <3>2, MultipliesGrow
    <3> QED BY <3>1, <3>3
  <2>7. IsFiniteSet(Slots') /\ Cardinality(Slots') = TotalOf(pool) + add
    <3>1. Cardinality(Slots \cap new) = 0 /\ Slots \cap new = {}
      BY <1>7, FS_EmptySet
    <3>2. /\ IsFiniteSet(Slots \cup new)
          /\ Cardinality(Slots \cup new) = Cardinality(Slots) + Cardinality(new) - Cardinality(Slots \cap new)
      BY <1>8, <2>2, FS_Union
    <3> QED BY <1>2, <1>8, <1>13, <2>2, <3>1, <3>2
  <2>8. q.grow_count = Len(q.overflow) /\ (q.grow_factor = 0 => q.grow_count = 0)
    BY <1>2, <1>12, <2>2
  <2>9. \E t1, g1 \in [0 .. Len(q.overflow) -> Nat] :
          /\ SumsUp(q, t1) /\ Multiplies(q, g1)
          /\ t1[Len(q.overflow)] = g1[Len(q.overflow)]
          /\ Cardinality(Slots') = t1[Len(q.overflow)]
    <3>1. Len(q.overflow) = n + 1
      BY <1>12
    <3>2. s[n + 1] = w[n + 1] /\ Cardinality(Slots') = s[n + 1]
      BY <1>2, <2>1, <2>5, <2>6, <2>7
    <3> QED BY <2>5, <2>6, <3>1, <3>2
  <2> QED BY <1>11, <2>7, <2>8, <2>9 DEF Counted, SumsUp, Multiplies
<1>18. FreeListExact'
  <2>1. /\ IsFiniteSet(Slots \ held) /\ NULL \notin Slots \ held
        /\ ListsExactly(pool.head, mem, Slots \ held) /\ held \subseteq Slots
    BY <1>2, FreeSlots
  <2>2. Slots \ held = {}
    BY <1>2, <2>1, ListHead
  <2>3. held' \subseteq Slots' /\ Slots' \ held' = new \ {r.base}
    BY <1>7, <1>8, <1>11, <1>13, <2>1, <2>2
  <2>4. ListsExactly(pool'.head, mem', new \ {r.base})
    BY <1>8, <1>11, <1>12
  <2> QED BY <2>3, <2>4 DEF FreeListExact
<1>19. TypeOK'
  <2>1. mem' \in [Addrs -> Word]
    BY <1>8, <1>11, Bounds
  <2>2. held' \subseteq Addrs /\ objects' \in Nat
    BY <1>1, <1>3, <1>4, <1>11 DEF TypeOK
  <2>3. heap' \subseteq [base : Addrs, size : Sizes]
    BY <1>14 DEF HeapSound
  <2> QED BY <1>11, <1>12, <2>1, <2>2, <2>3 DEF TypeOK, PoolSet
<1>20. Created' /\ Slots \subseteq Slots'
  BY <1>11, <1>12, <1>13 DEF Created
<1> QED BY <1>14, <1>15, <1>16, <1>17, <1>18, <1>19, <1>20 DEF IInv

(* A failure between two allocations: what was obtained is given back. *)
LEMMA CreateRolledBackStep ==
    ASSUME IInv, NEW bs \in BlockSizes, NEW bc \in BlockCounts, NEW f \in Factors,
           CreateRolledBack(bs, bc, f)
    PROVE  UNCHANGED vars
<1>1. /\ ~ Created /\ is_valid_block_size(bs) /\ bc # 0
      /\ ~ would_overflow_product(slot_stride(bs), bc)
      /\ UNCHANGED <<pool, mem, objects, held>>
  BY DEF CreateRolledBack, create_accepts
<1>2. PICK r \in NewRegions(create_bytes(bs, bc)) : heap' = release_backing(heap \cup {r}, r.base)
  BY DEF CreateRolledBack
<1>3. bs \in Sizes /\ bc \in Nat \ {0}
  BY <1>1, AddrAssumption, Bounds
<1>4. slot_stride(bs) \in Nat \ {0}
  BY <1>1, <1>3, StrideHolds
<1>5. create_bytes(bs, bc) \in Nat \ {0}
  <2>1. slot_stride(bs) * bc \in Nat \ {0}
    BY <1>3, <1>4
  <2> QED BY <1>1, <1>3, <1>4, <2>1, GuardedProduct DEF create_bytes
<1>6. heap' = heap
  BY <1>2, <1>5, Released DEF IInv
<1> QED BY <1>1, <1>6 DEF vars

(* A growth whose second allocation fails gives the first one back and changes
   nothing. *)
LEMMA GrowRolledBackStep ==
    ASSUME IInv, GrowRolledBack
    PROVE  UNCHANGED vars
<1>1. PICK r \in GrowRegions : heap' = release_backing(heap \cup {r}, r.base)
  BY DEF GrowRolledBack
<1>2. r \in NewRegions(StrideOf(pool) * GrowAdd) /\ StrideOf(pool) * GrowAdd \in Nat \ {0}
  BY GrowthAsked
<1>3. heap' = heap
  BY <1>1, <1>2, Released DEF IInv
<1> QED BY <1>3 DEF GrowRolledBack, vars

(* A pointer that is not a block is ignored, and nobody held it. *)
LEMMA FreeIgnoredStep ==
    ASSUME IInv, NEW block \in {NULL} \cup Addrs, FreeIgnored(block)
    PROVE  UNCHANGED vars
<1>1. /\ Created /\ (block = NULL \/ ~ is_block_in_range(pool, block))
      /\ held' = held \ {block} /\ UNCHANGED <<pool, mem, heap, objects>>
  BY DEF FreeIgnored
<1>2. held \subseteq Slots /\ Slots \subseteq Addrs /\ NULL \notin Addrs
  BY <1>1, FreeSlots, Bounds
<1>3. block \notin held
  BY <1>1, <1>2, RangeExact
<1> QED BY <1>1, <1>3 DEF vars

(* Destruction gives back every region and every object. *)
LEMMA DestroyStep ==
    ASSUME IInv, Destroy
    PROVE  IInv' /\ ~ Created'
<1>1. /\ Created /\ objects' = objects - Len(pool.overflow) - 1 /\ pool' = NoPool /\ held' = {}
      /\ mem' = Forget(mem, heap')
      /\ heap' = {r \in heap : \A i \in DOMAIN ChunksOf(pool) :
                                  r \in release_backing(heap, ChunksOf(pool)[i].backing)}
  BY DEF Destroy
<1>2. Placed /\ pool \in PoolSet /\ TypeOK
  BY <1>1 DEF IInv, Accepted
<1>3. heap' = {}
  <2>1. ASSUME NEW r \in heap, r \in heap'
        PROVE  FALSE
    <3>1. PICK c \in ChunkSet(pool) : r = Extent(pool, c)
      BY <1>2 DEF Placed
    <3>2. PICK i \in DOMAIN ChunksOf(pool) : c = ChunksOf(pool)[i]
      BY DEF ChunkSet
    <3>3. r \in release_backing(heap, c.backing)
      BY <1>1, <2>1, <3>2
    <3> QED BY <3>1, <3>3 DEF release_backing, Extent
  <2> QED BY <1>1, <2>1
<1>4. objects' = 0
  <2>1. Len(pool.overflow) \in Nat
    BY <1>2, ChunksAre
  <2> QED BY <1>1, <1>2, <2>1 DEF Placed
<1>5. ~ Created'
  BY <1>1 DEF Created
<1>6. mem' \in [Addrs -> Word]
  BY <1>1, <1>2, Bounds DEF TypeOK, Forget
<1>7. HeapSound'
  BY <1>3 DEF HeapSound
<1>8. TypeOK'
  BY <1>1, <1>3, <1>4, <1>5, <1>6 DEF TypeOK
<1> QED BY <1>1, <1>3, <1>4, <1>5, <1>7, <1>8 DEF IInv

-----------------------------------------------------------------------------
(* The initial states satisfy the invariant. *)
LEMMA InitInv == Init => IInv
<1> SUFFICES ASSUME Init PROVE IInv
  OBVIOUS
<1>1. ~ Created /\ heap = {} /\ objects = 0 /\ held = {} /\ mem = [a \in Addrs |-> Junk]
  BY DEF Init, Created
<1>2. HeapSound
  BY <1>1 DEF HeapSound
<1>3. TypeOK
  BY <1>1, Bounds DEF TypeOK
<1> QED BY <1>1, <1>2, <1>3 DEF IInv

(* A step that changes nothing preserves the invariant. *)
LEMMA StutterStep ==
    ASSUME IInv, UNCHANGED vars
    PROVE  IInv' /\ Slots' = Slots
<1>1. pool' = pool /\ mem' = mem /\ heap' = heap /\ objects' = objects /\ held' = held
  BY DEF vars
<1>2. Slots' = Slots
  BY <1>1 DEF Slots
<1>3. TypeOK' /\ HeapSound' /\ (Created' <=> Created)
  BY <1>1 DEF IInv, TypeOK, HeapSound, Created
<1>4. Accepted(pool)' <=> Accepted(pool)
  BY <1>1 DEF Accepted, PoolSet, ChunkSet, Steps, StrideOf
<1>5. Placed' <=> Placed
  BY <1>1 DEF Placed, ChunkSet, Extent, StrideOf
<1>6. Counted' <=> Counted
  BY <1>1, <1>2 DEF Counted, SumsUp, Multiplies
<1>7. FreeListExact' <=> FreeListExact
  BY <1>1, <1>2, <1>3 DEF FreeListExact
<1> QED BY <1>1, <1>2, <1>3, <1>4, <1>5, <1>6, <1>7 DEF IInv

(* No step breaks the invariant, and none but destruction takes a slot away. *)
LEMMA NextStep ==
    ASSUME IInv, [Next]_vars
    PROVE  IInv' /\ (Created /\ Created' => Slots \subseteq Slots')
<1>1. CASE \E bs \in BlockSizes, bc \in BlockCounts, f \in Factors : Create(bs, bc, f)
  BY <1>1, CreateStep DEF Create
<1>2. CASE \E bs \in BlockSizes, bc \in BlockCounts, f \in Factors : CreateRolledBack(bs, bc, f)
  BY <1>2, CreateRolledBackStep, StutterStep
<1>3. CASE CreateRefused \/ AllocRefused \/ UNCHANGED vars
  BY <1>3, StutterStep DEF CreateRefused, AllocRefused
<1>4. CASE Alloc
  BY <1>4, AllocStep
<1>5. CASE AllocGrows
  BY <1>5, GrowStep
<1>6. CASE GrowRolledBack
  BY <1>6, GrowRolledBackStep, StutterStep
<1>7. CASE \E p \in {NULL} \cup Addrs : Free(p)
  BY <1>7, FreeStep
<1>8. CASE \E p \in {NULL} \cup Addrs : FreeIgnored(p)
  BY <1>8, FreeIgnoredStep, StutterStep
<1>9. CASE Destroy
  BY <1>9, DestroyStep
<1> QED BY <1>1, <1>2, <1>3, <1>4, <1>5, <1>6, <1>7, <1>8, <1>9 DEF Next

(* The inductive invariant holds in every reachable state. *)
THEOREM Invariance == Spec => []IInv
<1>1. IInv /\ [Next]_vars => IInv'
  BY NextStep
<1> QED BY InitInv, <1>1, PTL DEF Spec

(* The head and the links are addresses of the pool or NULL, never client data. *)
THEOREM TypeCorrect == Spec => []TypeOK
<1>1. IInv => TypeOK
  BY DEF IInv
<1> QED BY Invariance, <1>1, PTL

(* The free list is exactly the slots the client does not own: free accepts the
   blocks of every chunk, wherever it lies, and no other address. *)
THEOREM FreeListIsExact == Spec => []FreeListExact
<1>1. IInv => FreeListExact
  BY DEF IInv, FreeListExact
<1> QED BY Invariance, <1>1, PTL

(* Slots are aligned, lie in memory the pool obtained, and do not overlap. *)
THEOREM BlocksAreSound == Spec => []BlocksSound
BY Invariance, Sound, PTL

(* No failure between two allocations and no destruction leaks a region or an
   object. *)
THEOREM NothingLeaks == Spec => []LedgerExact
BY Invariance, Ledger, PTL

(* A pool has block_count slots times the factor for every growth, and none of the
   guarded products wrapped. *)
THEOREM GrowthIsGeometric == Spec => []GrowthGeometric
BY Invariance, Geometric, PTL

(* What was once a block of the pool is one until the pool is destroyed. *)
THEOREM BlocksRemain == Spec => BlocksStay
<1>1. IInv /\ [Next]_vars => [Created /\ pool' # NoPool => Slots \subseteq Slots']_vars
  BY NextStep DEF Created
<1> QED BY Invariance, <1>1, PTL DEF Spec, BlocksStay
=============================================================================
