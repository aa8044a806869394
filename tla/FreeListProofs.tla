--------------------------- MODULE FreeListProofs ---------------------------
(***************************************************************************)
(* What the operations on the free list preserve, for lists of any length. *)
(* These lemmas are about FreeList only; the proofs of the modules that    *)
(* model a thread-safety policy cite them.                                 *)
(***************************************************************************)
EXTENDS FreeList, Integers, TLAPS, FunctionTheorems, FiniteSetTheorems, WellFoundedInduction

(* The head of a list is its first element, and NULL only when it is empty. *)
LEMMA ListHead ==
    ASSUME NEW h, NEW link, NEW free, IsFiniteSet(free), NULL \notin free,
           ListsExactly(h, link, free)
    PROVE  /\ h = NULL => free = {}
           /\ h # NULL => h \in free /\ link[h] \in {NULL} \cup free
<1> DEFINE n == Cardinality(free)
<1>1. n \in Nat /\ (n = 0 => free = {})
  BY FS_CardinalityType, FS_EmptySet
<1> HIDE DEF n
<1>2. PICK s \in [1 .. n -> free] : IsChain(h, link, n, s)
  BY DEF ListsExactly, n
<1>3. CASE n = 0
  BY <1>1, <1>2, <1>3 DEF IsChain
<1>4. CASE n # 0
  <2>1. 1 \in 1 .. n /\ (1 # n => 1 + 1 \in 1 .. n)
    BY <1>1, <1>4
  <2>2. h = s[1] /\ s[1] \in free
    BY <1>2, <1>4, <2>1 DEF IsChain
  <2>3. link[s[1]] = IF 1 = n THEN NULL ELSE s[1 + 1]
    BY <1>2, <2>1 DEF IsChain
  <2> QED BY <2>1, <2>2, <2>3
<1> QED BY <1>3, <1>4

(* Links outside the list do not matter. *)
LEMMA ListFrame ==
    ASSUME NEW h, NEW link, NEW link2, NEW free, ListsExactly(h, link, free),
           \A b \in free : link2[b] = link[b]
    PROVE  ListsExactly(h, link2, free)
<1> DEFINE n == Cardinality(free)
<1> HIDE DEF n
<1>1. PICK s \in [1 .. n -> free] :
         /\ \A i, j \in 1 .. n : s[i] = s[j] => i = j
         /\ \A b \in free : \E i \in 1 .. n : b = s[i]
         /\ IsChain(h, link, n, s)
  BY DEF ListsExactly, n
<1>2. IsChain(h, link2, n, s)
  BY <1>1 DEF IsChain
<1> QED BY <1>1, <1>2 DEF ListsExactly, n

(* Removing the head leaves the rest of the list. *)
LEMMA ListPop ==
    ASSUME NEW h, NEW link, NEW free, IsFiniteSet(free), NULL \notin free,
           ListsExactly(h, link, free), h # NULL
    PROVE  ListsExactly(link[h], link, free \ {h})
<1> DEFINE n == Cardinality(free)
<1> DEFINE rest == free \ {h}
<1>1. h \in free
  BY ListHead
<1>2. n \in Nat /\ n # 0 /\ Cardinality(rest) = n - 1
  BY <1>1, FS_CardinalityType, FS_EmptySet, FS_RemoveElement
<1> HIDE DEF n
<1>3. PICK s \in [1 .. n -> free] :
         /\ \A i, j \in 1 .. n : s[i] = s[j] => i = j
         /\ \A b \in free : \E i \in 1 .. n : b = s[i]
         /\ IsChain(h, link, n, s)
  BY DEF ListsExactly, n
<1>4. h = s[1] /\ 1 \in 1 .. n
  BY <1>2, <1>3 DEF IsChain
<1> DEFINE m == n - 1
<1> DEFINE r == [i \in 1 .. m |-> s[i + 1]]
<1>5. \A i \in 1 .. m : i + 1 \in 1 .. n /\ i + 1 # 1
  BY <1>2
<1>6. r \in [1 .. m -> rest]
  BY <1>3, <1>4, <1>5
<1>7. \A i, j \in 1 .. m : r[i] = r[j] => i = j
  <2> TAKE i, j \in 1 .. m
  <2>1. s[i + 1] = s[j + 1] => i + 1 = j + 1
    BY <1>3, <1>5
  <2> QED BY <2>1, <1>2
<1>8. \A b \in rest : \E i \in 1 .. m : b = r[i]
  <2> TAKE b \in rest
  <2>1. PICK i \in 1 .. n : b = s[i]
    BY <1>3
  <2>2. i # 1
    BY <2>1, <1>4
  <2>3. i - 1 \in 1 .. m /\ (i - 1) + 1 = i
    BY <2>2, <1>2
  <2> QED BY <2>1, <2>3
<1>9. IsChain(link[h], link, m, r)
  <2>1. link[h] = IF m = 0 THEN NULL ELSE r[1]
    <3>1. link[s[1]] = IF 1 = n THEN NULL ELSE s[1 + 1]
      BY <1>3, <1>4 DEF IsChain
    <3> QED BY <3>1, <1>2, <1>4
  <2>2. \A i \in 1 .. m : link[r[i]] = IF i = m THEN NULL ELSE r[i + 1]
    <3> TAKE i \in 1 .. m
    <3>1. link[s[i + 1]] = IF i + 1 = n THEN NULL ELSE s[(i + 1) + 1]
      BY <1>3, <1>5 DEF IsChain
    <3>2. i # m => i + 1 \in 1 .. m
      BY <1>2
    <3> QED BY <3>1, <3>2, <1>2
  <2> HIDE DEF m, r
  <2> QED BY <2>1, <2>2 DEF IsChain
<1>10. m = Cardinality(rest)
  BY <1>2
<1> HIDE DEF m, r, rest
<1>11. ListsExactly(link[h], link, rest)
  BY <1>6, <1>7, <1>8, <1>9, <1>10 DEF ListsExactly
<1> QED BY <1>11 DEF rest

(* Prepending a block that is linked to the head. *)
LEMMA ListPush ==
    ASSUME NEW h, NEW link, NEW free, IsFiniteSet(free),
           ListsExactly(h, link, free),
           NEW b, b \notin free, link[b] = h
    PROVE  ListsExactly(b, link, free \cup {b})
<1> DEFINE n == Cardinality(free)
<1> DEFINE more == free \cup {b}
<1>1. n \in Nat /\ Cardinality(more) = n + 1
  BY FS_CardinalityType, FS_AddElement
<1> HIDE DEF n
<1>2. PICK s \in [1 .. n -> free] :
         /\ \A i, j \in 1 .. n : s[i] = s[j] => i = j
         /\ \A c \in free : \E i \in 1 .. n : c = s[i]
         /\ IsChain(h, link, n, s)
  BY DEF ListsExactly, n
<1> DEFINE m == n + 1
<1> DEFINE r == [i \in 1 .. m |-> IF i = 1 THEN b ELSE s[i - 1]]
<1>3. \A i \in 1 .. m : i # 1 => i - 1 \in 1 .. n /\ s[i - 1] \in free
  BY <1>1
<1>4. r \in [1 .. m -> more]
  BY <1>3
<1>5. \A i, j \in 1 .. m : r[i] = r[j] => i = j
  <2> TAKE i, j \in 1 .. m
  <2>1. CASE i # 1 /\ j # 1
    <3>1. s[i - 1] = s[j - 1] => i - 1 = j - 1
      BY <2>1, <1>2, <1>3
    <3> QED BY <2>1, <3>1, <1>1
  <2>2. CASE i = 1 \/ j = 1
    BY <2>2, <1>3
  <2> QED BY <2>1, <2>2
<1>6. \A c \in more : \E i \in 1 .. m : c = r[i]
  <2> TAKE c \in more
  <2>1. CASE c = b
    <3>1. 1 \in 1 .. m /\ r[1] = b
      BY <1>1
    <3> QED BY <2>1, <3>1
  <2>2. CASE c \in free
    <3>1. PICK i \in 1 .. n : c = s[i]
      BY <2>2, <1>2
    <3>2. i + 1 \in 1 .. m /\ r[i + 1] = s[i]
      BY <1>1
    <3> QED BY <3>1, <3>2
  <2> QED BY <2>1, <2>2
<1>7. IsChain(b, link, m, r)
  <2>1. b = IF m = 0 THEN NULL ELSE r[1]
    BY <1>1
  <2>2. \A i \in 1 .. m : link[r[i]] = IF i = m THEN NULL ELSE r[i + 1]
    <3> TAKE i \in 1 .. m
    <3>1. CASE i = 1
      <4>1. n # 0 => r[2] = s[1]
        BY <1>1
      <4> QED BY <3>1, <4>1, <1>1, <1>2 DEF IsChain
    <3>2. CASE i # 1
      <4>1. link[s[i - 1]] = IF i - 1 = n THEN NULL ELSE s[(i - 1) + 1]
        BY <3>2, <1>2, <1>3 DEF IsChain
      <4>2. r[i] = s[i - 1] /\ (i # m => r[i + 1] = s[i])
        BY <3>2, <1>1
      <4>3. (i - 1) + 1 = i /\ (i - 1 = n <=> i = m)
        BY <1>1
      <4> HIDE DEF r, m
      <4> QED BY <4>1, <4>2, <4>3
    <3> QED BY <3>1, <3>2
  <2> HIDE DEF m, r
  <2> QED BY <2>1, <2>2 DEF IsChain
<1>8. m = Cardinality(more)
  BY <1>1
<1> HIDE DEF m, r, more
<1>9. ListsExactly(b, link, more)
  BY <1>4, <1>5, <1>6, <1>7, <1>8 DEF ListsExactly
<1> QED BY <1>9 DEF more

(* Induction over the numbers, as a statement about sets: the smallest number
   outside S would have a predecessor in S. *)
LEMMA NatSetInduction ==
    ASSUME NEW S, 0 \in S, \A n \in Nat : n \in S => n + 1 \in S
    PROVE  Nat \subseteq S
<1> DEFINE R == StrictSubsetOrdering(Nat)
<1> DEFINE Missing == {0 .. n : n \in Nat \ S}
<1> SUFFICES ASSUME Missing # {} PROVE FALSE
  OBVIOUS
<1>1. Missing \subseteq FiniteSubsetsOf(Nat)
  <2> SUFFICES ASSUME NEW n \in Nat PROVE 0 .. n \in SUBSET Nat /\ IsFiniteSet(0 .. n)
    BY DEF FiniteSubsetsOf
  <2> QED BY FS_Interval
<1>2. PICK X \in Missing : \A Y \in Missing : <<Y, X>> \notin R
  <2> HIDE DEF R, Missing
  <2> QED BY <1>1, FS_StrictSubsetOrderingWellFounded, WFMin DEF R
<1>3. PICK x \in Nat \ S : X = 0 .. x
  OBVIOUS
<1>4. x # 0 /\ x - 1 \in Nat \ S
  <2>1. x # 0
    OBVIOUS
  <2>2. x - 1 \in Nat /\ (x - 1) + 1 = x
    BY <2>1
  <2> QED BY <2>1, <2>2
<1>5. <<0 .. (x - 1), 0 .. x>> \in R
  <2>1. x \in 0 .. x /\ x \notin 0 .. (x - 1)
    OBVIOUS
  <2>2. 0 .. (x - 1) # 0 .. x /\ 0 .. (x - 1) \subseteq 0 .. x /\ 0 .. x \subseteq Nat
    BY <2>1
  <2> QED BY <2>2 DEF StrictSubsetOrdering
<1> QED BY <1>2, <1>3, <1>4, <1>5

(* The slots of a backing with stride 1 are an interval. *)
LEMMA SlotInterval ==
    ASSUME NEW first \in Nat, NEW count \in Nat
    PROVE  SlotAddresses(first, 1, count) = first .. (first + count - 1)
<1>1. ASSUME NEW b \in first .. (first + count - 1)
      PROVE  b \in SlotAddresses(first, 1, count)
  <2>1. b - first \in 0 .. (count - 1) /\ b = first + (b - first) * 1
    OBVIOUS
  <2> QED BY <2>1 DEF SlotAddresses
<1>2. SlotAddresses(first, 1, count) \subseteq first .. (first + count - 1)
  BY DEF SlotAddresses
<1> QED BY <1>1, <1>2

(* Slots are numbered by their distance from the backing. *)
LEMMA DistinctSlots ==
    ASSUME NEW backing \in Int, NEW stride \in Nat \ {0}, NEW i \in Nat, NEW j \in Nat,
           backing + i * stride = backing + j * stride
    PROVE  i = j
<1>1. i * stride = j * stride /\ i * stride \in Int /\ j * stride \in Int
  OBVIOUS
<1>2. ASSUME NEW a \in Nat, NEW b \in Nat, a < b
      PROVE  a * stride < b * stride
  <2>1. (b - a) * stride >= 1 * stride
    BY <1>2
  <2>2. b * stride = a * stride + (b - a) * stride
    BY <1>2
  <2> QED BY <2>1, <2>2
<1>3. ~ (i < j) /\ ~ (j < i)
  BY <1>1, <1>2
<1> QED BY <1>3

(* A freshly seeded backing is a list of all its slots, from the first on. *)
LEMMA SeededList ==
    ASSUME NEW link, NEW backing \in Int, NEW stride \in Nat \ {0}, NEW count \in Nat \ {0},
           SlotAddresses(backing, stride, count) \subseteq DOMAIN link
    PROVE  ListsExactly(backing, initialize_free_list(link, backing, stride, count),
                        SlotAddresses(backing, stride, count))
<1> DEFINE free == SlotAddresses(backing, stride, count)
<1> DEFINE seeded == initialize_free_list(link, backing, stride, count)
<1> DEFINE s == [i \in 1 .. count |-> backing + (i - 1) * stride]
<1>1. s \in [1 .. count -> free]
  BY DEF SlotAddresses
<1>2. \A i, j \in 1 .. count : s[i] = s[j] => i = j
  <2> TAKE i, j \in 1 .. count
  <2>1. i - 1 \in Nat /\ j - 1 \in Nat
    OBVIOUS
  <2>2. s[i] = s[j] => i - 1 = j - 1
    BY <2>1, DistinctSlots
  <2> QED BY <2>2
<1>3. \A b \in free : \E i \in 1 .. count : b = s[i]
  <2> TAKE b \in free
  <2>1. PICK i \in 0 .. (count - 1) : b = backing + i * stride
    BY DEF SlotAddresses
  <2>2. i + 1 \in 1 .. count /\ (i + 1) - 1 = i
    OBVIOUS
  <2> QED BY <2>1, <2>2
<1>4. IsFiniteSet(free) /\ Cardinality(free) = count
  <2>1. IsFiniteSet(1 .. count) /\ Cardinality(1 .. count) = count
    BY FS_Interval
  <2>2. s \in Bijection(1 .. count, free)
    <3> HIDE DEF s, free
    <3> QED BY <1>1, <1>2, <1>3, Fun_IsBij
  <2> HIDE DEF s, free
  <2> QED BY <2>1, <2>2, FS_Bijection DEF ExistsBijection
<1>5. IsChain(backing, seeded, count, s)
  <2>1. backing = IF count = 0 THEN NULL ELSE s[1]
    OBVIOUS
  <2>2. \A i \in 1 .. count : seeded[s[i]] = IF i = count THEN NULL ELSE s[i + 1]
    <3> TAKE i \in 1 .. count
    <3>1. s[i] \in free /\ s[i] \in DOMAIN link
      BY <1>1
    <3>2. seeded[s[i]] = IF s[i] = s[count] THEN NULL ELSE s[i] + stride
      BY <3>1 DEF initialize_free_list
    <3>3. (s[i] = s[count]) <=> (i = count)
      BY <1>2
    <3>4. i # count => s[i] + stride = s[i + 1]
      <4>1. (i - 1) * stride + stride = i * stride
        OBVIOUS
      <4> QED BY <4>1
    <3> HIDE DEF s, seeded
    <3> QED BY <3>2, <3>3, <3>4
  <2> HIDE DEF s, seeded
  <2> QED BY <2>1, <2>2 DEF IsChain
<1> HIDE DEF free, seeded, s
<1>6. ListsExactly(backing, seeded, free)
  BY <1>1, <1>2, <1>3, <1>4, <1>5 DEF ListsExactly
<1> QED BY <1>6 DEF free, seeded

(* The successor of an element is an element, and never the head. *)
LEMMA ListNext ==
    ASSUME NEW h, NEW link, NEW free, IsFiniteSet(free), NULL \notin free,
           ListsExactly(h, link, free), NEW b \in free
    PROVE  link[b] \in {NULL} \cup free /\ link[b] # h
<1> DEFINE n == Cardinality(free)
<1>1. n \in Nat
  BY FS_CardinalityType
<1> HIDE DEF n
<1>2. PICK s \in [1 .. n -> free] :
         /\ \A i, j \in 1 .. n : s[i] = s[j] => i = j
         /\ \A c \in free : \E i \in 1 .. n : c = s[i]
         /\ IsChain(h, link, n, s)
  BY DEF ListsExactly, n
<1>3. PICK i \in 1 .. n : b = s[i]
  BY <1>2
<1>4. h = s[1] /\ 1 \in 1 .. n /\ n # 0
  BY <1>1, <1>2, <1>3 DEF IsChain
<1>5. link[b] = IF i = n THEN NULL ELSE s[i + 1]
  BY <1>2, <1>3 DEF IsChain
<1>6. CASE i = n
  BY <1>2, <1>4, <1>5, <1>6
<1>7. CASE i # n
  <2>1. i + 1 \in 1 .. n /\ i + 1 # 1
    BY <1>1, <1>3, <1>7
  <2> QED BY <1>2, <1>4, <1>5, <1>7, <2>1
<1> QED BY <1>6, <1>7

(* Nothing precedes the head: a list made of elements of another one, which
   contains its head, starts with it. *)
LEMMA ListWithin ==
    ASSUME NEW h, NEW c, NEW link, NEW free, NEW part \in SUBSET free,
           IsFiniteSet(free), NULL \notin free,
           ListsExactly(h, link, free), ListsExactly(c, link, part), h \in part
    PROVE  h = c
<1> DEFINE n == Cardinality(part)
<1>1. n \in Nat
  BY FS_Subset, FS_CardinalityType
<1> HIDE DEF n
<1>2. PICK s \in [1 .. n -> part] :
         /\ \A b \in part : \E i \in 1 .. n : b = s[i]
         /\ IsChain(c, link, n, s)
  BY DEF ListsExactly, n
<1>3. PICK i \in 1 .. n : h = s[i]
  BY <1>2
<1>4. CASE i = 1
  BY <1>1, <1>2, <1>3, <1>4 DEF IsChain
<1>5. CASE i # 1
  <2>1. i - 1 \in 1 .. n /\ i - 1 # n /\ (i - 1) + 1 = i
    BY <1>1, <1>3, <1>5
  <2>2. link[s[i - 1]] = s[i] /\ s[i - 1] \in free
    BY <1>2, <2>1 DEF IsChain
  <2> QED BY <1>3, <2>2, ListNext
<1> QED BY <1>4, <1>5

(* A link that is cut leaves the part of the list before it. *)
LEMMA ListCut ==
    ASSUME NEW h, NEW link, NEW link2, NEW free, IsFiniteSet(free),
           ListsExactly(h, link, free), NEW b \in free, link2[b] = NULL,
           \A c \in free \ {b} : link2[c] = link[c]
    PROVE  \E part \in SUBSET free : ListsExactly(h, link2, part)
<1> DEFINE n == Cardinality(free)
<1>1. n \in Nat
  BY FS_CardinalityType
<1> HIDE DEF n
<1>2. PICK s \in [1 .. n -> free] :
         /\ \A i, j \in 1 .. n : s[i] = s[j] => i = j
         /\ \A c \in free : \E i \in 1 .. n : c = s[i]
         /\ IsChain(h, link, n, s)
  BY DEF ListsExactly, n
<1>3. PICK m \in 1 .. n : b = s[m]
  BY <1>2
<1> DEFINE part == {s[i] : i \in 1 .. m}
           r == [i \in 1 .. m |-> s[i]]
<1>4. \A i \in 1 .. m : i \in 1 .. n
  BY <1>1, <1>3
<1>5. r \in [1 .. m -> part] /\ part \subseteq free
  BY <1>4
<1>6. \A i, j \in 1 .. m : r[i] = r[j] => i = j
  BY <1>2, <1>4
<1>7. \A c \in part : \E i \in 1 .. m : c = r[i]
  OBVIOUS
<1>8. Cardinality(part) = m
  <2> HIDE DEF r, part
  <2>3. m \in Nat \ {0}
    BY <1>1, <1>3
  <2>1. IsFiniteSet(1 .. m) /\ Cardinality(1 .. m) = m
    BY <2>3, FS_Interval
  <2>2. r \in Bijection(1 .. m, part)
    BY <1>5, <1>6, <1>7, Fun_IsBij
  <2> QED BY <2>1, <2>2, FS_Bijection DEF ExistsBijection
<1>9. IsChain(h, link2, m, r)
  <2>1. h = IF m = 0 THEN NULL ELSE r[1]
    BY <1>1, <1>2, <1>3 DEF IsChain
  <2>2. \A i \in 1 .. m : link2[r[i]] = IF i = m THEN NULL ELSE r[i + 1]
    <3> TAKE i \in 1 .. m
    <3>1. CASE i = m
      BY <1>3, <3>1
    <3>2. CASE i # m
      <4>1. i \in 1 .. n /\ i + 1 \in 1 .. m /\ i # n
        BY <1>1, <1>3, <3>2
      <4>2. link[s[i]] = s[i + 1] /\ s[i] # b
        BY <1>2, <1>3, <3>2, <4>1 DEF IsChain
      <4> QED BY <3>2, <4>1, <4>2
    <3> QED BY <3>1, <3>2
  <2> HIDE DEF r, part
  <2> QED BY <2>1, <2>2 DEF IsChain
<1> HIDE DEF r, part
<1>10. ListsExactly(h, link2, part)
  BY <1>5, <1>6, <1>7, <1>8, <1>9 DEF ListsExactly
<1> QED BY <1>5, <1>10

-----------------------------------------------------------------------------
(* What integer division means. *)
LEMMA DivisionBounds ==
    ASSUME NEW m \in Nat, NEW r \in Nat \ {0}
    PROVE  /\ m \div r \in Nat
           /\ (m \div r) * r <= m
           /\ m < (m \div r) * r + r
<1>1. m = r * (m \div r) + (m % r) /\ m % r \in 0 .. (r - 1) /\ m \div r \in Int
  OBVIOUS
<1>2. r * (m \div r) = (m \div r) * r
  BY <1>1
<1>3. ~ (m \div r < 0)
  <2> SUFFICES ASSUME m \div r <= -1 PROVE FALSE
    BY <1>1
  <2>1. (m \div r) * r <= (-1) * r
    BY <1>1
  <2> QED BY <1>1, <1>2, <2>1
<1> QED BY <1>1, <1>2, <1>3

(* Multiplication by a natural number is monotone. *)
LEMMA ProductMonotone ==
    ASSUME NEW a \in Nat, NEW b \in Nat, NEW r \in Nat, a <= b
    PROVE  a * r <= b * r
<1>1. b * r = a * r + (b - a) * r /\ (b - a) * r >= 0
  OBVIOUS
<1> QED BY <1>1

(* A product is more than max exactly if a factor is more than max by the other. *)
LEMMA ProductGuard ==
    ASSUME NEW lhs \in Nat, NEW rhs \in Nat, NEW max \in Nat
    PROVE  lhs # 0 /\ rhs # 0 /\ lhs > max \div rhs <=> lhs * rhs > max
<1>1. CASE lhs = 0 \/ rhs = 0
  <2>1. lhs * rhs = 0
    BY <1>1
  <2> QED BY <1>1, <2>1
<1>2. CASE lhs # 0 /\ rhs # 0
  <2> DEFINE q == max \div rhs
  <2>1. q \in Nat /\ q * rhs <= max /\ max < q * rhs + rhs
    BY <1>2, DivisionBounds
  <2> HIDE DEF q
  <2>2. ASSUME lhs > q PROVE lhs * rhs > max
    <3>1. (q + 1) * rhs <= lhs * rhs
      BY <2>1, <2>2, ProductMonotone
    <3>2. (q + 1) * rhs = q * rhs + rhs
      BY <2>1
    <3> QED BY <2>1, <3>1, <3>2
  <2>3. ASSUME lhs <= q PROVE lhs * rhs <= max
    <3>1. lhs * rhs <= q * rhs
      BY <2>1, <2>3, ProductMonotone
    <3> QED BY <2>1, <3>1
  <2> QED BY <1>2, <2>1, <2>2, <2>3 DEF q
<1> QED BY <1>1, <1>2

(* Rounding up yields a multiple of a, less than one step away. *)
LEMMA RoundedUp ==
    ASSUME NEW x \in Nat, NEW a \in Nat \ {0}
    PROVE  LET r == ((x + a - 1) \div a) * a
           IN  r \in Nat /\ r % a = 0 /\ x <= r /\ r < x + a
<1> DEFINE q == (x + a - 1) \div a
<1>0. x + a - 1 \in Nat
  OBVIOUS
<1>1. q \in Nat /\ q * a <= x + a - 1 /\ x + a - 1 < q * a + a
  BY <1>0, DivisionBounds
<1> HIDE DEF q
<1>2. q * a \in Nat /\ (q * a) % a = 0
  BY <1>1
<1>3. x <= q * a /\ q * a < x + a
  BY <1>1, <1>2
<1> QED BY <1>2, <1>3 DEF q

-----------------------------------------------------------------------------
(* The slots of a backing, and the test that block_in_chunk makes. *)

(* There are count of them. *)
LEMMA SlotCount ==
    ASSUME NEW backing \in Int, NEW stride \in Nat \ {0}, NEW count \in Nat
    PROVE  /\ IsFiniteSet(SlotAddresses(backing, stride, count))
           /\ Cardinality(SlotAddresses(backing, stride, count)) = count
<1> DEFINE free == SlotAddresses(backing, stride, count)
<1> DEFINE s == [i \in 0 .. (count - 1) |-> backing + i * stride]
<1>1. IsFiniteSet(0 .. (count - 1)) /\ Cardinality(0 .. (count - 1)) = count
  BY FS_Interval
<1>2. s \in Bijection(0 .. (count - 1), free)
  <2>1. s \in [0 .. (count - 1) -> free] /\ \A b \in free : \E i \in 0 .. (count - 1) : b = s[i]
    BY DEF SlotAddresses
  <2>2. \A i, j \in 0 .. (count - 1) : s[i] = s[j] => i = j
    BY DistinctSlots
  <2> HIDE DEF s, free
  <2> QED BY <2>1, <2>2, Fun_IsBij
<1> HIDE DEF s, free
<1>3. IsFiniteSet(free) /\ Cardinality(free) = count
  BY <1>1, <1>2, FS_Bijection DEF ExistsBijection
<1> QED BY <1>3 DEF free

(* Each of them ends inside the backing. *)
LEMMA SlotWithin ==
    ASSUME NEW backing \in Int, NEW stride \in Nat \ {0}, NEW count \in Nat,
           NEW b \in SlotAddresses(backing, stride, count)
    PROVE  b \in Int /\ backing <= b /\ b + stride <= backing + stride * count
<1>1. PICK i \in 0 .. (count - 1) : b = backing + i * stride
  BY DEF SlotAddresses
<1>2. i \in Nat /\ i + 1 <= count /\ i * stride \in Nat
  BY <1>1
<1>3. (i + 1) * stride <= count * stride
  BY <1>2, ProductMonotone
<1>4. (i + 1) * stride = i * stride + stride /\ count * stride = stride * count
  BY <1>2
<1>5. stride * count \in Nat
  OBVIOUS
<1> QED BY <1>1, <1>2, <1>3, <1>4, <1>5

(* Two of them are a stride apart. *)
LEMMA SlotsApart ==
    ASSUME NEW backing \in Int, NEW stride \in Nat \ {0}, NEW count \in Nat,
           NEW a \in SlotAddresses(backing, stride, count),
           NEW b \in SlotAddresses(backing, stride, count), a # b
    PROVE  a + stride <= b \/ b + stride <= a
<1>1. PICK i \in 0 .. (count - 1) : a = backing + i * stride
  BY DEF SlotAddresses
<1>2. PICK j \in 0 .. (count - 1) : b = backing + j * stride
  BY DEF SlotAddresses
<1>3. i \in Nat /\ j \in Nat /\ i # j /\ i * stride \in Nat /\ j * stride \in Nat
  BY <1>1, <1>2
<1>4. CASE i + 1 <= j
  <2>1. (i + 1) * stride <= j * stride
    BY <1>3, <1>4, ProductMonotone
  <2>2. (i + 1) * stride = i * stride + stride
    BY <1>3
  <2> QED BY <1>1, <1>2, <1>3, <2>1, <2>2
<1>5. CASE j + 1 <= i
  <2>1. (j + 1) * stride <= i * stride
    BY <1>3, <1>5, ProductMonotone
  <2>2. (j + 1) * stride = j * stride + stride
    BY <1>3
  <2> QED BY <1>1, <1>2, <1>3, <2>1, <2>2
<1> QED BY <1>3, <1>4, <1>5

(* They are what block_in_chunk accepts. *)
LEMMA SlotTest ==
    ASSUME NEW backing \in Int, NEW stride \in Nat \ {0}, NEW count \in Nat, NEW b \in Int
    PROVE  b \in SlotAddresses(backing, stride, count) <=>
           b >= backing /\ b < backing + stride * count /\ (b - backing) % stride = 0
<1>0. stride * count \in Nat
  OBVIOUS
<1>1. ASSUME b \in SlotAddresses(backing, stride, count)
      PROVE  b >= backing /\ b < backing + stride * count /\ (b - backing) % stride = 0
  <2>1. backing <= b /\ b + stride <= backing + stride * count
    BY <1>1, SlotWithin
  <2>2. PICK i \in 0 .. (count - 1) : b = backing + i * stride
    BY <1>1 DEF SlotAddresses
  <2>3. b - backing = i * stride /\ (i * stride) % stride = 0
    BY <2>2
  <2> QED BY <1>0, <2>1, <2>3
<1>2. ASSUME b >= backing, b < backing + stride * count, (b - backing) % stride = 0
      PROVE  b \in SlotAddresses(backing, stride, count)
  <2> DEFINE d == b - backing
             i == d \div stride
  <2>1. d \in Nat
    BY <1>2
  <2>2. d % stride = 0
    BY <1>2
  <2> HIDE DEF d
  <2>3. d = stride * i + (d % stride) /\ i \in Nat
    BY <2>1, DivisionBounds
  <2> HIDE DEF i
  <2>4. d = i * stride
    BY <2>2, <2>3
  <2>5. i < count
    <3> SUFFICES ASSUME count <= i PROVE FALSE
      BY <2>3
    <3>1. count * stride <= i * stride
      BY <2>3, ProductMonotone
    <3>2. count * stride = stride * count
      OBVIOUS
    <3> QED BY <1>0, <1>2, <2>1, <2>4, <3>1, <3>2 DEF d
  <2>6. b = backing + i * stride /\ i \in 0 .. (count - 1)
    BY <2>1, <2>3, <2>4, <2>5 DEF d
  <2> QED BY <2>6 DEF SlotAddresses
<1> QED BY <1>1, <1>2

(* A multiple of a, and any number of multiples more, is a multiple. *)
LEMMA MultiplesAdd ==
    ASSUME NEW a \in Nat \ {0}, NEW b \in Nat, NEW s \in Nat, NEW i \in Nat,
           b % a = 0, s % a = 0
    PROVE  (b + i * s) % a = 0
<1> DEFINE x == b \div a
           y == s \div a
<1>1. x \in Nat /\ y \in Nat /\ b = a * x + (b % a) /\ s = a * y + (s % a)
  BY DivisionBounds
<1> HIDE DEF x, y
<1>2. b = a * x /\ s = a * y
  BY <1>1
<1>3. i * s = a * (i * y) /\ i * y \in Nat
  <2>1. i * (a * y) = a * (i * y)
    BY <1>1
  <2> QED BY <1>1, <1>2, <2>1
<1>4. b + i * s = (x + i * y) * a /\ x + i * y \in Nat
  <2> DEFINE z == i * y
  <2>1. z \in Nat
    BY <1>3
  <2> HIDE DEF z
  <2>2. a * x + a * z = (x + z) * a
    BY <1>1, <2>1
  <2> QED BY <1>1, <1>2, <1>3, <2>1, <2>2 DEF z
<1>5. \A z \in Nat : (z * a) % a = 0
  OBVIOUS
<1> QED BY <1>4, <1>5
=============================================================================
