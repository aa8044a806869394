------------------------- MODULE LockFreePoolProofs -------------------------
(***************************************************************************)
(* For every number of threads, blocks and tags, and whatever clients      *)
(* write in their blocks: the lock-free pool keeps its free list exact and *)
(* implements PoolSpec.                                                    *)
(***************************************************************************)
EXTENDS LockFreePool, FreeListProofs

(* The names below unfold in almost every step. *)
USE DEF NULL, Slots, Foreign, Pointers, Word, Tags, Heads

-----------------------------------------------------------------------------
(* A block is in transit exactly when some thread is returning it. *)
LEMMA InTransitMember ==
    ASSUME NEW b
    PROVE  /\ b \in InTransit <=> \E t \in Threads : Freeing(t) /\ blk[t] = b
           /\ b \in InTransit' <=> \E t \in Threads : Freeing(t)' /\ blk'[t] = b
BY DEF InTransit

(* A snapshot equal to the head, tag included, has not been overtaken. *)
LEMMA EqualTagsAreFresh ==
    ASSUME TypeOK, TagCounts, NEW t \in Threads, HasSnapshot(t), head = expected[t]
    PROVE  lag[t] = 0
BY TagAssumption DEF TypeOK, TagCounts

(* The lemmas of FreeListProofs apply to the available blocks. *)
LEMMA AvailableFinite == IsFiniteSet(Available) /\ Available \subseteq Slots /\ NULL \notin Available
<1>1. IsFiniteSet(1 .. N) /\ Available \in SUBSET (1 .. N)
  BY FS_Interval, NAssumption DEF Available
<1>2. IsFiniteSet(Available)
  BY <1>1, FS_Subset
<1>3. NULL \notin 1 .. N
  BY NAssumption
<1> QED BY <1>1, <1>2, <1>3

-----------------------------------------------------------------------------
(* The steps, one lemma for the actions that disturb something, one for those
   that only move a thread's own program counter and snapshot. *)

(* When the same blocks are being returned and owned, the same are available. *)
LEMMA TransitFrame ==
    ASSUME held' = held,
           \A u \in Threads : Freeing(u)' <=> Freeing(u),
           \A u \in Threads : Freeing(u) => blk'[u] = blk[u]
    PROVE  InTransit' = InTransit /\ Available' = Available
<1>1. \A b : b \in InTransit' <=> b \in InTransit
  BY DEF InTransit
<1>2. InTransit' = InTransit
  BY <1>1
<1> QED BY <1>2 DEF Available

(* A return forgets the local variables of its thread only. *)
LEMMA ReturnTypes ==
    ASSUME TypeOK, NEW t \in Threads, Return(t)
    PROVE  /\ pc' \in [Threads -> {"idle", "load", "reveal", "popcas", "guard", "link", "pushcas"}]
           /\ expected' \in [Threads -> Heads]
           /\ desired' \in [Threads -> Word]
           /\ blk' \in [Threads -> Pointers]
           /\ pc'[t] = "idle"
           /\ \A u \in Threads \ {t} :
                 /\ pc'[u] = pc[u] /\ blk'[u] = blk[u]
                 /\ expected'[u] = expected[u] /\ desired'[u] = desired[u]
BY TagAssumption DEF TypeOK, Return, Goto, NoHead

(* After a successful CAS every other snapshot is overtaken, and the history
   variable still agrees with the tags. *)
LEMMA CasCounts ==
    ASSUME TypeOK, TagCounts, SnapshotFresh, NEW t \in Threads, HasSnapshot(t),
           NEW p, CasSucceeds(t, p), Return(t)
    PROVE  TagCounts' /\ SnapshotFresh' /\ lag' \in [Threads -> Nat]
<1>1. lag' \in [Threads -> Nat]
  BY DEF TypeOK, CasSucceeds
<1>2. \A u \in Threads \ {t} :
         /\ HasSnapshot(u)' <=> HasSnapshot(u)
         /\ expected'[u] = expected[u]
         /\ HasSnapshot(u) => lag'[u] = lag[u] + 1 /\ lag[u] + 1 < TagMod
  BY DEF TypeOK, CasSucceeds, NoTagWrap, HasSnapshot, Return, Goto
<1>3. ~ HasSnapshot(t)'
  BY DEF TypeOK, HasSnapshot, Return, Goto
<1>4. head'.tag = IF head.tag = TagMod - 1 THEN 0 ELSE head.tag + 1
  BY DEF CasSucceeds, Bump
<1>5. TagCounts'
  <2> SUFFICES ASSUME NEW u \in Threads, HasSnapshot(u)'
               PROVE  /\ lag'[u] < TagMod
                      /\ head'.tag = IF expected'[u].tag + lag'[u] < TagMod
                                     THEN expected'[u].tag + lag'[u]
                                     ELSE (expected'[u].tag + lag'[u]) - TagMod
    BY DEF TagCounts
  <2>1. u # t /\ HasSnapshot(u)
    BY <1>2, <1>3
  <2>2. expected[u].tag \in 0 .. (TagMod - 1) /\ lag[u] \in Nat /\ head.tag \in 0 .. (TagMod - 1)
    BY DEF TypeOK
  <2>3. head.tag = IF expected[u].tag + lag[u] < TagMod
                   THEN expected[u].tag + lag[u]
                   ELSE (expected[u].tag + lag[u]) - TagMod
    BY <2>1 DEF TagCounts
  <2> QED BY <2>1, <2>2, <2>3, <1>2, <1>4, TagAssumption
<1>6. SnapshotFresh'
  <2>1. ASSUME NEW u \in Threads, HasSnapshot(u)'
        PROVE  lag'[u] # 0
    <3>1. u \in Threads \ {t} /\ HasSnapshot(u)
      BY <2>1, <1>2, <1>3
    <3>2. lag'[u] = lag[u] + 1 /\ lag[u] \in Nat
      BY <3>1, <1>2 DEF TypeOK
    <3> QED BY <3>2
  <2> QED BY <2>1 DEF SnapshotFresh
<1> QED BY <1>1, <1>5, <1>6

(* A pop's successful CAS: the head was fresh, so the link read with it is its
   successor, and the block leaves the list for its new owner. *)
LEMMA PopCasStep ==
    ASSUME IInv, NEW t \in Threads, PopCas(t)
    PROVE  /\ IInv'
           /\ head.ptr \in Available
           /\ Available' = Available \ {head.ptr}
           /\ held' = held \cup {head.ptr}
<1> USE DEF IInv
<1>1. pc[t] = "popcas" /\ HasSnapshot(t) /\ head = expected[t] /\ CasSucceeds(t, desired[t])
  BY DEF PopCas, CasSucceeds, HasSnapshot
<1>2. lag[t] = 0
  BY <1>1, EqualTagsAreFresh
<1>3. head.ptr # NULL /\ desired[t] = next[head.ptr]
  BY <1>1, <1>2 DEF SnapshotFresh, SnapshotNonNull
<1>4. head.ptr \in Available /\ next[head.ptr] \in {NULL} \cup Slots
  BY <1>3, AvailableFinite, ListHead DEF FreeListExact
<1>5. head.ptr \in Slots /\ head.ptr \notin held /\ head.ptr \notin InTransit
  BY <1>4 DEF Available
<1>6. /\ head'.ptr = next[head.ptr] /\ next' = next /\ Return(t)
      /\ held' = held \cup {head.ptr}
      /\ head'.tag = Bump(head.tag)
      /\ head' = [ptr |-> next[head.ptr], tag |-> Bump(head.tag)]
  BY <1>1, <1>3 DEF PopCas, CasSucceeds
<1>7. TagCounts' /\ SnapshotFresh' /\ lag' \in [Threads -> Nat]
  BY <1>1, <1>6, CasCounts
<1>8. TypeOK'
  <2>1. Bump(head.tag) \in Tags
    BY TagAssumption DEF TypeOK, Bump
  <2>2. head' \in Heads
    BY <1>4, <1>6, <2>1
  <2>3. next' \in [Slots -> Word] /\ held' \subseteq Slots
    BY <1>5, <1>6 DEF TypeOK
  <2> QED BY <2>2, <2>3, <1>6, <1>7, ReturnTypes DEF TypeOK
<1>9. \A u \in Threads :
         /\ Freeing(u)' <=> Freeing(u)
         /\ Freeing(u) => blk'[u] = blk[u]
  <2>1. ~ Freeing(t) /\ ~ Freeing(t)'
    BY <1>1, <1>6, ReturnTypes DEF Freeing
  <2>2. \A u \in Threads \ {t} : (Freeing(u)' <=> Freeing(u)) /\ blk'[u] = blk[u]
    BY <1>6, ReturnTypes DEF Freeing
  <2> QED BY <2>1, <2>2
<1>10. InTransit' = InTransit
  <2>1. \A b : b \in InTransit' <=> b \in InTransit
    BY <1>9, InTransitMember
  <2> QED BY <2>1
<1>11. Available' = Available \ {head.ptr}
  BY <1>10, <1>6 DEF Available
<1>12. FreeListExact'
  BY <1>3, <1>6, <1>11, AvailableFinite, ListPop DEF FreeListExact
<1>13. OwnershipExclusive'
  <2>1. \A u \in Threads : Freeing(u) => blk[u] \in InTransit
    BY InTransitMember
  <2> SUFFICES ASSUME NEW u \in Threads, Freeing(u)'
               PROVE  /\ blk'[u] \notin held'
                      /\ \A v \in Threads \ {u} : Freeing(v)' => blk'[v] # blk'[u]
    BY DEF OwnershipExclusive
  <2>2. Freeing(u) /\ blk'[u] = blk[u] /\ blk[u] \notin held /\ blk[u] # head.ptr
    BY <2>1, <1>5, <1>9 DEF OwnershipExclusive
  <2>3. \A v \in Threads \ {u} : Freeing(v)' => blk'[v] # blk'[u]
    BY <2>2, <1>9 DEF OwnershipExclusive
  <2> QED BY <2>2, <2>3, <1>6
<1>14. PushLinked' /\ SnapshotNonNull' /\ GuardPassed'
  BY <1>6 DEF TypeOK, PushLinked, SnapshotNonNull, GuardPassed, Return, Goto
<1> QED BY <1>4, <1>6, <1>7, <1>8, <1>11, <1>12, <1>13, <1>14

(* A push's successful CAS: its block is linked to the head and becomes it. *)
LEMMA PushCasStep ==
    ASSUME IInv, NEW t \in Threads, PushCas(t)
    PROVE  /\ IInv'
           /\ blk[t] \in Slots
           /\ Available' = Available \cup {blk[t]}
           /\ held' = held
<1> USE DEF IInv
<1>1. pc[t] = "pushcas" /\ HasSnapshot(t) /\ head = expected[t] /\ CasSucceeds(t, blk[t])
  BY DEF PushCas, CasSucceeds, HasSnapshot
<1>2. blk[t] \in Slots /\ Freeing(t) /\ next[blk[t]] = head.ptr
  BY <1>1 DEF GuardPassed, PushLinked, Freeing
<1>3. blk[t] \notin held /\ \A u \in Threads \ {t} : Freeing(u) => blk[u] # blk[t]
  BY <1>2 DEF OwnershipExclusive
<1>4. blk[t] \in InTransit /\ blk[t] \notin Available
  BY <1>2, InTransitMember DEF Available
<1>5. /\ head' = [ptr |-> blk[t], tag |-> Bump(head.tag)]
      /\ next' = next /\ held' = held /\ Return(t)
  BY <1>1 DEF PushCas, CasSucceeds
<1>6. TagCounts' /\ SnapshotFresh' /\ lag' \in [Threads -> Nat]
  BY <1>1, <1>5, CasCounts
<1>7. TypeOK'
  <2>1. Bump(head.tag) \in Tags
    BY TagAssumption DEF TypeOK, Bump
  <2>2. head' \in Heads
    BY <1>2, <1>5, <2>1
  <2> QED BY <2>2, <1>5, <1>6, ReturnTypes DEF TypeOK
<1>8. /\ ~ Freeing(t)'
      /\ \A u \in Threads \ {t} :
            /\ Freeing(u)' <=> Freeing(u)
            /\ blk'[u] = blk[u]
  BY <1>5 DEF TypeOK, Freeing, Return, Goto
<1>9. \A b : b \in InTransit' <=> b \in InTransit /\ b # blk[t]
  <2> TAKE b
  <2>1. \A u \in Threads : Freeing(u)' <=> Freeing(u) /\ u # t
    BY <1>8
  <2> QED BY <2>1, <1>2, <1>3, <1>8, InTransitMember
<1>10. Available' = Available \cup {blk[t]}
  BY <1>2, <1>3, <1>5, <1>9 DEF Available
<1>11. FreeListExact'
  BY <1>2, <1>4, <1>5, <1>10, AvailableFinite, ListPush DEF FreeListExact
<1>12. OwnershipExclusive'
  BY <1>5, <1>8 DEF OwnershipExclusive
<1>13. PushLinked' /\ SnapshotNonNull' /\ GuardPassed'
  BY <1>5 DEF TypeOK, PushLinked, SnapshotNonNull, GuardPassed, Return, Goto
<1> QED BY <1>2, <1>5, <1>6, <1>7, <1>10, <1>11, <1>12, <1>13

(* Writing a slot that is not available leaves the list and, at the head, the
   link that fresh snapshots were read with. *)
LEMMA WriteOutsideList ==
    ASSUME IInv, NEW b \in Slots, b \notin Available, NEW w \in Word,
           next' = [next EXCEPT ![b] = w], head' = head, held' = held,
           \A u \in Threads : Freeing(u)' <=> Freeing(u),
           blk' = blk, expected' = expected, desired' = desired, lag' = lag,
           \A u \in Threads : pc'[u] = pc[u] \/ (pc'[u] = "pushcas" /\ pc[u] = "link")
    PROVE  FreeListExact' /\ OwnershipExclusive' /\ TagCounts' /\ SnapshotFresh'
           /\ next' \in [Slots -> Word] /\ Available' = Available
<1> USE DEF IInv
<1>1. Available' = Available
  BY TransitFrame
<1>2. \A c \in Slots : c # b => next'[c] = next[c]
  BY DEF TypeOK
<1>3. Available \subseteq Slots
  BY AvailableFinite
<1>4. FreeListExact'
  BY <1>1, <1>2, <1>3, ListFrame DEF FreeListExact
<1>5. OwnershipExclusive'
  BY DEF OwnershipExclusive
<1>6. \A u \in Threads : HasSnapshot(u)' <=> HasSnapshot(u)
  BY DEF HasSnapshot
<1>7. TagCounts'
  BY <1>6 DEF TagCounts
<1>8. SnapshotFresh'
  <2> SUFFICES ASSUME NEW u \in Threads, HasSnapshot(u), lag[u] = 0
               PROVE  /\ expected[u] = head
                      /\ pc'[u] = "popcas" => desired[u] = next'[head.ptr]
    BY <1>6 DEF SnapshotFresh
  <2>1. expected[u] = head
    BY DEF SnapshotFresh
  <2>2. ASSUME pc'[u] = "popcas"
        PROVE  desired[u] = next'[head.ptr]
    <3>1. pc[u] = "popcas"
      BY <2>2
    <3>2. head.ptr # NULL /\ desired[u] = next[head.ptr]
      BY <2>1, <3>1 DEF SnapshotFresh, SnapshotNonNull
    <3>3. head.ptr \in Available
      BY <3>2, AvailableFinite, ListHead DEF FreeListExact
    <3> QED BY <3>2, <3>3, <1>2, <1>3
  <2> QED BY <2>1, <2>2
<1> QED BY <1>1, <1>4, <1>5, <1>7, <1>8 DEF TypeOK

(* A client writes its block, which is no free slot. *)
LEMMA ClientWriteStep ==
    ASSUME IInv, ClientWrite
    PROVE  IInv' /\ Available' = Available
<1> USE DEF IInv
<1>1. PICK b \in held, w \in UserData : next' = [next EXCEPT ![b] = w]
  BY DEF ClientWrite
<1>2. UNCHANGED <<head, held, pc, expected, desired, blk, lag>>
  BY DEF ClientWrite
<1>3. b \in Slots /\ b \notin Available /\ w \in Word
  BY DEF TypeOK, Available
<1>4. \A u \in Threads : Freeing(u)' <=> Freeing(u)
  BY <1>2 DEF Freeing
<1>5. FreeListExact' /\ OwnershipExclusive' /\ TagCounts' /\ SnapshotFresh'
      /\ next' \in [Slots -> Word] /\ Available' = Available
  BY <1>1, <1>2, <1>3, <1>4, WriteOutsideList
<1>6. TypeOK'
  BY <1>2, <1>5 DEF TypeOK
<1>7. PushLinked'
  BY <1>1, <1>2 DEF PushLinked, TypeOK, OwnershipExclusive, Freeing, GuardPassed
<1>8. SnapshotNonNull' /\ GuardPassed'
  BY <1>2 DEF SnapshotNonNull, GuardPassed
<1> QED BY <1>5, <1>6, <1>7, <1>8

(* push_head links its block to its snapshot; the block is not in the list yet. *)
LEMMA PushLinkStep ==
    ASSUME IInv, NEW t \in Threads, PushLink(t)
    PROVE  IInv' /\ Available' = Available
<1> USE DEF IInv
<1>1. /\ pc[t] = "link"
      /\ next' = [next EXCEPT ![blk[t]] = expected[t].ptr]
      /\ pc' = [pc EXCEPT ![t] = "pushcas"]
      /\ UNCHANGED <<head, held, expected, desired, blk, lag>>
  BY DEF PushLink, Goto
<1>2. blk[t] \in Slots /\ Freeing(t)
  BY <1>1 DEF GuardPassed, Freeing
<1>3. blk[t] \notin Available /\ expected[t].ptr \in Word
  BY <1>2, InTransitMember DEF Available, TypeOK
<1>4. \A u \in Threads : pc'[u] = pc[u] \/ (pc'[u] = "pushcas" /\ pc[u] = "link")
  BY <1>1 DEF TypeOK
<1>5. \A u \in Threads : Freeing(u)' <=> Freeing(u)
  BY <1>1, <1>4 DEF Freeing
<1>6. FreeListExact' /\ OwnershipExclusive' /\ TagCounts' /\ SnapshotFresh'
      /\ next' \in [Slots -> Word] /\ Available' = Available
  BY <1>1, <1>2, <1>3, <1>4, <1>5, WriteOutsideList
<1>7. TypeOK'
  BY <1>1, <1>6 DEF TypeOK
<1>8. PushLinked'
  <2> SUFFICES ASSUME NEW u \in Threads, pc'[u] = "pushcas"
               PROVE  next'[blk[u]] = expected[u].ptr
    BY <1>1 DEF PushLinked
  <2>1. CASE u = t
    BY <2>1, <1>1, <1>2 DEF TypeOK
  <2>2. CASE u # t
    <3>1. pc[u] = "pushcas" /\ Freeing(u)
      BY <2>2, <1>1 DEF TypeOK, Freeing, GuardPassed
    <3>2. blk[u] # blk[t] /\ blk[u] \in Slots
      BY <2>2, <3>1, <1>2 DEF OwnershipExclusive, Freeing
    <3> QED BY <3>1, <3>2, <1>1, <1>2 DEF PushLinked, TypeOK
  <2> QED BY <2>1, <2>2
<1>9. SnapshotNonNull' /\ GuardPassed'
  BY <1>1, <1>2 DEF SnapshotNonNull, GuardPassed, TypeOK
<1> QED BY <1>6, <1>7, <1>8, <1>9

(* A client gives a block up: it is in transit instead of held. *)
LEMMA FreeBeginStep ==
    ASSUME IInv, NEW t \in Threads, FreeBegin(t)
    PROVE  IInv' /\ Available' = Available
<1> USE DEF IInv
<1>1. PICK p \in held \cup {NULL, Foreign} :
         blk' = [blk EXCEPT ![t] = p] /\ held' = held \ {p}
  BY DEF FreeBegin
<1>2. /\ pc[t] = "idle" /\ pc' = [pc EXCEPT ![t] = "guard"]
      /\ UNCHANGED <<head, next, expected, desired, lag>>
  BY DEF FreeBegin, Goto
<1>3. NULL \notin Slots /\ Foreign \notin Slots
  BY NAssumption
<1>4. p \in Slots <=> p \in held
  BY <1>3 DEF TypeOK
<1>5. /\ ~ Freeing(t)
      /\ Freeing(t)' <=> p \in held
      /\ blk'[t] = p
  BY <1>1, <1>2, <1>4 DEF Freeing, TypeOK
<1>6. \A u \in Threads \ {t} :
         /\ Freeing(u)' <=> Freeing(u)
         /\ blk'[u] = blk[u] /\ pc'[u] = pc[u]
  BY <1>1, <1>2 DEF Freeing, TypeOK
<1>7. \A b : b \in InTransit' <=> b \in InTransit \/ (b = p /\ p \in held)
  BY <1>5, <1>6, InTransitMember
<1>8. Available' = Available
  BY <1>1, <1>4, <1>7 DEF Available
<1>9. FreeListExact'
  BY <1>2, <1>8 DEF FreeListExact
<1>10. OwnershipExclusive'
  BY <1>1, <1>5, <1>6 DEF OwnershipExclusive
<1>11. TypeOK'
  BY <1>1, <1>2 DEF TypeOK
<1>12. PushLinked' /\ SnapshotNonNull' /\ GuardPassed'
  BY <1>1, <1>2 DEF PushLinked, SnapshotNonNull, GuardPassed, TypeOK
<1>13. \A u \in Threads : HasSnapshot(u)' => HasSnapshot(u) /\ pc'[u] = pc[u]
  BY <1>2 DEF HasSnapshot, TypeOK
<1>14. TagCounts' /\ SnapshotFresh'
  BY <1>2, <1>13 DEF TagCounts, SnapshotFresh
<1> QED BY <1>8, <1>9, <1>10, <1>11, <1>12, <1>14

(* What a step that touches no shared variable must establish for its own
   thread; everything said of the list and of the other threads is kept. *)
LEMMA LocalFrame ==
    ASSUME IInv, TypeOK', NEW t \in Threads, UNCHANGED shared,
           Freeing(t)' <=> Freeing(t),
           Freeing(t) => blk'[t] = blk[t],
           \A u \in Threads \ {t} :
              /\ pc'[u] = pc[u] /\ blk'[u] = blk[u] /\ lag'[u] = lag[u]
              /\ expected'[u] = expected[u] /\ desired'[u] = desired[u],
           HasSnapshot(t)' => \/ expected'[t] = head /\ lag'[t] = 0
                              \/ /\ HasSnapshot(t)
                                 /\ expected'[t] = expected[t] /\ lag'[t] = lag[t],
           pc'[t] = "popcas" /\ lag'[t] = 0 => desired'[t] = next[expected'[t].ptr],
           pc'[t] \in {"reveal", "popcas"} => expected'[t].ptr # NULL,
           pc'[t] \in {"link", "pushcas"} => blk'[t] \in Slots,
           pc'[t] # "pushcas"
    PROVE  IInv' /\ Available' = Available
<1> USE DEF IInv
<1>1. head' = head /\ next' = next /\ held' = held
  BY DEF shared
<1>2. \A u \in Threads :
         /\ Freeing(u)' <=> Freeing(u)
         /\ Freeing(u) => blk'[u] = blk[u]
  <2> TAKE u \in Threads
  <2>1. CASE u = t
    BY <2>1
  <2>2. CASE u # t
    BY <2>2 DEF Freeing
  <2> QED BY <2>1, <2>2
<1>3. Available' = Available
  BY <1>1, <1>2, TransitFrame
<1>4. FreeListExact'
  BY <1>1, <1>3 DEF FreeListExact
<1>5. OwnershipExclusive'
  BY <1>1, <1>2 DEF OwnershipExclusive
<1>6. \A u \in Threads \ {t} : HasSnapshot(u)' <=> HasSnapshot(u)
  BY DEF HasSnapshot
<1>7. TagCounts'
  <2> SUFFICES ASSUME NEW u \in Threads, HasSnapshot(u)'
               PROVE  /\ lag'[u] < TagMod
                      /\ head'.tag = IF expected'[u].tag + lag'[u] < TagMod
                                     THEN expected'[u].tag + lag'[u]
                                     ELSE (expected'[u].tag + lag'[u]) - TagMod
    BY DEF TagCounts
  <2>1. CASE HasSnapshot(u) /\ expected'[u] = expected[u] /\ lag'[u] = lag[u]
    BY <2>1, <1>1 DEF TagCounts
  <2>2. CASE expected'[u] = head /\ lag'[u] = 0
    <3>1. head.tag \in 0 .. (TagMod - 1)
      BY DEF TypeOK
    <3> QED BY <2>2, <3>1, <1>1, TagAssumption
  <2> QED BY <2>1, <2>2, <1>6
<1>8. SnapshotFresh'
  <2> SUFFICES ASSUME NEW u \in Threads, HasSnapshot(u)', lag'[u] = 0
               PROVE  /\ expected'[u] = head
                      /\ pc'[u] = "popcas" => desired'[u] = next[head.ptr]
    BY <1>1 DEF SnapshotFresh
  <2>1. CASE u = t
    BY <2>1 DEF SnapshotFresh
  <2>2. CASE u # t
    BY <2>2, <1>6 DEF SnapshotFresh
  <2> QED BY <2>1, <2>2
<1>9. PushLinked' /\ SnapshotNonNull' /\ GuardPassed'
  BY <1>1 DEF PushLinked, SnapshotNonNull, GuardPassed
<1> QED BY <1>3, <1>4, <1>5, <1>7, <1>8, <1>9

(* A thread returns without having changed anything shared. *)
LEMMA QuietReturn ==
    ASSUME IInv, NEW t \in Threads, UNCHANGED shared, Return(t), ~ Freeing(t),
           lag' \in [Threads -> Nat],
           \A u \in Threads \ {t} : lag'[u] = lag[u]
    PROVE  IInv' /\ Available' = Available
<1>1. TypeOK'
  BY ReturnTypes DEF IInv, TypeOK, shared
<1>2. pc'[t] = "idle"
  BY ReturnTypes DEF IInv
<1>3. ~ Freeing(t)' /\ ~ HasSnapshot(t)'
  BY <1>2 DEF Freeing, HasSnapshot
<1>4. \A u \in Threads \ {t} :
         /\ pc'[u] = pc[u] /\ blk'[u] = blk[u] /\ lag'[u] = lag[u]
         /\ expected'[u] = expected[u] /\ desired'[u] = desired[u]
  BY ReturnTypes DEF IInv
<1> QED BY <1>1, <1>2, <1>3, <1>4, LocalFrame

(* The actions that change nothing shared. *)
LocalStep(t) ==
    \/ AllocBegin(t) \/ PopLoadEmpty(t) \/ PopLoad(t) \/ PopReveal(t)
    \/ PopRetry(t) \/ PopRetryEmpty(t)
    \/ FreeIgnored(t) \/ PushLoad(t) \/ PushRetry(t)

(* The steps that write no shared word. *)
LEMMA LocalSteps ==
    ASSUME IInv, NEW t \in Threads, LocalStep(t)
    PROVE  IInv' /\ Available' = Available
<1>0. TypeOK
  BY DEF IInv
<1>1. CASE PopLoadEmpty(t) \/ PopRetryEmpty(t)
  <2>1. UNCHANGED shared /\ Return(t) /\ ~ Freeing(t)
    BY <1>1 DEF PopLoadEmpty, PopRetryEmpty, shared, Freeing
  <2>2. lag' \in [Threads -> Nat] /\ \A u \in Threads \ {t} : lag'[u] = lag[u]
    <3>1. lag' = lag \/ lag' = [lag EXCEPT ![t] = 0]
      BY <1>1 DEF PopLoadEmpty, PopRetryEmpty
    <3> QED BY <3>1, <1>0 DEF TypeOK
  <2> QED BY <2>1, <2>2, QuietReturn
<1>2. CASE FreeIgnored(t)
  <2>1. UNCHANGED shared /\ Return(t) /\ ~ Freeing(t) /\ lag' = lag
    BY <1>2, NAssumption DEF FreeIgnored, is_block_in_range, shared, Freeing
  <2> QED BY <2>1, <1>0, QuietReturn DEF TypeOK
<1>3. CASE AllocBegin(t)
  BY <1>0, <1>3, LocalFrame DEF AllocBegin, Goto, TypeOK, shared, Freeing, HasSnapshot
<1>4. CASE PopLoad(t)
  BY <1>0, <1>4, LocalFrame DEF PopLoad, Goto, TypeOK, shared, Freeing, HasSnapshot
<1>5. CASE PopReveal(t)
  <2>1. PICK w \in IF lag[t] = 0 THEN {next[expected[t].ptr]} ELSE Word :
           desired' = [desired EXCEPT ![t] = w]
    BY <1>5 DEF PopReveal
  <2>2. pc[t] = "reveal" /\ pc' = [pc EXCEPT ![t] = "popcas"]
        /\ UNCHANGED <<head, next, held, expected, blk, lag>>
    BY <1>5 DEF PopReveal, Goto
  <2>3. expected[t].ptr # NULL
    BY <2>2 DEF IInv, SnapshotNonNull
  <2>4. w \in Word
    BY <2>1, <2>3, <1>0 DEF TypeOK
  <2>5. TypeOK'
    BY <2>1, <2>2, <2>4, <1>0 DEF TypeOK
  <2> QED BY <2>1, <2>2, <2>3, <2>5, <1>0, LocalFrame DEF TypeOK, shared, Freeing, HasSnapshot
<1>6. CASE PopRetry(t)
  BY <1>0, <1>6, LocalFrame DEF PopRetry, CasFails, Goto, TypeOK, shared, Freeing, HasSnapshot
<1>7. CASE PushLoad(t)
  BY <1>0, <1>7, LocalFrame DEF PushLoad, is_block_in_range, Goto, TypeOK, shared, Freeing, HasSnapshot
<1>8. CASE PushRetry(t)
  <2>1. blk[t] \in Slots
    BY <1>8 DEF PushRetry, IInv, GuardPassed
  <2> QED BY <1>0, <1>8, <2>1, LocalFrame
          DEF PushRetry, CasFails, Goto, TypeOK, shared, Freeing, HasSnapshot
<1> QED BY <1>1, <1>2, <1>3, <1>4, <1>5, <1>6, <1>7, <1>8 DEF LocalStep

-----------------------------------------------------------------------------
(* Initially the list is 1, 2, ..., N. *)
LEMMA InitInvariant == Init => IInv
<1> SUFFICES ASSUME Init PROVE IInv
  OBVIOUS
<1> USE DEF Init
<1>1. TypeOK
  BY NAssumption, TagAssumption DEF TypeOK, initialize_free_list, NoHead
<1>2. Available = Slots
  BY InTransitMember DEF Available, Freeing
<1>3. FreeListExact
  <2> DEFINE unset == [s \in Slots |-> NULL]
  <2>1. SlotAddresses(1, 1, N) = Slots
    <3>1. \A i \in 1 .. N : i - 1 \in 0 .. (N - 1) /\ i = 1 + (i - 1) * 1
      BY NAssumption
    <3>2. \A i \in 0 .. (N - 1) : 1 + i * 1 \in 1 .. N
      BY NAssumption
    <3>3. \A b : b \in 1 .. N <=> \E i \in 0 .. (N - 1) : b = 1 + i * 1
      BY <3>1, <3>2
    <3> QED BY <3>3 DEF SlotAddresses
  <2>2. ListsExactly(1, initialize_free_list(unset, 1, 1, N), SlotAddresses(1, 1, N))
    <3>1. DOMAIN unset = Slots
      OBVIOUS
    <3> HIDE DEF unset
    <3> QED BY <2>1, <3>1, NAssumption, SeededList
  <2> QED BY <2>1, <2>2, <1>2 DEF FreeListExact
<1> QED BY <1>1, <1>3
    DEF IInv, OwnershipExclusive, PushLinked, TagCounts, SnapshotFresh,
        SnapshotNonNull, GuardPassed, Freeing, HasSnapshot

(* Every step preserves the invariant. *)
LEMMA NextInvariant == IInv /\ [Next]_vars => IInv'
<1> SUFFICES ASSUME IInv, [Next]_vars PROVE IInv'
  OBVIOUS
<1>1. CASE ClientWrite
  BY <1>1, ClientWriteStep
<1>2. CASE \E t \in Threads : Begin(t) \/ Step(t)
  <2>1. PICK t \in Threads : Begin(t) \/ Step(t)
    BY <1>2
  <2>2. CASE FreeBegin(t)
    BY <2>2, FreeBeginStep
  <2>3. CASE PushLink(t)
    BY <2>3, PushLinkStep
  <2>4. CASE PopCas(t)
    BY <2>4, PopCasStep
  <2>5. CASE PushCas(t)
    BY <2>5, PushCasStep
  <2>6. CASE LocalStep(t)
    BY <2>6, LocalSteps
  <2> QED BY <2>1, <2>2, <2>3, <2>4, <2>5, <2>6 DEF Begin, Step, LocalStep
<1>3. CASE UNCHANGED vars
  <2> USE <1>3 DEF vars
  <2>1. \A u \in Threads : Freeing(u)' <=> Freeing(u)
    BY DEF Freeing
  <2>2. Available' = Available
    BY <2>1, TransitFrame
  <2>3. FreeListExact'
    BY <2>2 DEF IInv, FreeListExact
  <2>4. TypeOK' /\ PushLinked' /\ SnapshotNonNull' /\ GuardPassed'
    BY DEF IInv, TypeOK, PushLinked, SnapshotNonNull, GuardPassed
  <2>5. OwnershipExclusive' /\ TagCounts' /\ SnapshotFresh'
    BY <2>1 DEF IInv, OwnershipExclusive, TagCounts, SnapshotFresh, HasSnapshot
  <2> QED BY <2>3, <2>4, <2>5 DEF IInv
<1> QED BY <1>1, <1>2, <1>3 DEF Next

(* The inductive invariant holds in every reachable state. *)
THEOREM Invariance == Spec => []IInv
<1>1. Init => IInv
  BY InitInvariant
<1>2. IInv /\ [Next]_vars => IInv'
  BY NextInvariant
<1> QED BY <1>1, <1>2, PTL DEF Spec

(* The head never leaves the pool's slots: no client data becomes the head. *)
THEOREM TypeCorrect == Spec => []TypeOK
<1>1. IInv => TypeOK
  BY DEF IInv
<1> QED BY <1>1, Invariance, PTL

(* No interleaving loses a block, duplicates one or closes a cycle. *)
THEOREM FreeListIsExact == Spec => []FreeListExact
<1>1. IInv => FreeListExact
  BY DEF IInv
<1> QED BY <1>1, Invariance, PTL

(* A block that a thread is returning is owned by nobody and returned by no other
   thread, however the CAS loops interleave. *)
THEOREM OwnershipIsExclusive == Spec => []OwnershipExclusive
<1>1. IInv => OwnershipExclusive
  BY DEF IInv
<1> QED BY <1>1, Invariance, PTL

(* The tag defeats ABA as long as it does not wrap around under a snapshot. *)
THEOREM TagDefeatsABA == Spec => []NoABA
<1>1. ASSUME IInv PROVE NoABA
  <2> SUFFICES ASSUME NEW t \in Threads, pc[t] = "popcas", head = expected[t]
               PROVE  desired[t] = next[head.ptr]
    BY DEF NoABA
  <2>1. lag[t] = 0
    BY <1>1, EqualTagsAreFresh DEF IInv, HasSnapshot
  <2> QED BY <2>1, <1>1 DEF IInv, SnapshotFresh, HasSnapshot
<1> QED BY <1>1, Invariance, PTL

-----------------------------------------------------------------------------
(* The refinement.  Each step of a call is one abstract step or none: the
   CASes that succeed are Vend and TakeBack, the load that finds the head NULL
   is Refuse, the guard that rejects the pointer is Ignore. *)

(* A step of thread t leaves the calls of the others alone. *)
LEMMA CallFrame ==
    ASSUME NEW t \in Threads,
           \A u \in Threads \ {t} : pc'[u] = pc[u] /\ blk'[u] = blk[u]
    PROVE  [u \in Threads |-> CallOf(u)]' =
              [[u \in Threads |-> CallOf(u)] EXCEPT ![t] = CallOf(t)']
BY DEF CallOf

(* The initial states are those of the abstract pool. *)
LEMMA InitRefines == Init => Abs!Init
<1> SUFFICES ASSUME Init PROVE Abs!Init
  OBVIOUS
<1>1. Available = Slots
  BY InTransitMember DEF Available, Freeing, Init
<1>2. Slots # {}
  BY NAssumption
<1>3. [t \in Threads |-> CallOf(t)] = [t \in Threads |-> [op |-> "none"]]
  BY DEF Init, CallOf
<1> QED BY <1>1, <1>2, <1>3 DEF Abs!Init, Abs!NoCall, Init

(* Every step is one of the abstract pool, or a stutter. *)
LEMMA NextRefines == IInv /\ [Next]_vars => [Abs!Next]_(Abs!vars)
<1> SUFFICES ASSUME IInv, [Next]_vars PROVE [Abs!Next]_(Abs!vars)
  OBVIOUS
<1> DEFINE calls == [u \in Threads |-> CallOf(u)]
<1>0. TypeOK
  BY DEF IInv
<1>1. CASE ClientWrite
  <2>1. Available' = Available /\ held' = held /\ calls' = calls
    BY <1>1, ClientWriteStep DEF ClientWrite, CallOf
  <2> QED BY <2>1 DEF Abs!vars
<1>2. CASE UNCHANGED vars
  <2>1. InTransit' = InTransit
    <3>1. \A u \in Threads : Freeing(u)' <=> Freeing(u)
      BY <1>2 DEF Freeing, vars
    <3> QED BY <1>2, <3>1, TransitFrame DEF vars
  <2>2. Available' = Available /\ held' = held /\ calls' = calls
    BY <1>2, <2>1 DEF vars, Available, CallOf
  <2> QED BY <2>2 DEF Abs!vars
<1>3. ASSUME NEW t \in Threads, Begin(t) \/ Step(t)
      PROVE  [Abs!Next]_(Abs!vars)
  <2>1. \A u \in Threads \ {t} : pc'[u] = pc[u] /\ blk'[u] = blk[u]
    BY <1>0, <1>3
       DEF Begin, Step, AllocBegin, PopLoadEmpty, PopLoad, PopReveal, PopCas,
           PopRetry, PopRetryEmpty, FreeBegin, FreeIgnored, PushLoad, PushLink,
           PushCas, PushRetry, Return, Goto, TypeOK
  <2>2. calls' = [calls EXCEPT ![t] = CallOf(t)']
    BY <2>1, CallFrame
  <2>3. calls[t] = CallOf(t)
    OBVIOUS
  <2>4. CASE AllocBegin(t)
    <3>1. CallOf(t) = [op |-> "none"] /\ CallOf(t)' = [op |-> "alloc"]
      BY <2>4, <1>0 DEF AllocBegin, Goto, TypeOK, CallOf
    <3>2. Available' = Available /\ held' = held
      BY <2>4, LocalSteps DEF LocalStep, AllocBegin
    <3>3. Abs!BeginAlloc(t)
      BY <2>2, <3>1, <3>2 DEF Abs!BeginAlloc, Abs!NoCall, Abs!AllocCall
    <3> QED BY <3>3 DEF Abs!Next
  <2>5. CASE FreeBegin(t)
    <3>1. PICK p \in held \cup {NULL, Foreign} :
             blk' = [blk EXCEPT ![t] = p] /\ held' = held \ {p}
      BY <2>5 DEF FreeBegin
    <3>2. CallOf(t) = [op |-> "none"] /\ CallOf(t)' = [op |-> "free", arg |-> p]
      BY <2>5, <3>1, <1>0 DEF FreeBegin, Goto, TypeOK, CallOf
    <3>3. Available' = Available
      BY <2>5, FreeBeginStep
    <3>4. Abs!BeginFree(t)
      BY <2>2, <3>1, <3>2, <3>3 DEF Abs!BeginFree, Abs!NoCall, Abs!FreeCall
    <3> QED BY <3>4 DEF Abs!Next
  <2>6. CASE PopCas(t)
    <3>1. CallOf(t) = [op |-> "alloc"] /\ CallOf(t)' = [op |-> "none"]
      BY <2>6, <1>0, ReturnTypes DEF PopCas, CallOf
    <3>2. Abs!Vend(t)
      BY <2>2, <2>6, <3>1, PopCasStep
         DEF Abs!Vend, Abs!AllocCall, Abs!NoCall, Abs!Return
    <3> QED BY <3>2 DEF Abs!Next
  <2>7. CASE PushCas(t)
    <3>1. CallOf(t) = [op |-> "free", arg |-> blk[t]] /\ CallOf(t)' = [op |-> "none"]
      BY <2>7, <1>0, ReturnTypes DEF PushCas, CallOf
    <3>2. Abs!TakeBack(t)
      BY <2>2, <2>7, <3>1, PushCasStep DEF Abs!TakeBack, Abs!NoCall, Abs!Return
    <3> QED BY <3>2 DEF Abs!Next
  <2>8. CASE PopLoadEmpty(t) \/ PopRetryEmpty(t)
    <3>1. CallOf(t) = [op |-> "alloc"] /\ CallOf(t)' = [op |-> "none"]
      BY <2>8, <1>0, ReturnTypes DEF PopLoadEmpty, PopRetryEmpty, CallOf
    <3>2. Available = {}
      BY <2>8, AvailableFinite, ListHead DEF PopLoadEmpty, PopRetryEmpty, IInv, FreeListExact
    <3>3. Available' = Available /\ held' = held
      BY <2>8, LocalSteps DEF LocalStep, PopLoadEmpty, PopRetryEmpty
    <3>4. Abs!Refuse(t)
      BY <2>2, <3>1, <3>2, <3>3 DEF Abs!Refuse, Abs!AllocCall, Abs!NoCall, Abs!Return
    <3> QED BY <3>4 DEF Abs!Next
  <2>9. CASE FreeIgnored(t)
    <3>1. CallOf(t) = [op |-> "free", arg |-> blk[t]] /\ CallOf(t)' = [op |-> "none"]
      BY <2>9, <1>0, ReturnTypes DEF FreeIgnored, CallOf
    <3>2. blk[t] \notin Slots
      BY <2>9, NAssumption DEF FreeIgnored, is_block_in_range
    <3>3. Available' = Available /\ held' = held
      BY <2>9, LocalSteps DEF LocalStep, FreeIgnored
    <3>4. Abs!Ignore(t)
      BY <2>2, <3>1, <3>2, <3>3 DEF Abs!Ignore, Abs!NoCall, Abs!Return
    <3> QED BY <3>4 DEF Abs!Next
  <2>10. CASE PopLoad(t) \/ PopReveal(t) \/ PopRetry(t) \/ PushLoad(t) \/ PushRetry(t)
    <3>1. CallOf(t)' = CallOf(t)
      BY <2>10, <1>0
         DEF PopLoad, PopReveal, PopRetry, PushLoad, PushRetry, Goto, TypeOK, CallOf
    <3>2. Available' = Available /\ held' = held
      BY <2>10, LocalSteps
         DEF LocalStep, PopLoad, PopReveal, PopRetry, PushLoad, PushRetry
    <3>3. calls' = calls
      BY <2>2, <3>1
    <3> QED BY <3>2, <3>3 DEF Abs!vars
  <2>11. CASE PushLink(t)
    <3>1. CallOf(t)' = CallOf(t)
      BY <2>11, <1>0 DEF PushLink, Goto, TypeOK, CallOf
    <3>2. Available' = Available /\ held' = held
      BY <2>11, PushLinkStep DEF PushLink
    <3>3. calls' = calls
      BY <2>2, <3>1
    <3> QED BY <3>2, <3>3 DEF Abs!vars
  <2> QED BY <1>3, <2>4, <2>5, <2>6, <2>7, <2>8, <2>9, <2>10, <2>11 DEF Begin, Step
<1> QED BY <1>1, <1>2, <1>3 DEF Next

(* Every behaviour of the lock-free pool is one of the abstract pool: each
   call takes effect at one instant, blocks are owned exclusively, NULL means
   exhausted. *)
THEOREM Refinement == Spec => Linearizable
<1>1. Init => Abs!Init
  BY InitRefines
<1>2. IInv /\ [Next]_vars => [Abs!Next]_(Abs!vars)
  BY NextRefines
<1> QED BY <1>1, <1>2, Invariance, PTL DEF Spec, Linearizable, Abs!Spec
=============================================================================
