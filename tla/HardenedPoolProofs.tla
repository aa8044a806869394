------------------------- MODULE HardenedPoolProofs -------------------------
(***************************************************************************)
(* For every number of threads, blocks and faults: the hardened pool       *)
(* accuses no innocent block, keeps its free list exact under misuse,      *)
(* reports the damage done to a block at the next call on it, and a        *)
(* diagnostic walk of an undamaged list visits what was counted.           *)
(***************************************************************************)
EXTENDS HardenedPool, FreeListProofs

-----------------------------------------------------------------------------
(* The inductive invariant. *)

Handling(t) == pc[t] \in {"onalloc", "stamp", "push"}

(* The blocks of the returns under way; all others that nobody owns still have
   their guards as the list knows them. *)
Settling == {blk[t] : t \in {u \in Threads : pc[u] \in {"stamp", "push"}}}
Listed == Blocks \ (held \cup Settling)

(* No thread is between two steps in a locked build, no walk is begun in a
   lock-free one, and a snapshot that no CAS has overtaken is the head. *)
ThreadsOK ==
    /\ policy = "locked" => \A t \in Threads : pc[t] = "idle"
    /\ policy = "lockfree" => cursor = NULL
    /\ \A t \in Threads : /\ pc[t] # "idle" => blk[t] \in Blocks
                          /\ pc[t] \in {"reveal", "cas"} /\ fresh[t] => blk[t] = head

(* What only misuse brings about. *)
FaultsOK == faults = 0 => ~ blind /\ ~ torn /\ \A t \in Threads : pc[t] # "restamp"

(* A block is in one pair of hands. *)
HandsApart ==
    /\ \A t \in Threads : Handling(t) => blk[t] \notin held
    /\ \A t, u \in Threads : Handling(t) /\ Handling(u) /\ blk[t] = blk[u] => t = u

(* The guard word and the poison of a block say where it is, or else it was
   misused; on the way back they are restored before it is published. *)
GuardsTold ==
    /\ \A b \in held : guard[b] \in {"allocated", "smashed"} /\ (guard[b] = "smashed" => b \in guilty)
    /\ \A b \in Listed : b \in guilty \/ (guard[b] = "freed" /\ poison[b])
    /\ \A t \in Threads : pc[t] = "push" => guard[blk[t]] = "freed" /\ poison[blk[t]]

(* Damage that is owed can still be seen, by the call that will meet it, unless
   the second free of its block removed the traces. *)
DamageOwed ==
    \A o \in owed \ erased :
        /\ o[1] = "overflow" => o[2] \in held /\ guard[o[2]] = "smashed"
        /\ o[1] = "guard" => o[2] \in Listed /\ guard[o[2]] = "smashed"
        /\ o[1] = "payload" => o[2] \in Listed /\ ~ poison[o[2]]
        /\ o[1] = "link" /\ policy = "locked" => o[2] \notin held /\ link[o[2]] = Wild

(* An overwritten link may cut the free list, but adds nothing to it. *)
ListOK ==
    \E S \in SUBSET Available :
        /\ Chain(link, head, S)
        /\ ~ torn => S = Available /\ head # Wild /\ \A b \in S : link[b] # Wild

(* The link that a CAS is about to install begins the rest of the list, unless
   the CAS will fail. *)
RestOK ==
    \A t \in Threads : pc[t] = "cas" /\ fresh[t] =>
        /\ \E S \in SUBSET (Available \ {head}) : Chain(link, val[t], S)
        /\ ~ torn => val[t] = link[head]

AccusedOK == ~ torn => accused \subseteq guilty

(* What a walk has seen and what is ahead of it add up to what was counted. *)
WalkOK ==
    /\ ~ torn => cursor \in {NULL} \cup Available
    /\ faults = 0 /\ cursor \in Blocks =>
          \E S \in SUBSET (Available \ seen) :
             ListsExactly(cursor, link, S) /\ Cardinality(S) + Cardinality(seen) = counted

Sound == HandsApart /\ GuardsTold /\ DamageOwed /\ ListOK /\ RestOK /\ AccusedOK /\ WalkOK

(* The block of a refused free was accused, before its traces were removed. *)
RefusedTold ==
    /\ \A t \in Threads : pc[t] = "restamp" => blk[t] \in accused
    /\ \A o \in erased : o[2] \in accused

(* Once a second free could not be told from a first one, only types are left. *)
IInv == TypeOK /\ ThreadsOK /\ FaultsOK /\ (blind \/ Sound)

-----------------------------------------------------------------------------
(* Words and chains. *)

(* NULL, a wild word and the addresses of blocks are told apart. *)
LEMMA Words ==
    /\ NULL \notin Blocks /\ Wild \notin Blocks /\ Wild # NULL
    /\ IsFiniteSet(Blocks) /\ Cardinality(Blocks) = N /\ 1 \in Blocks
<1>1. N \in Nat \ {0}
  BY HardenedAssumption
<1>2. IsFiniteSet(1 .. N) /\ Cardinality(1 .. N) = N
  BY <1>1, FS_Interval
<1> QED BY <1>1, <1>2 DEF NULL, Wild, Blocks

(* Links outside the chain do not matter. *)
LEMMA ChainFrame ==
    ASSUME NEW l, NEW l2, NEW h, NEW S \in SUBSET Blocks, Chain(l, h, S), \A b \in S : l2[b] = l[b]
    PROVE  Chain(l2, h, S)
<1>1. \A b \in S : [c \in Blocks |-> Cut(l2[c])][b] = [c \in Blocks |-> Cut(l[c])][b]
  OBVIOUS
<1> QED BY <1>1, ListFrame DEF Chain

(* A chain that begins with a block goes on at its link. *)
LEMMA ChainPop ==
    ASSUME NEW l, NEW h \in Blocks, NEW S \in SUBSET Blocks, Chain(l, h, S)
    PROVE  h \in S /\ Chain(l, l[h], S \ {h})
<1> DEFINE f == [b \in Blocks |-> Cut(l[b])]
<1>1. IsFiniteSet(S) /\ NULL \notin S /\ h # NULL /\ Cut(h) = h
  BY Words, FS_Subset DEF Cut
<1>2. ListsExactly(h, f, S)
  BY <1>1 DEF Chain
<1>3. f[h] = Cut(l[h])
  OBVIOUS
<1> HIDE DEF f
<1>4. h \in S /\ ListsExactly(f[h], f, S \ {h})
  BY <1>1, <1>2, ListHead, ListPop
<1> QED BY <1>3, <1>4 DEF Chain, f

(* push_head: a block linked to the head is put in front of the chain, wherever
   the chain ends. *)
LEMMA ChainPush ==
    ASSUME NEW l, NEW h, NEW S \in SUBSET Blocks, Chain(l, h, S), NEW b \in Blocks \ S, l[b] = h
    PROVE  Chain(l, b, S \cup {b})
<1> DEFINE f == [c \in Blocks |-> Cut(l[c])]
<1>1. IsFiniteSet(S) /\ Cut(b) = b
  BY Words, FS_Subset DEF Cut
<1>2. ListsExactly(Cut(h), f, S) /\ f[b] = Cut(h)
  BY DEF Chain
<1> HIDE DEF f
<1>3. ListsExactly(b, f, S \cup {b})
  BY <1>1, <1>2, ListPush
<1> QED BY <1>1, <1>3 DEF Chain, f

(* Overwriting a link loses what was behind it. *)
LEMMA ChainCut ==
    ASSUME NEW l, NEW l2, NEW h, NEW S \in SUBSET Blocks, Chain(l, h, S), NEW b \in Blocks,
           l2[b] = Wild, \A c \in S \ {b} : l2[c] = l[c]
    PROVE  \E part \in SUBSET S : Chain(l2, h, part)
<1>1. CASE b \notin S
  BY <1>1, ChainFrame
<1>2. CASE b \in S
  <2> DEFINE f == [c \in Blocks |-> Cut(l[c])]
             g == [c \in Blocks |-> Cut(l2[c])]
  <2>1. IsFiniteSet(S)
    BY Words, FS_Subset
  <2>2. ListsExactly(Cut(h), f, S) /\ g[b] = NULL /\ \A c \in S \ {b} : g[c] = f[c]
    BY DEF Chain, Cut
  <2> HIDE DEF f, g
  <2>3. \E part \in SUBSET S : ListsExactly(Cut(h), g, part)
    BY <1>2, <2>1, <2>2, ListCut
  <2> QED BY <2>3 DEF Chain, g
<1> QED BY <1>1, <1>2

(* A chain without wild links is a list. *)
LEMMA ChainPlain ==
    ASSUME NEW l, NEW h, NEW S \in SUBSET Blocks, Chain(l, h, S), h # Wild,
           \A b \in S : l[b] # Wild
    PROVE  ListsExactly(h, l, S)
<1> DEFINE f == [b \in Blocks |-> Cut(l[b])]
<1>1. ListsExactly(h, f, S) /\ \A b \in S : l[b] = f[b]
  BY DEF Chain, Cut
<1> HIDE DEF f
<1> QED BY <1>1, ListFrame

(* A list that no wild word is part of is a chain. *)
LEMMA PlainChain ==
    ASSUME NEW l, NEW h, NEW S \in SUBSET Blocks, ListsExactly(h, l, S), h # Wild,
           \A b \in S : l[b] # Wild
    PROVE  Chain(l, h, S)
<1> DEFINE f == [b \in Blocks |-> Cut(l[b])]
<1>1. Cut(h) = h /\ \A b \in S : f[b] = l[b]
  BY DEF Cut
<1> HIDE DEF f
<1>2. ListsExactly(h, f, S)
  BY <1>1, ListFrame
<1> QED BY <1>1, <1>2 DEF Chain, f

-----------------------------------------------------------------------------
(* The blocks in the hands of the threads whose step is one of L. *)

Hands(L) == {blk[t] : t \in {u \in Threads : pc[u] \in L}}

InHands == {"onalloc", "stamp", "push"}
Settles == {"stamp", "push"}

(* One thread goes from one step to another. *)
LEMMA HandsMoved ==
    ASSUME NEW t \in Threads, NEW L,
           \A u \in Threads \ {t} : pc'[u] = pc[u] /\ blk'[u] = blk[u],
           \A u \in Threads : pc[t] \in L /\ pc[u] \in L /\ blk[u] = blk[t] => u = t
    PROVE  /\ pc[t] \notin L /\ pc'[t] \notin L => Hands(L)' = Hands(L)
           /\ pc[t] \notin L /\ pc'[t] \in L => Hands(L)' = Hands(L) \cup {blk'[t]}
           /\ pc[t] \in L /\ pc'[t] \in L /\ blk'[t] = blk[t] => Hands(L)' = Hands(L)
           /\ pc[t] \in L /\ pc'[t] \notin L => Hands(L)' = Hands(L) \ {blk[t]}
<1>1. \A y : y \in Hands(L)' <=> \E u \in Threads : pc'[u] \in L /\ y = blk'[u]
  BY DEF Hands
<1>2. \A y : y \in Hands(L) <=> \E u \in Threads : pc[u] \in L /\ y = blk[u]
  BY DEF Hands
<1>3. ASSUME NEW y
      PROVE  y \in Hands(L)' <=> \/ pc'[t] \in L /\ y = blk'[t]
                                 \/ \E u \in Threads \ {t} : pc[u] \in L /\ y = blk[u]
  BY <1>1
<1>4. ASSUME NEW y
      PROVE  y \in Hands(L) <=> \/ pc[t] \in L /\ y = blk[t]
                                \/ \E u \in Threads \ {t} : pc[u] \in L /\ y = blk[u]
  BY <1>2
<1>5. pc[t] \notin L /\ pc'[t] \notin L => Hands(L)' = Hands(L)
  BY <1>3, <1>4
<1>6. pc[t] \notin L /\ pc'[t] \in L => Hands(L)' = Hands(L) \cup {blk'[t]}
  BY <1>3, <1>4
<1>7. pc[t] \in L /\ pc'[t] \in L /\ blk'[t] = blk[t] => Hands(L)' = Hands(L)
  BY <1>3, <1>4
<1>8. ASSUME pc[t] \in L, pc'[t] \notin L
      PROVE  Hands(L)' = Hands(L) \ {blk[t]}
  <2>1. \A u \in Threads \ {t} : pc[u] \in L => blk[u] # blk[t]
    BY <1>8
  <2> QED BY <1>3, <1>4, <1>8, <2>1
<1> QED BY <1>5, <1>6, <1>7, <1>8

(* The blocks in hand are those of the threads between the check of a call and
   its end. *)
LEMMA HandsHere ==
    /\ InHand = Hands(InHands) /\ InHand' = Hands(InHands)'
    /\ Settling = Hands(Settles) /\ Settling' = Hands(Settles)'
    /\ \A t \in Threads : Handling(t) => blk[t] \in InHand
    /\ \A t \in Threads : pc[t] \in Settles => blk[t] \in Settling
    /\ \A b \in InHand : \E t \in Threads : Handling(t) /\ b = blk[t]
    /\ \A b \in Settling : \E t \in Threads : pc[t] \in Settles /\ b = blk[t]
BY DEF InHand, Settling, Hands, InHands, Settles, Handling

(* Every block that is available is listed. *)
LEMMA AvailableListed == Available \subseteq Listed
BY HandsHere DEF Available, Listed, Handling, Settles

(* Nothing is in hand under a lock. *)
LEMMA HandsLocked ==
    ASSUME IInv, policy = "locked"
    PROVE  /\ InHand = {} /\ Settling = {} /\ Available = Listed /\ Available = Blocks \ held
           /\ \A t \in Threads : pc[t] = "idle"
<1>1. \A t \in Threads : pc[t] = "idle"
  BY DEF IInv, ThreadsOK
<1>2. InHand = {} /\ Settling = {}
  BY <1>1 DEF InHand, Settling
<1> QED BY <1>1, <1>2 DEF Available, Listed

(* The head, if it is a block, is available, and a list of other available
   blocks begins at its link. *)
LEMMA HeadAvailable ==
    ASSUME ListOK, head \in Blocks
    PROVE  /\ head \in Available
           /\ \E S \in SUBSET (Available \ {head}) :
                 /\ Chain(link, link[head], S)
                 /\ ~ torn => /\ S = Available \ {head} /\ link[head] # Wild
                              /\ \A b \in S : link[b] # Wild
<1>1. PICK S \in SUBSET Available :
         /\ Chain(link, head, S)
         /\ ~ torn => S = Available /\ head # Wild /\ \A b \in S : link[b] # Wild
  BY DEF ListOK
<1>2. S \in SUBSET Blocks
  BY DEF Available
<1>3. head \in S /\ Chain(link, link[head], S \ {head})
  BY <1>1, <1>2, ChainPop
<1> QED BY <1>1, <1>3

(* An untorn list is exact. *)
LEMMA ListPlain ==
    ASSUME ListOK, ~ torn
    PROVE  /\ Chain(link, head, Available) /\ ListsExactly(head, link, Available)
           /\ \A b \in Available : link[b] \in {NULL} \cup Available
           /\ IsFiniteSet(Available) /\ NULL \notin Available
<1>1. Available \in SUBSET Blocks /\ IsFiniteSet(Available) /\ NULL \notin Available
  BY Words, FS_Subset DEF Available
<1>2. Chain(link, head, Available) /\ head # Wild /\ \A b \in Available : link[b] # Wild
  BY DEF ListOK
<1>3. ListsExactly(head, link, Available)
  BY <1>1, <1>2, ChainPlain
<1> QED BY <1>1, <1>2, <1>3, ListNext

(* A wild word is at the head of an untorn list neither now nor after a pop. *)
LEMMA HeadTyped == TypeOK /\ ~ torn /\ ~ blind => head \in {NULL} \cup Blocks
BY DEF TypeOK

(* What is still owed after a report. *)
LEMMA Owed ==
    ASSUME NEW told, report(told)
    PROVE  /\ owed' = owed \ told
           /\ accused \subseteq accused' /\ \A r \in told : r[2] \in accused'
           /\ \A b : (\A r \in told : r[2] = b) => accused' \subseteq accused \cup {b}
           /\ told = {} => accused' = accused
           /\ aborted' \in BOOLEAN
BY DEF report, default_hardening_violation_handler

(* The reports of a call are about its block. *)
LEMMA Told ==
    ASSUME NEW b
    PROVE  /\ \A r \in read_next_reports(b) : r[2] = b
           /\ \A r \in on_alloc_reports(b) : r[2] = b
           /\ \A r \in on_free_reports(b) : r[2] = b
           /\ link[b] = Wild => <<"link", b>> \in read_next_reports(b)
           /\ link[b] # Wild => read_next_reports(b) = {}
           /\ guard[b] # "freed" => <<"guard", b>> \in on_alloc_reports(b)
           /\ ~ poison[b] => <<"payload", b>> \in on_alloc_reports(b)
           /\ guard[b] = "freed" /\ poison[b] => on_alloc_reports(b) = {}
           /\ guard[b] = "freed" => on_free_reports(b) = {<<"double-free", b>>}
           /\ guard[b] = "allocated" => on_free_reports(b) = {}
           /\ guard[b] = "smashed" => on_free_reports(b) = {<<"overflow", b>>}
<1>1. read_next_reports(b) = IF link[b] = Wild THEN {<<"link", b>>} ELSE {}
  BY DEF read_next_reports, reveal_next
<1>2. on_alloc_reports(b) = (IF guard[b] # "freed" THEN {<<"guard", b>>} ELSE {})
                              \cup (IF poison[b] THEN {} ELSE {<<"payload", b>>})
  BY DEF on_alloc_reports, read_guard, payload_is_poison
<1>3. /\ guard[b] = "freed" => on_free_reports(b) = {<<"double-free", b>>}
      /\ guard[b] = "allocated" => on_free_reports(b) = {}
      /\ guard[b] \notin {"freed", "allocated"} => on_free_reports(b) = {<<"overflow", b>>}
  BY DEF on_free_reports, read_guard
<1>4. \A r \in on_free_reports(b) : r[2] = b
  BY <1>3
<1> QED BY <1>1, <1>2, <1>3, <1>4

(* A second free that is recognised is reported. *)
LEMMA ReportedFree ==
    ASSUME NEW b, report(on_free_reports(b))
    PROVE  accused \subseteq accused' /\ (guard[b] = "freed" => b \in accused')
<1>1. accused' = accused \cup {r[2] : r \in on_free_reports(b)}
  BY DEF report
<1>2. ASSUME guard[b] = "freed" PROVE b \in accused'
  <2>1. on_free_reports(b) = {<<"double-free", b>>}
    BY <1>2, Told
  <2>2. <<"double-free", b>>[2] = b
    OBVIOUS
  <2> QED BY <1>1, <2>1, <2>2
<1> QED BY <1>1, <1>2

-----------------------------------------------------------------------------
(* Parts that a step leaves as they are. *)

(* The list stays what it was when no link of a block that is available was
   touched. *)
LEMMA ListKept ==
    ASSUME ListOK, Available' = Available, UNCHANGED <<head, torn>>,
           \A b \in Available : link'[b] = link[b]
    PROVE  ListOK'
<1>1. PICK S \in SUBSET Available :
         /\ Chain(link, head, S)
         /\ ~ torn => S = Available /\ head # Wild /\ \A b \in S : link[b] # Wild
  BY DEF ListOK
<1>2. Available \subseteq Blocks
  BY DEF Available
<1>3. Chain(link', head, S)
  BY <1>1, <1>2, ChainFrame
<1>4. ~ torn' => S = Available' /\ head' # Wild /\ \A b \in S : link'[b] # Wild
  BY <1>1
<1>5. Chain(link', head', S)
  BY <1>3
<1> QED BY <1>4, <1>5 DEF ListOK

(* What a CAS is about to install stays good when neither the list nor the
   snapshots change. *)
LEMMA RestKept ==
    ASSUME RestOK, ListOK, ThreadsOK, Available' = Available, UNCHANGED <<head, torn>>,
           \A b \in Available : link'[b] = link[b],
           \A u \in Threads : pc'[u] = "cas" /\ fresh'[u] =>
              pc[u] = "cas" /\ fresh[u] /\ val'[u] = val[u]
    PROVE  RestOK'
<1> SUFFICES ASSUME NEW u \in Threads, pc'[u] = "cas", fresh'[u]
             PROVE  /\ \E S \in SUBSET (Available \ {head}) : Chain(link', val[u], S)
                    /\ ~ torn => val[u] = link'[head]
  BY DEF RestOK
<1>1. head \in Available
  BY HeadAvailable DEF ThreadsOK
<1>2. PICK S \in SUBSET (Available \ {head}) : Chain(link, val[u], S)
  BY DEF RestOK
<1>3. S \in SUBSET Blocks /\ \A b \in S : link'[b] = link[b]
  BY DEF Available
<1>4. Chain(link', val[u], S)
  BY <1>2, <1>3, ChainFrame
<1> QED BY <1>1, <1>4 DEF RestOK

(* Under LOCKFREE nobody walks. *)
LEMMA WalkIdle ==
    ASSUME cursor' = NULL
    PROVE  WalkOK'
BY Words DEF WalkOK, Blocks

(* A walk goes on undisturbed when the links of the free slots stay; slots may
   be added. *)
LEMMA WalkKept ==
    ASSUME WalkOK, Available \subseteq Available', UNCHANGED <<cursor, seen, counted, torn, faults>>,
           \A b \in Available : link'[b] = link[b]
    PROVE  WalkOK'
<1>1. ~ torn' => cursor' \in {NULL} \cup Available'
  BY DEF WalkOK
<1>2. ASSUME faults' = 0, cursor' \in Blocks
      PROVE  \E S \in SUBSET (Available' \ seen') :
                /\ ListsExactly(cursor', link', S)
                /\ Cardinality(S) + Cardinality(seen') = counted'
  <2>1. PICK S \in SUBSET (Available \ seen) :
           ListsExactly(cursor, link, S) /\ Cardinality(S) + Cardinality(seen) = counted
    BY <1>2 DEF WalkOK
  <2>2. ListsExactly(cursor, link', S)
    BY <2>1, ListFrame
  <2> QED BY <2>1, <2>2
<1> QED BY <1>1, <1>2 DEF WalkOK, Blocks

(* A step under a lock. *)
LEMMA LockedStep ==
    ASSUME IInv, policy = "locked", UNCHANGED <<policy, threads>>
    PROVE  /\ ThreadsOK' /\ HandsApart' /\ RestOK'
           /\ Available' = Blocks \ held' /\ Listed' = Blocks \ held'
           /\ \A t \in Threads : pc'[t] = "idle"
<1>1. \A t \in Threads : pc'[t] = "idle"
  BY HandsLocked DEF threads
<1>2. InHand' = {} /\ Settling' = {}
  BY <1>1, HandsHere DEF Hands, InHands, Settles
<1> QED BY <1>1, <1>2 DEF ThreadsOK, HandsApart, RestOK, Handling, Available, Listed, Blocks

(* A step of a lock-free call, from one label to another, with a block in hand. *)
LEMMA CallStep ==
    ASSUME HandsApart, NEW t \in Threads,
           \A u \in Threads \ {t} : pc'[u] = pc[u] /\ blk'[u] = blk[u]
    PROVE  /\ ~ Handling(t) /\ pc'[t] \notin InHands => InHand' = InHand
           /\ ~ Handling(t) /\ pc'[t] \in InHands => InHand' = InHand \cup {blk'[t]}
           /\ Handling(t) /\ pc'[t] \in InHands /\ blk'[t] = blk[t] => InHand' = InHand
           /\ Handling(t) /\ pc'[t] \notin InHands => InHand' = InHand \ {blk[t]}
           /\ pc[t] \notin Settles /\ pc'[t] \notin Settles => Settling' = Settling
           /\ pc[t] \notin Settles /\ pc'[t] \in Settles => Settling' = Settling \cup {blk'[t]}
           /\ pc[t] \in Settles /\ pc'[t] \in Settles /\ blk'[t] = blk[t] => Settling' = Settling
           /\ pc[t] \in Settles /\ pc'[t] \notin Settles => Settling' = Settling \ {blk[t]}
<1>1. /\ Handling(t) <=> pc[t] \in InHands
      /\ pc[t] \in Settles => pc[t] \in InHands
  BY DEF Handling, InHands, Settles
<1>2. \A u \in Threads : pc[t] \in InHands /\ pc[u] \in InHands /\ blk[u] = blk[t] => u = t
  BY DEF HandsApart, Handling, InHands
<1>3. \A u \in Threads : pc[t] \in Settles /\ pc[u] \in Settles /\ blk[u] = blk[t] => u = t
  BY <1>2 DEF Settles, InHands
<1>4. /\ ~ Handling(t) /\ pc'[t] \notin InHands => InHand' = InHand
      /\ ~ Handling(t) /\ pc'[t] \in InHands => InHand' = InHand \cup {blk'[t]}
      /\ Handling(t) /\ pc'[t] \in InHands /\ blk'[t] = blk[t] => InHand' = InHand
      /\ Handling(t) /\ pc'[t] \notin InHands => InHand' = InHand \ {blk[t]}
  <2> DEFINE now == Hands(InHands)
             next == Hands(InHands)'
  <2>1. /\ pc[t] \notin InHands /\ pc'[t] \notin InHands => next = now
        /\ pc[t] \notin InHands /\ pc'[t] \in InHands => next = now \cup {blk'[t]}
        /\ pc[t] \in InHands /\ pc'[t] \in InHands /\ blk'[t] = blk[t] => next = now
        /\ pc[t] \in InHands /\ pc'[t] \notin InHands => next = now \ {blk[t]}
    BY <1>2, HandsMoved
  <2> HIDE DEF now, next
  <2>2. InHand = now /\ InHand' = next
    BY HandsHere DEF now, next
  <2> QED BY <1>1, <2>1, <2>2
<1>5. /\ pc[t] \notin Settles /\ pc'[t] \notin Settles => Settling' = Settling
      /\ pc[t] \notin Settles /\ pc'[t] \in Settles => Settling' = Settling \cup {blk'[t]}
      /\ pc[t] \in Settles /\ pc'[t] \in Settles /\ blk'[t] = blk[t] => Settling' = Settling
      /\ pc[t] \in Settles /\ pc'[t] \notin Settles => Settling' = Settling \ {blk[t]}
  <2> DEFINE now == Hands(Settles)
             next == Hands(Settles)'
  <2>1. /\ pc[t] \notin Settles /\ pc'[t] \notin Settles => next = now
        /\ pc[t] \notin Settles /\ pc'[t] \in Settles => next = now \cup {blk'[t]}
        /\ pc[t] \in Settles /\ pc'[t] \in Settles /\ blk'[t] = blk[t] => next = now
        /\ pc[t] \in Settles /\ pc'[t] \notin Settles => next = now \ {blk[t]}
    BY <1>3, HandsMoved
  <2> HIDE DEF now, next
  <2>2. Settling = now /\ Settling' = next
    BY HandsHere DEF now, next
  <2> QED BY <1>1, <2>1, <2>2
<1> QED BY <1>4, <1>5

-----------------------------------------------------------------------------
(* A freshly built pool. *)
LEMMA InitInvariant == Init => IInv
<1> SUFFICES ASSUME Init PROVE IInv
  OBVIOUS
<1>1. \A t \in Threads : pc[t] = "idle" /\ fresh[t] = FALSE
  BY DEF Init
<1>2. InHand = {} /\ Settling = {} /\ Available = Blocks /\ Listed = Blocks
  BY <1>1 DEF Init, InHand, Settling, Available, Listed
<1>3. N \in Nat \ {0} /\ MaxFaults \in Nat
  BY HardenedAssumption
<1>4. /\ ListsExactly(1, link, Blocks)
      /\ \A b \in Blocks : link[b] \in {NULL} \cup Blocks
      /\ link = [b \in Blocks |-> link[b]]
  <2> DEFINE l == [b \in Blocks |-> NULL]
  <2>1. SlotAddresses(1, 1, N) = Blocks
    BY <1>3, SlotInterval DEF Blocks
  <2>2. ListsExactly(1, initialize_free_list(l, 1, 1, N), Blocks)
    <3>1. SlotAddresses(1, 1, N) \subseteq DOMAIN l
      BY <2>1
    <3> HIDE DEF l
    <3> QED BY <1>3, <2>1, <3>1, SeededList
  <2>3. \A b \in Blocks : initialize_free_list(l, 1, 1, N)[b] \in {NULL} \cup Blocks
    BY <1>3 DEF initialize_free_list, Blocks, NULL
  <2>4. initialize_free_list(l, 1, 1, N) = [b \in Blocks |-> initialize_free_list(l, 1, 1, N)[b]]
    BY DEF initialize_free_list
  <2> QED BY <2>2, <2>3, <2>4 DEF Init
<1>5. \A b \in Blocks : link[b] # Wild
  BY <1>4, Words
<1>6. 1 \in Blocks /\ 1 # Wild
  BY Words
<1>7. TypeOK
  <2>1. link \in [Blocks -> {NULL, Wild} \cup Blocks]
    BY <1>4
  <2>2. 0 \in 0 .. N + 1 /\ 0 \in 0 .. MaxFaults
    BY <1>3
  <2> QED BY <1>6, <2>1, <2>2 DEF Init, TypeOK
<1>8. ThreadsOK /\ FaultsOK
  BY <1>1 DEF Init, ThreadsOK, FaultsOK
<1>9. HandsApart /\ GuardsTold /\ DamageOwed
  BY <1>1, <1>2 DEF Init, HandsApart, GuardsTold, DamageOwed, Handling
<1>10. ListOK
  <2>1. Chain(link, 1, Blocks)
    BY <1>4, <1>5, <1>6, PlainChain
  <2> QED BY <1>2, <1>5, <1>6, <2>1 DEF Init, ListOK
<1>11. RestOK /\ AccusedOK /\ WalkOK
  BY <1>1, Words DEF Init, RestOK, AccusedOK, WalkOK
<1> QED BY <1>7, <1>8, <1>9, <1>10, <1>11 DEF IInv, Sound

-----------------------------------------------------------------------------
(* Calls under a lock. *)

(* A pop under a lock: reveal the link, check the block, stamp it, report what
   was found. *)
LEMMA AllocStep == ASSUME IInv, Alloc PROVE IInv'
<1> DEFINE b == head
           told == read_next_reports(b) \cup on_alloc_reports(b)
<1>0. /\ policy = "locked" /\ b \in Blocks /\ report(told)
      /\ head' = link[b] /\ held' = held \cup {b}
      /\ guard' = [guard EXCEPT ![b] = "allocated"]
      /\ cursor' = IF cursor = b THEN NULL ELSE cursor
      /\ seen' = IF cursor = b THEN {} ELSE seen
      /\ UNCHANGED <<policy, handler, link, poison, threads, counted, damage>>
  BY DEF Alloc, Locked, reveal_next, write_guard
<1> HIDE DEF b
<1>b. b = head
  BY DEF b
<1>1. TypeOK /\ ThreadsOK /\ FaultsOK
  BY DEF IInv
<1>2. /\ owed' \subseteq owed /\ accused' \subseteq accused \cup {b} /\ aborted' \in BOOLEAN
      /\ owed' = owed \ told
      /\ link[b] # Wild /\ guard[b] = "freed" /\ poison[b] => accused' = accused
  <2>1. \A r \in told : r[2] = b
    BY Told
  <2>2. link[b] # Wild /\ guard[b] = "freed" /\ poison[b] => told = {}
    BY Told
  <2> HIDE DEF told
  <2> QED BY <1>0, <2>1, <2>2, Owed
<1>3. /\ link[b] = Wild => <<"link", b>> \in told
      /\ guard[b] # "freed" => <<"guard", b>> \in told
      /\ ~ poison[b] => <<"payload", b>> \in told
  BY Told
<1> HIDE DEF told
<1>4. /\ ThreadsOK' /\ HandsApart' /\ RestOK'
      /\ Available' = Blocks \ held' /\ Listed' = Blocks \ held'
      /\ \A t \in Threads : pc'[t] = "idle"
  BY <1>0, LockedStep
<1>5. Available = Blocks \ held /\ Listed = Blocks \ held
  BY <1>0, HandsLocked
<1>6. FaultsOK'
  BY <1>0, <1>1 DEF FaultsOK, damage, threads
<1>7. ASSUME ~ blind
      PROVE  Sound' /\ (~ torn => head' # Wild)
  <2>1. HandsApart /\ GuardsTold /\ DamageOwed /\ ListOK /\ AccusedOK /\ WalkOK
    BY <1>7 DEF IInv, Sound
  <2>2. b \in Available /\ Available' = Available \ {b} /\ Listed' = Listed \ {b}
    BY <1>0, <1>4, <1>5, <2>1, <1>b, HeadAvailable
  <2>3. PICK S \in SUBSET (Available \ {b}) :
           /\ Chain(link, link[b], S)
           /\ ~ torn => /\ S = Available \ {b} /\ link[b] # Wild
                        /\ \A c \in S : link[c] # Wild
    BY <1>0, <2>1, <1>b, HeadAvailable
  <2>4. ListOK' /\ (~ torn => head' # Wild)
    <3>1. Chain(link', head', S)
      BY <1>0, <2>3
    <3> QED BY <1>0, <2>2, <2>3, <3>1 DEF ListOK, damage
  <2>5. GuardsTold'
    BY <1>0, <1>1, <1>4, <2>1, <2>2 DEF GuardsTold, TypeOK, damage
  <2>6. DamageOwed'
    <3> SUFFICES ASSUME NEW o \in owed' \ erased'
                 PROVE  /\ o[1] = "overflow" => o[2] \in held' /\ guard'[o[2]] = "smashed"
                        /\ o[1] = "guard" => o[2] \in Listed' /\ guard'[o[2]] = "smashed"
                        /\ o[1] = "payload" => o[2] \in Listed' /\ ~ poison'[o[2]]
                        /\ o[1] = "link" /\ policy' = "locked" =>
                              o[2] \notin held' /\ link'[o[2]] = Wild
      BY DEF DamageOwed
    <3>1. o \in owed \ erased /\ o[2] \in Blocks /\ o = <<o[1], o[2]>> /\ o \notin told
      BY <1>0, <1>1, <1>2 DEF TypeOK, damage
    <3>2. o[2] # b => guard'[o[2]] = guard[o[2]]
      BY <1>0, <1>1, <3>1 DEF TypeOK
    <3>3. o[1] = "overflow" => o[2] # b
      BY <1>5, <2>1, <2>2, <3>1 DEF DamageOwed
    <3>4. o[1] \in {"guard", "payload", "link"} => o[2] # b
      BY <1>0, <1>2, <1>3, <2>1, <3>1 DEF DamageOwed
    <3> QED BY <1>0, <2>1, <2>2, <3>1, <3>2, <3>3, <3>4 DEF DamageOwed
  <2>7. AccusedOK'
    BY <1>0, <1>2, <1>5, <2>1, <2>2, <2>3 DEF AccusedOK, GuardsTold, damage
  <2>8. WalkOK'
    <3>1. ~ torn => cursor' \in {NULL} \cup Available'
      BY <1>0, <2>1, <2>2 DEF WalkOK
    <3>2. ASSUME faults = 0, cursor' \in Blocks
          PROVE  \E R \in SUBSET (Available' \ seen') :
                    ListsExactly(cursor', link', R) /\ Cardinality(R) + Cardinality(seen') = counted'
      <4>1. cursor # b /\ cursor' = cursor /\ seen' = seen
        BY <1>0, <3>2, Words
      <4>2. PICK R \in SUBSET (Available \ seen) :
               ListsExactly(cursor, link, R) /\ Cardinality(R) + Cardinality(seen) = counted
        BY <2>1, <3>2, <4>1 DEF WalkOK
      <4>3. /\ ListsExactly(b, link, Available) /\ IsFiniteSet(Available) /\ NULL \notin Available
            /\ R \in SUBSET Available
        BY <1>1, <2>1, <3>2, <1>b, ListPlain DEF FaultsOK
      <4>4. b \notin R
        BY <4>1, <4>2, <4>3, ListWithin
      <4> QED BY <1>0, <2>2, <4>1, <4>2, <4>4
    <3> QED BY <1>0, <3>1, <3>2 DEF WalkOK, damage, Blocks
  <2> QED BY <1>4, <2>4, <2>5, <2>6, <2>7, <2>8 DEF Sound
<1>8. TypeOK'
  <2>1. head' \in {NULL} \cup Blocks \cup (IF torn \/ blind THEN {Wild} ELSE {})
    BY <1>0, <1>1, <1>7 DEF TypeOK
  <2>2. accused' \subseteq Blocks /\ owed' \subseteq {"overflow", "guard", "payload", "link"} \X Blocks
    BY <1>0, <1>1, <1>2 DEF TypeOK
  <2>3. guard' \in [Blocks -> {"freed", "allocated", "smashed"}] /\ held' \subseteq Blocks
    BY <1>0, <1>1 DEF TypeOK
  <2>4. cursor' \in {NULL, Wild} \cup Blocks /\ seen' \subseteq Blocks
    BY <1>0, <1>1 DEF TypeOK
  <2> QED BY <1>0, <1>1, <1>2, <2>1, <2>2, <2>3, <2>4 DEF TypeOK, threads, damage, Blocks
<1>9. blind' = blind
  BY <1>0 DEF damage
<1> QED BY <1>4, <1>6, <1>7, <1>8, <1>9 DEF IInv

(* What push_head changes, and leaves well typed. *)
LEMMA PushTyped ==
    ASSUME TypeOK, policy = "locked", NEW b \in Blocks, Push(b)
    PROVE  /\ guard' = [guard EXCEPT ![b] = "freed"] /\ poison' = [poison EXCEPT ![b] = TRUE]
           /\ guard[b] # "freed" => link' = [link EXCEPT ![b] = head] /\ head' = b
           /\ guard[b] = "freed" => UNCHANGED <<link, head>>
           /\ held' = held \ {b}
           /\ UNCHANGED <<policy, handler, threads, walk, torn>>
           /\ owed' \subseteq owed /\ accused' \subseteq accused \cup {b}
           /\ guard[b] = "allocated" => accused' = accused
           /\ \A o \in owed' \ erased' :
                 /\ o \in owed \ erased
                 /\ o[2] = b => /\ guard[b] = "smashed" => o[1] # "overflow"
                                /\ guard[b] = "freed" => o[1] # "payload"
           /\ guilty' \subseteq Blocks /\ faults' \in 0 .. MaxFaults /\ blind' \in BOOLEAN
                 /\ (blind => blind') => TypeOK'
<1> DEFINE told == on_free_reports(b)
<1>1. /\ report(told)
      /\ guard' = [guard EXCEPT ![b] = "freed"] /\ poison' = [poison EXCEPT ![b] = TRUE]
      /\ guard[b] # "freed" => link' = [link EXCEPT ![b] = head] /\ head' = b /\ erased' = erased
      /\ guard[b] = "freed" => UNCHANGED <<link, head>> /\ erased' = erased \cup Traces(b)
      /\ held' = held \ {b}
      /\ UNCHANGED <<policy, handler, threads, walk, torn>>
  BY DEF Push, Stamp, write_guard, poison_payload, write_next, on_free_accepts, read_guard
<1>2. \A r \in told : r[2] = b
  BY Told
<1>3. /\ guard[b] = "freed" => told = {<<"double-free", b>>}
      /\ guard[b] = "allocated" => told = {}
      /\ guard[b] = "smashed" => told = {<<"overflow", b>>}
  BY Told
<1> HIDE DEF told
<1>4. /\ owed' \subseteq owed /\ accused' \subseteq accused \cup {b} /\ aborted' \in BOOLEAN
      /\ guard[b] = "allocated" => accused' = accused
      /\ owed' = owed \ told
  BY <1>1, <1>2, <1>3, Owed
<1>8. /\ erased \subseteq erased' /\ erased' \subseteq {"guard", "payload"} \X Blocks
      /\ guard[b] = "freed" => \A o \in owed : o = <<"payload", b>> => o \in erased'
  <2>1. Traces(b) = owed \cap {<<"payload", b>>, <<"guard", b>>}
    BY DEF Traces
  <2>2. Traces(b) \subseteq {"guard", "payload"} \X Blocks
    BY <2>1
  <2>3. erased \subseteq {"guard", "payload"} \X Blocks
    BY DEF TypeOK
  <2> QED BY <1>1, <2>1, <2>2, <2>3
<1>9. \A o \in owed' \ erased' :
         /\ o \in owed \ erased
         /\ o[2] = b => /\ guard[b] = "smashed" => o[1] # "overflow"
                        /\ guard[b] = "freed" => o[1] # "payload"
  <2> SUFFICES ASSUME NEW o \in owed' \ erased'
               PROVE  /\ o \in owed \ erased
                      /\ o[2] = b => /\ guard[b] = "smashed" => o[1] # "overflow"
                                     /\ guard[b] = "freed" => o[1] # "payload"
    OBVIOUS
  <2>1. o \in owed \ erased /\ o \notin told /\ o = <<o[1], o[2]>>
    BY <1>4, <1>8 DEF TypeOK
  <2>2. guard[b] = "smashed" => o # <<"overflow", b>>
    BY <1>3, <2>1
  <2>3. guard[b] = "freed" => o # <<"payload", b>>
    BY <1>8, <2>1
  <2> QED BY <2>1, <2>2, <2>3
<1>5. /\ guard' \in [Blocks -> {"freed", "allocated", "smashed"}]
      /\ poison' \in [Blocks -> BOOLEAN] /\ held' \subseteq Blocks
  BY <1>1 DEF TypeOK
<1>6. /\ link' \in [Blocks -> {NULL, Wild} \cup Blocks]
      /\ head' \in {NULL} \cup Blocks \cup (IF torn \/ blind THEN {Wild} ELSE {})
  <2>1. CASE guard[b] = "freed"
    BY <1>1, <2>1 DEF TypeOK
  <2>2. CASE guard[b] # "freed"
    BY <1>1, <2>2 DEF TypeOK
  <2> QED BY <2>1, <2>2
<1>7. ASSUME guilty' \subseteq Blocks, faults' \in 0 .. MaxFaults, blind' \in BOOLEAN, blind => blind'
      PROVE  TypeOK'
  <2>1. head' \in {NULL} \cup Blocks \cup (IF torn' \/ blind' THEN {Wild} ELSE {})
    BY <1>1, <1>6, <1>7
  <2>2. accused' \subseteq Blocks /\ owed' \subseteq {"overflow", "guard", "payload", "link"} \X Blocks
    BY <1>4 DEF TypeOK
  <2> QED BY <1>1, <1>4, <1>5, <1>6, <1>7, <1>8, <2>1, <2>2 DEF TypeOK, threads, walk, Blocks
<1> QED BY <1>1, <1>4, <1>7, <1>9

(* A push under a lock, of a block that is owned or of one returned before. *)
LEMMA FreeStep == ASSUME IInv, NEW b \in Blocks, Free(b) PROVE IInv'
<1>0. /\ policy = "locked" /\ b \in held /\ Push(b) /\ UNCHANGED <<guilty, blind, faults>>
  BY DEF Free, Locked
<1>1. TypeOK /\ ThreadsOK /\ FaultsOK
  BY DEF IInv
<1>2. /\ guard' = [guard EXCEPT ![b] = "freed"] /\ poison' = [poison EXCEPT ![b] = TRUE]
      /\ guard[b] # "freed" => link' = [link EXCEPT ![b] = head] /\ head' = b
      /\ held' = held \ {b}
      /\ UNCHANGED <<policy, threads, walk, torn>>
      /\ owed' \subseteq owed /\ accused' \subseteq accused \cup {b}
      /\ guard[b] = "allocated" => accused' = accused
      /\ \A o \in owed' \ erased' :
            o \in owed \ erased /\ (o[2] = b /\ guard[b] = "smashed" => o[1] # "overflow")
      /\ TypeOK'
  BY <1>0, <1>1, PushTyped DEF TypeOK
<1>3. /\ ThreadsOK' /\ HandsApart' /\ RestOK'
      /\ Available' = Blocks \ held' /\ Listed' = Blocks \ held'
      /\ \A t \in Threads : pc'[t] = "idle"
  BY <1>0, <1>2, LockedStep
<1>4. Available = Blocks \ held /\ Listed = Blocks \ held
  BY <1>0, HandsLocked
<1>5. FaultsOK'
  BY <1>0, <1>1, <1>2 DEF FaultsOK, threads
<1>6. ASSUME ~ blind
      PROVE  Sound'
  <2>1. HandsApart /\ GuardsTold /\ DamageOwed /\ ListOK /\ AccusedOK /\ WalkOK
    BY <1>6 DEF IInv, Sound
  <2>2. guard[b] \in {"allocated", "smashed"} /\ (guard[b] = "smashed" => b \in guilty)
    BY <1>0, <2>1 DEF GuardsTold
  <2>3. /\ Available' = Available \cup {b} /\ Listed' = Listed \cup {b}
        /\ b \notin Available /\ b \notin Listed /\ Available \subseteq Blocks
    BY <1>0, <1>2, <1>3, <1>4
  <2>4. /\ link'[b] = head /\ head' = b
        /\ \A c \in Blocks \ {b} : link'[c] = link[c] /\ guard'[c] = guard[c] /\ poison'[c] = poison[c]
        /\ guard'[b] = "freed" /\ poison'[b]
    BY <1>1, <1>2, <2>2 DEF TypeOK
  <2>5. ListOK'
    <3>1. PICK S \in SUBSET Available :
             /\ Chain(link, head, S)
             /\ ~ torn => S = Available /\ head # Wild /\ \A c \in S : link[c] # Wild
      BY <2>1 DEF ListOK
    <3>2. S \in SUBSET Blocks /\ b \in Blocks \ S /\ \A c \in S : link'[c] = link[c]
      BY <2>3, <2>4
    <3>3. Chain(link', head, S)
      BY <3>1, <3>2, ChainFrame
    <3>4. Chain(link', b, S \cup {b})
      BY <2>4, <3>2, <3>3, ChainPush
    <3>5. b # Wild
      BY Words
    <3>6. Chain(link', head', S \cup {b})
      BY <2>4, <3>4
    <3> QED BY <1>2, <2>3, <2>4, <3>1, <3>2, <3>5, <3>6 DEF ListOK
  <2>6. GuardsTold'
    BY <1>0, <1>1, <1>2, <1>3, <2>1, <2>3, <2>4 DEF GuardsTold, TypeOK, Listed
  <2>7. DamageOwed'
    <3> SUFFICES ASSUME NEW o \in owed' \ erased'
                 PROVE  /\ o[1] = "overflow" => o[2] \in held' /\ guard'[o[2]] = "smashed"
                        /\ o[1] = "guard" => o[2] \in Listed' /\ guard'[o[2]] = "smashed"
                        /\ o[1] = "payload" => o[2] \in Listed' /\ ~ poison'[o[2]]
                        /\ o[1] = "link" /\ policy' = "locked" =>
                              o[2] \notin held' /\ link'[o[2]] = Wild
      BY DEF DamageOwed
    <3>1. o \in owed \ erased /\ o[2] \in Blocks
      BY <1>1, <1>2 DEF TypeOK
    <3>2. o[1] = "overflow" => o[2] # b
      BY <1>2, <2>1, <3>1 DEF DamageOwed
    <3>3. o[1] \in {"guard", "payload"} => o[2] # b
      BY <2>1, <2>3, <3>1 DEF DamageOwed
    <3>4. o[1] = "link" => o[2] # b
      BY <1>0, <2>1, <3>1 DEF DamageOwed
    <3> QED BY <1>0, <1>2, <2>1, <2>3, <2>4, <3>1, <3>2, <3>3, <3>4 DEF DamageOwed
  <2>8. AccusedOK'
    BY <1>0, <1>2, <2>1, <2>2 DEF AccusedOK
  <2>9. WalkOK'
    <3>1. \A c \in Available : link'[c] = link[c]
      BY <2>3, <2>4
    <3> QED BY <1>0, <1>2, <2>1, <2>3, <3>1, WalkKept DEF walk
  <2> QED BY <1>3, <2>5, <2>6, <2>7, <2>8, <2>9 DEF Sound
<1> QED BY <1>0, <1>2, <1>3, <1>5, <1>6 DEF IInv

(* A second free under a lock: it is refused, or else nothing more is claimed. *)
LEMMA DoubleFreeLockedStep ==
    ASSUME IInv, NEW b \in Blocks, Misuse(b), b \notin held, policy = "locked", Push(b),
           blind' = (blind \/ on_free_accepts(b))
    PROVE  IInv'
<1>1. TypeOK /\ ThreadsOK /\ FaultsOK
  BY DEF IInv
<1>2. /\ faults' \in 0 .. MaxFaults /\ faults' # 0 /\ guilty' = guilty \cup {b}
      /\ guilty' \subseteq Blocks /\ blind' \in BOOLEAN /\ (blind => blind')
      /\ ~ blind' => ~ blind /\ guard[b] = "freed"
  <2>1. faults' \in 0 .. MaxFaults /\ faults' # 0 /\ guilty' = guilty \cup {b} /\ guilty' \subseteq Blocks
    BY <1>1, HardenedAssumption DEF Misuse, TypeOK
  <2>2. blind \in BOOLEAN
    BY <1>1 DEF TypeOK
  <2>3. blind' = (blind \/ guard[b] # "freed")
    BY DEF on_free_accepts, read_guard
  <2> QED BY <2>1, <2>2, <2>3
<1>3. /\ guard' = [guard EXCEPT ![b] = "freed"] /\ poison' = [poison EXCEPT ![b] = TRUE]
      /\ guard[b] = "freed" => UNCHANGED <<link, head>>
      /\ held' = held
      /\ UNCHANGED <<policy, threads, walk, torn>>
      /\ owed' \subseteq owed /\ accused' \subseteq accused \cup {b}
      /\ \A o \in owed' \ erased' :
            o \in owed \ erased /\ (o[2] = b /\ guard[b] = "freed" => o[1] # "payload")
      /\ TypeOK'
  <2>1. held \ {b} = held
    OBVIOUS
  <2> QED BY <1>1, <1>2, <2>1, PushTyped
<1>4. /\ ThreadsOK' /\ HandsApart' /\ RestOK'
      /\ Available' = Blocks \ held' /\ Listed' = Blocks \ held'
      /\ \A t \in Threads : pc'[t] = "idle"
  BY <1>3, LockedStep
<1>5. Available = Blocks \ held /\ Listed = Blocks \ held
  BY HandsLocked
<1>6. FaultsOK'
  BY <1>2 DEF FaultsOK
<1>7. ASSUME ~ blind'
      PROVE  Sound'
  <2>1. HandsApart /\ GuardsTold /\ DamageOwed /\ ListOK /\ AccusedOK /\ WalkOK
    BY <1>2, <1>7 DEF IInv, Sound
  <2>2. Available' = Available /\ Listed' = Listed /\ UNCHANGED <<link, head>> /\ guard[b] = "freed"
    BY <1>2, <1>3, <1>4, <1>5, <1>7
  <2>3. /\ \A c \in Blocks \ {b} : guard'[c] = guard[c] /\ poison'[c] = poison[c]
        /\ guard'[b] = "freed" /\ poison'[b]
    BY <1>1, <1>3 DEF TypeOK
  <2>4. ListOK'
    BY <1>3, <2>1, <2>2, ListKept
  <2>5. GuardsTold'
    BY <1>1, <1>2, <1>3, <1>4, <2>1, <2>2, <2>3 DEF GuardsTold, TypeOK, Listed
  <2>6. DamageOwed'
    <3> SUFFICES ASSUME NEW o \in owed' \ erased'
                 PROVE  /\ o[1] = "overflow" => o[2] \in held' /\ guard'[o[2]] = "smashed"
                        /\ o[1] = "guard" => o[2] \in Listed' /\ guard'[o[2]] = "smashed"
                        /\ o[1] = "payload" => o[2] \in Listed' /\ ~ poison'[o[2]]
                        /\ o[1] = "link" /\ policy' = "locked" =>
                              o[2] \notin held' /\ link'[o[2]] = Wild
      BY DEF DamageOwed
    <3>1. o \in owed \ erased /\ o[2] \in Blocks
      BY <1>1, <1>3 DEF TypeOK
    <3>2. o[1] \in {"overflow", "guard", "payload"} => o[2] # b
      BY <1>3, <2>1, <2>2, <3>1 DEF DamageOwed
    <3> QED BY <1>3, <2>1, <2>2, <2>3, <3>1, <3>2 DEF DamageOwed
  <2>7. AccusedOK'
    BY <1>2, <1>3, <2>1 DEF AccusedOK
  <2>8. WalkOK'
    <3>1. ~ torn' => cursor' \in {NULL} \cup Available'
      BY <1>3, <2>1, <2>2 DEF WalkOK, walk
    <3> QED BY <1>2, <3>1 DEF WalkOK
  <2> QED BY <1>4, <2>4, <2>5, <2>6, <2>7, <2>8 DEF Sound
<1> QED BY <1>3, <1>4, <1>6, <1>7 DEF IInv

-----------------------------------------------------------------------------
(* The diagnostic walk. *)

(* memory_pool_debug_free_count counts an undamaged list: what it meets at its
   i-th step is the i-th element. *)
LEMMA CountExact ==
    ASSUME ListsExactly(head, link, Available)
    PROVE  memory_pool_debug_free_count = Cardinality(Available) /\ Cardinality(Available) \in 0 .. N
<1> DEFINE n == Cardinality(Available)
           Step(i, word) == IF i = 0 THEN head ELSE IF word \in Blocks THEN link[word] ELSE NULL
<1>1. n \in 0 .. N
  <2>1. Available \subseteq Blocks
    BY DEF Available
  <2>2. n \in Nat /\ n <= N
    BY <2>1, Words, FS_Subset, FS_CardinalityType
  <2> QED BY <2>2, HardenedAssumption
<1> HIDE DEF n
<1>2. PICK s \in [1 .. n -> Available] : IsChain(head, link, n, s)
  BY DEF ListsExactly, n
<1> DEFINE met == [i \in 0 .. N |-> IF i < n THEN s[i + 1] ELSE NULL]
<1>3. \A i \in 0 .. N : i # 0 => i - 1 \in 0 .. N
  BY HardenedAssumption
<1>4. \A i \in 0 .. N : met[i] = Step(i, met[i - 1])
  <2> SUFFICES ASSUME NEW i \in 0 .. N
               PROVE  met[i] = Step(i, met[i - 1])
    OBVIOUS
  <2>0. N \in Nat /\ n \in Nat
    BY <1>1, HardenedAssumption
  <2>1. CASE i = 0
    BY <1>2, <2>0, <2>1 DEF IsChain
  <2>2. CASE i # 0 /\ i <= n
    <3>1. i \in 1 .. n /\ met[i - 1] = s[i]
      BY <1>3, <2>0, <2>2
    <3>2. s[i] \in Blocks
      BY <1>2, <3>1 DEF Available
    <3>3. link[s[i]] = IF i = n THEN NULL ELSE s[i + 1]
      BY <1>2, <3>1 DEF IsChain
    <3>4. met[i] = IF i = n THEN NULL ELSE s[i + 1]
      BY <2>0, <2>2
    <3> QED BY <2>2, <3>1, <3>2, <3>3, <3>4
  <2>3. CASE i # 0 /\ i > n
    <3>1. met[i - 1] = NULL /\ met[i] = NULL
      BY <1>3, <2>0, <2>3
    <3> QED BY <2>3, <3>1, Words
  <2> QED BY <2>0, <2>1, <2>2, <2>3
<1> DEFINE slot == CHOOSE slot : slot = [i \in 0 .. N |-> Step(i, slot[i - 1])]
<1>5. slot = [i \in 0 .. N |-> Step(i, slot[i - 1])]
  <2>1. met = [i \in 0 .. N |-> Step(i, met[i - 1])]
    <3> DEFINE r == [i \in 0 .. N |-> Step(i, met[i - 1])]
    <3>1. DOMAIN met = 0 .. N /\ met = [i \in 0 .. N |-> met[i]]
      OBVIOUS
    <3> HIDE DEF met
    <3> QED BY <1>4, <3>1
  <2> HIDE DEF met, Step
  <2> QED BY <2>1
<1> HIDE DEF slot, met
<1>6. \A i \in 0 .. N : slot[i] = Step(i, slot[i - 1])
  BY <1>5
<1>7. \A i \in 0 .. N : slot[i] = met[i]
  <2> DEFINE T == {i \in Nat : i \in 0 .. N => slot[i] = met[i]}
  <2>1. 0 \in T
    BY <1>4, <1>6
  <2>2. ASSUME NEW i \in Nat, i \in T
        PROVE  i + 1 \in T
    <3>1. i + 1 \in 0 .. N => i \in 0 .. N /\ (i + 1) - 1 = i
      BY HardenedAssumption
    <3> QED BY <1>4, <1>6, <2>2, <3>1
  <2> HIDE DEF T
  <2>3. Nat \subseteq T
    BY <2>1, <2>2, NatSetInduction
  <2> QED BY <2>3 DEF T
<1>8. \A i \in 0 .. N : met[i] # NULL <=> i < n
  <2>1. \A i \in 0 .. N : i < n => s[i + 1] \in Blocks
    BY <1>1, <1>2 DEF Available
  <2> QED BY <2>1, Words DEF met
<1>9. {i \in 0 .. N : slot[i] # NULL} = 0 .. (n - 1)
  BY <1>1, <1>7, <1>8, HardenedAssumption
<1>10. Cardinality(0 .. (n - 1)) = n
  BY <1>1, FS_Interval
<1>11. memory_pool_debug_free_count = Cardinality({i \in 0 .. N : slot[i] # NULL})
  BY DEF memory_pool_debug_free_count, memory_pool_debug_free_list_head, slot
<1> QED BY <1>1, <1>9, <1>10, <1>11 DEF n

(* The walk begins at the head with nothing seen. *)
LEMMA WalkBeginStep == ASSUME IInv, WalkBegin PROVE IInv'
<1>0. /\ policy = "locked" /\ faults = 0 /\ cursor' = head /\ seen' = {}
      /\ counted' = memory_pool_debug_free_count
      /\ UNCHANGED <<policy, handler, aborted, head, slots, held, threads, accused, owed, damage>>
  BY DEF WalkBegin, Locked, memory_pool_debug_free_list_head
<1>1. TypeOK /\ ThreadsOK /\ FaultsOK /\ ~ blind /\ ~ torn /\ Sound
  BY <1>0 DEF IInv, FaultsOK
<1>2. ThreadsOK' /\ HandsApart' /\ RestOK' /\ Available' = Available /\ Listed' = Listed
  BY <1>0, LockedStep, HandsLocked
<1>3. /\ ListsExactly(head, link, Available) /\ Available \subseteq Blocks
      /\ head \in {NULL} \cup Available
  <2>1. ListOK
    BY <1>1 DEF Sound
  <2>2. head \in {NULL} \cup Blocks
    BY <1>1, HeadTyped
  <2> QED BY <1>1, <2>1, <2>2, ListPlain, HeadAvailable DEF Available
<1>4. counted' = Cardinality(Available) /\ counted' \in 0 .. N
  BY <1>0, <1>3, CountExact
<1>5. counted' \in 0 .. N + 1
  BY <1>4, HardenedAssumption
<1>6. TypeOK' /\ FaultsOK'
  BY <1>0, <1>1, <1>3, <1>5 DEF TypeOK, FaultsOK, slots, threads, damage, Blocks
<1>7. WalkOK'
  <2>1. Cardinality({}) = 0
    BY FS_EmptySet
  <2>2. ListsExactly(cursor', link', Available) /\ Available \in SUBSET (Available' \ seen')
    BY <1>0, <1>2, <1>3 DEF slots
  <2>3. Cardinality(Available) + Cardinality(seen') = counted'
    BY <1>0, <1>4, <2>1
  <2> QED BY <1>0, <1>2, <1>3, <2>2, <2>3 DEF WalkOK
<1>8. ListOK'
  BY <1>0, <1>1, <1>2, ListKept DEF Sound, slots, damage
<1>9. GuardsTold' /\ DamageOwed' /\ AccusedOK'
  BY <1>0, <1>1, <1>2 DEF Sound, GuardsTold, DamageOwed, AccusedOK, slots, threads, damage
<1> QED BY <1>2, <1>6, <1>7, <1>8, <1>9 DEF IInv, Sound

(* The walk follows one link: what was ahead is now seen. *)
LEMMA WalkNextStep == ASSUME IInv, WalkNext PROVE IInv'
<1> DEFINE told == read_next_reports(cursor)
<1>0. /\ policy = "locked" /\ cursor \in Blocks /\ report(told)
      /\ seen' = seen \cup {cursor} /\ cursor' = link[cursor]
      /\ UNCHANGED <<policy, handler, head, slots, held, threads, counted, damage>>
  BY DEF WalkNext, Locked, memory_pool_debug_free_list_next, reveal_next
<1>1. TypeOK /\ ThreadsOK /\ FaultsOK
  BY DEF IInv
<1>2. (\A r \in told : r[2] = cursor) /\ (link[cursor] # Wild => told = {})
  BY Told
<1> HIDE DEF told
<1>3. /\ owed' \subseteq owed /\ accused' \subseteq accused \cup {cursor} /\ aborted' \in BOOLEAN
      /\ link[cursor] # Wild => accused' = accused
  BY <1>0, <1>2, Owed
<1>4. ThreadsOK' /\ HandsApart' /\ RestOK' /\ Available' = Available /\ Listed' = Listed
  BY <1>0, LockedStep, HandsLocked
<1>5. TypeOK' /\ FaultsOK'
  <2>1. accused' \subseteq Blocks /\ owed' \subseteq {"overflow", "guard", "payload", "link"} \X Blocks
    BY <1>0, <1>1, <1>3 DEF TypeOK
  <2>2. cursor' \in {NULL, Wild} \cup Blocks /\ seen' \subseteq Blocks
    BY <1>0, <1>1 DEF TypeOK
  <2> QED BY <1>0, <1>1, <1>3, <2>1, <2>2 DEF TypeOK, FaultsOK, slots, threads, damage, Blocks
<1>6. ASSUME ~ blind
      PROVE  Sound'
  <2>1. GuardsTold /\ DamageOwed /\ ListOK /\ AccusedOK /\ WalkOK
    BY <1>6 DEF IInv, Sound
  <2>2. ListOK'
    BY <1>0, <1>4, <2>1, ListKept DEF slots, damage
  <2>3. GuardsTold' /\ DamageOwed'
    BY <1>0, <1>3, <1>4, <2>1 DEF GuardsTold, DamageOwed, slots, threads, damage
  <2>4. ~ torn => cursor \in Available /\ link[cursor] \in {NULL} \cup Available
    BY <1>0, <2>1, ListPlain, Words DEF WalkOK
  <2>5. Wild \notin {NULL} \cup Available
    BY Words DEF Available
  <2>6. AccusedOK'
    BY <1>0, <1>3, <2>1, <2>4, <2>5 DEF AccusedOK, damage
  <2>7. ASSUME faults = 0, cursor' \in Blocks
        PROVE  \E S \in SUBSET (Available' \ seen') :
                  ListsExactly(cursor', link', S) /\ Cardinality(S) + Cardinality(seen') = counted'
    <3>1. PICK S \in SUBSET (Available \ seen) :
             ListsExactly(cursor, link, S) /\ Cardinality(S) + Cardinality(seen) = counted
      BY <1>0, <2>1, <2>7 DEF WalkOK
    <3>2. IsFiniteSet(S) /\ IsFiniteSet(seen) /\ NULL \notin S /\ cursor # NULL
      BY <1>0, <1>1, Words, FS_Subset DEF Available, TypeOK
    <3>3. cursor \in S /\ ListsExactly(link[cursor], link, S \ {cursor})
      BY <3>1, <3>2, ListHead, ListPop
    <3>4. cursor \notin seen
      BY <3>1, <3>3
    <3>5. /\ Cardinality(S) \in Nat /\ Cardinality(seen) \in Nat
          /\ Cardinality(S \ {cursor}) = Cardinality(S) - 1
          /\ Cardinality(seen \cup {cursor}) = Cardinality(seen) + 1
      BY <3>2, <3>3, <3>4, FS_RemoveElement, FS_AddElement, FS_CardinalityType
    <3>6. Cardinality(S \ {cursor}) + Cardinality(seen') = counted'
      BY <1>0, <3>1, <3>5
    <3>7. S \ {cursor} \in SUBSET (Available' \ seen')
      BY <1>0, <1>4, <3>1
    <3>8. ListsExactly(cursor', link', S \ {cursor})
      BY <1>0, <3>3 DEF slots
    <3> QED BY <3>6, <3>7, <3>8
  <2>8. WalkOK'
    BY <1>0, <1>4, <2>4, <2>7 DEF WalkOK, damage, Blocks
  <2> QED BY <1>4, <2>2, <2>3, <2>6, <2>8 DEF Sound
<1> QED BY <1>0, <1>4, <1>5, <1>6 DEF IInv, damage

-----------------------------------------------------------------------------
(* The clients. *)

(* Whose hands a block is in depends on the threads only. *)
LEMMA HandsStay ==
    ASSUME UNCHANGED threads
    PROVE  InHand' = InHand /\ Settling' = Settling
BY DEF threads, InHand, Settling

(* Another handler changes nothing about the blocks. *)
LEMMA SetHandlerStep ==
    ASSUME IInv, UNCHANGED <<policy, aborted, head, slots, held, threads, walk, accused, owed, damage>>,
           handler' \in {"abort", "record"}
    PROVE  IInv'
<1>1. Available' = Available /\ Listed' = Listed
  BY HandsStay DEF Available, Listed, Blocks
<1>2. TypeOK' /\ ThreadsOK' /\ FaultsOK'
  BY DEF IInv, TypeOK, ThreadsOK, FaultsOK, slots, threads, walk, damage, Blocks
<1>3. ASSUME Sound PROVE Sound'
  <2>1. HandsApart' /\ GuardsTold' /\ DamageOwed' /\ AccusedOK'
    BY <1>1, <1>3 DEF Sound, HandsApart, Handling, GuardsTold, DamageOwed, AccusedOK, slots, threads, damage
  <2>2. ListOK'
    BY <1>1, <1>3, ListKept DEF Sound, slots, damage
  <2>3. RestOK'
    BY <1>1, <1>3 DEF Sound, RestOK, slots, threads, damage
  <2>4. WalkOK'
    BY <1>1, <1>3, WalkKept DEF Sound, slots, walk, damage
  <2> QED BY <2>1, <2>2, <2>3, <2>4 DEF Sound
<1> QED BY <1>2, <1>3 DEF IInv, damage

(* A client fills its block and keeps within it. *)
LEMMA ClientWriteStep == ASSUME IInv, NEW b \in Blocks, ClientWrite(b) PROVE IInv'
<1>0. /\ b \in held /\ link' = [link EXCEPT ![b] = Wild] /\ poison' = [poison EXCEPT ![b] = FALSE]
      /\ UNCHANGED <<policy, handler, aborted, head, guard, held, threads, walk, accused, owed, damage>>
  BY DEF ClientWrite
<1>1. TypeOK /\ ThreadsOK /\ FaultsOK
  BY DEF IInv
<1>2. /\ Available' = Available /\ Listed' = Listed
      /\ b \notin Available /\ b \notin Listed /\ Available \subseteq Blocks
  BY <1>0, HandsStay DEF Available, Listed, Blocks
<1>3. \A c \in Blocks \ {b} : link'[c] = link[c] /\ poison'[c] = poison[c]
  BY <1>0, <1>1 DEF TypeOK
<1>4. TypeOK'
  <2>1. link' \in [Blocks -> {NULL, Wild} \cup Blocks] /\ poison' \in [Blocks -> BOOLEAN]
    BY <1>0, <1>1 DEF TypeOK
  <2> QED BY <1>0, <1>1, <2>1 DEF TypeOK, threads, walk, damage, Blocks
<1>5. ThreadsOK' /\ FaultsOK'
  BY <1>0, <1>1 DEF ThreadsOK, FaultsOK, threads, walk, damage, Blocks
<1>6. ASSUME ~ blind
      PROVE  Sound'
  <2>1. HandsApart /\ GuardsTold /\ DamageOwed /\ ListOK /\ RestOK /\ AccusedOK /\ WalkOK
    BY <1>6 DEF IInv, Sound
  <2>2. HandsApart' /\ AccusedOK'
    BY <1>0, <2>1 DEF HandsApart, Handling, AccusedOK, threads, damage
  <2>3. GuardsTold'
    <3>1. ASSUME NEW t \in Threads, pc[t] = "push"
          PROVE  blk[t] \in Blocks \ {b}
      BY <1>0, <1>1, <2>1, <3>1 DEF ThreadsOK, HandsApart, Handling
    <3> QED BY <1>0, <1>2, <1>3, <2>1, <3>1 DEF GuardsTold, threads, damage, Listed
  <2>4. DamageOwed'
    <3>1. \A o \in owed : o[2] \in Blocks
      BY <1>1 DEF TypeOK
    <3> QED BY <1>0, <1>2, <1>3, <2>1, <3>1 DEF DamageOwed, damage
  <2>5. \A c \in Available : link'[c] = link[c]
    BY <1>2, <1>3
  <2>6. ListOK'
    BY <1>0, <1>2, <2>1, <2>5, ListKept DEF damage
  <2>7. RestOK'
    BY <1>0, <1>1, <1>2, <2>1, <2>5, RestKept DEF threads, damage
  <2>8. WalkOK'
    BY <1>0, <1>2, <2>1, <2>5, WalkKept DEF walk, damage
  <2> QED BY <2>2, <2>3, <2>4, <2>6, <2>7, <2>8 DEF Sound
<1> QED BY <1>0, <1>4, <1>5, <1>6 DEF IInv, damage

(* A client breaks the contract: it smashes a guard, a payload or a link. *)
LEMMA WildWriteStep ==
    ASSUME IInv, NEW b \in Blocks, NEW where \in {"overflow", "guard", "payload", "link"},
           WildWrite(b, where)
    PROVE  IInv'
<1>0. /\ Misuse(b)
      /\ b \in (IF where = "overflow" THEN held ELSE Available)
      /\ where = "link" => link' = [link EXCEPT ![b] = Wild] /\ UNCHANGED <<guard, poison>>
      /\ where = "payload" => poison' = [poison EXCEPT ![b] = FALSE] /\ UNCHANGED <<link, guard>>
      /\ where \in {"overflow", "guard"} =>
            guard' = [guard EXCEPT ![b] = "smashed"] /\ UNCHANGED <<link, poison>>
      /\ owed' = owed \cup {<<where, b>>} /\ erased' = erased \ {<<where, b>>}
      /\ torn' = (torn \/ where = "link")
      /\ UNCHANGED <<policy, handler, aborted, head, held, threads, walk, accused, blind>>
  BY DEF WildWrite
<1>1. TypeOK /\ ThreadsOK /\ FaultsOK
  BY DEF IInv
<1>2. /\ faults' \in 0 .. MaxFaults /\ faults' # 0 /\ guilty' = guilty \cup {b}
  BY <1>0, <1>1, HardenedAssumption DEF Misuse, TypeOK
<1>3. /\ torn' \in BOOLEAN /\ (torn => torn')
      /\ ~ torn' => ~ torn /\ where # "link" /\ UNCHANGED link
  <2>1. torn \in BOOLEAN
    BY <1>1 DEF TypeOK
  <2> QED BY <1>0, <2>1
<1>4. Available' = Available /\ Listed' = Listed /\ Available \subseteq Listed /\ Listed \subseteq Blocks
  BY <1>0, HandsStay, AvailableListed DEF Available, Listed, Blocks
<1>5. /\ \A c \in Blocks \ {b} : link'[c] = link[c] /\ guard'[c] = guard[c] /\ poison'[c] = poison[c]
      /\ where = "link" => link'[b] = Wild /\ guard'[b] = guard[b] /\ poison'[b] = poison[b]
      /\ where = "payload" => link'[b] = link[b] /\ guard'[b] = guard[b] /\ ~ poison'[b]
      /\ where \in {"overflow", "guard"} =>
            link'[b] = link[b] /\ guard'[b] = "smashed" /\ poison'[b] = poison[b]
  BY <1>0, <1>1 DEF TypeOK
<1>6. TypeOK'
  <2>1. /\ link' \in [Blocks -> {NULL, Wild} \cup Blocks]
        /\ guard' \in [Blocks -> {"freed", "allocated", "smashed"}] /\ poison' \in [Blocks -> BOOLEAN]
    BY <1>0, <1>1 DEF TypeOK
  <2>2. head' \in {NULL} \cup Blocks \cup (IF torn' \/ blind' THEN {Wild} ELSE {})
    BY <1>0, <1>1, <1>3 DEF TypeOK
  <2>3. /\ guilty' \subseteq Blocks /\ owed' \subseteq {"overflow", "guard", "payload", "link"} \X Blocks
        /\ erased' \subseteq {"guard", "payload"} \X Blocks
    BY <1>0, <1>1, <1>2 DEF TypeOK
  <2> QED BY <1>0, <1>1, <1>2, <1>3, <2>1, <2>2, <2>3 DEF TypeOK, threads, walk, Blocks
<1>7. ThreadsOK' /\ FaultsOK'
  BY <1>0, <1>1, <1>2 DEF ThreadsOK, FaultsOK, threads, walk, Blocks
<1>8. ASSUME ~ blind
      PROVE  Sound'
  <2>1. HandsApart /\ GuardsTold /\ DamageOwed /\ ListOK /\ RestOK /\ AccusedOK /\ WalkOK
    BY <1>8 DEF IInv, Sound
  <2>2. HandsApart' /\ AccusedOK'
    BY <1>0, <1>2, <1>3, <2>1 DEF HandsApart, Handling, AccusedOK, threads
  <2>3. GuardsTold'
    <3>1. ASSUME NEW t \in Threads, pc[t] = "push"
          PROVE  blk[t] \in Blocks \ {b}
      <4>1. blk[t] \in Blocks /\ blk[t] \notin held /\ blk[t] \in InHand
        BY <1>1, <2>1, <3>1, HandsHere DEF ThreadsOK, HandsApart, Handling
      <4> QED BY <1>0, <4>1 DEF Available
    <3>2. where \in {"overflow", "guard"} \/ guard'[b] = guard[b]
      BY <1>5
    <3>3. \A c \in held' : /\ guard'[c] \in {"allocated", "smashed"}
                           /\ guard'[c] = "smashed" => c \in guilty'
      BY <1>0, <1>1, <1>2, <1>5, <2>1, <3>2 DEF GuardsTold, TypeOK
    <3>4. \A c \in Listed' : c \in guilty' \/ (guard'[c] = "freed" /\ poison'[c])
      BY <1>2, <1>4, <1>5, <2>1 DEF GuardsTold
    <3>5. \A t \in Threads : pc'[t] = "push" => guard'[blk'[t]] = "freed" /\ poison'[blk'[t]]
      BY <1>0, <1>5, <2>1, <3>1 DEF GuardsTold, threads
    <3> QED BY <3>3, <3>4, <3>5 DEF GuardsTold
  <2>4. DamageOwed'
    <3> SUFFICES ASSUME NEW o \in owed' \ erased'
                 PROVE  /\ o[1] = "overflow" => o[2] \in held' /\ guard'[o[2]] = "smashed"
                        /\ o[1] = "guard" => o[2] \in Listed' /\ guard'[o[2]] = "smashed"
                        /\ o[1] = "payload" => o[2] \in Listed' /\ ~ poison'[o[2]]
                        /\ o[1] = "link" /\ policy' = "locked" =>
                              o[2] \notin held' /\ link'[o[2]] = Wild
      BY DEF DamageOwed
    <3>1. CASE o = <<where, b>>
      <4>1. o[1] = where /\ o[2] = b
        BY <3>1
      <4>2. where # "overflow" => b \in Listed /\ b \notin held
        BY <1>0, <1>4 DEF Available
      <4> QED BY <1>0, <1>4, <1>5, <4>1, <4>2
    <3>2. CASE o \in owed \ erased
      <4>1. o[2] \in Blocks
        BY <1>1, <3>2 DEF TypeOK
      <4>2. /\ guard[o[2]] = "smashed" => guard'[o[2]] = "smashed"
            /\ ~ poison[o[2]] => ~ poison'[o[2]]
            /\ link[o[2]] = Wild => link'[o[2]] = Wild
        BY <1>5, <4>1
      <4> QED BY <1>0, <1>4, <2>1, <3>2, <4>2 DEF DamageOwed
    <3> QED BY <1>0, <3>1, <3>2
  <2>5. \A h : \A S \in SUBSET Available :
           Chain(link, h, S) => \E part \in SUBSET S : Chain(link', h, part)
    <3> SUFFICES ASSUME NEW h, NEW S \in SUBSET Available, Chain(link, h, S)
                 PROVE  \E part \in SUBSET S : Chain(link', h, part)
      OBVIOUS
    <3>1. S \in SUBSET Blocks
      BY DEF Available
    <3>2. CASE where = "link"
      BY <1>5, <3>1, <3>2, ChainCut
    <3>3. CASE where # "link"
      <4>1. \A c \in S : link'[c] = link[c]
        BY <1>5, <3>1, <3>3
      <4> QED BY <3>1, <4>1, ChainFrame
    <3> QED BY <3>2, <3>3
  <2>6. CASE where = "link"
    <3>1. torn'
      BY <1>0, <2>6
    <3>2. \E S \in SUBSET Available : Chain(link', head, S)
      BY <2>1, <2>5 DEF ListOK
    <3>3. ListOK'
      BY <1>0, <1>4, <3>1, <3>2 DEF ListOK
    <3>4. ASSUME NEW t \in Threads, pc[t] = "cas", fresh[t]
          PROVE  \E S \in SUBSET (Available \ {head}) : Chain(link', val[t], S)
      <4>1. PICK S \in SUBSET (Available \ {head}) : Chain(link, val[t], S)
        BY <2>1, <3>4 DEF RestOK
      <4>2. PICK part \in SUBSET S : Chain(link', val[t], part)
        BY <2>5, <4>1
      <4> QED BY <4>1, <4>2
    <3>5. RestOK'
      BY <1>0, <1>4, <3>1, <3>4 DEF RestOK, threads
    <3>6. WalkOK'
      BY <1>2, <3>1 DEF WalkOK
    <3> QED BY <2>2, <2>3, <2>4, <3>3, <3>5, <3>6 DEF Sound
  <2>7. CASE where # "link"
    <3>1. UNCHANGED link /\ torn' = torn
      <4>1. torn \in BOOLEAN
        BY <1>1 DEF TypeOK
      <4> QED BY <1>0, <2>7, <4>1
    <3>2. ListOK'
      BY <1>0, <1>4, <2>1, <3>1, ListKept
    <3>3. RestOK'
      BY <1>0, <1>1, <1>4, <2>1, <3>1, RestKept DEF threads
    <3>4. WalkOK'
      BY <1>0, <1>2, <1>4, <2>1, <3>1 DEF WalkOK, walk
    <3> QED BY <2>2, <2>3, <2>4, <3>2, <3>3, <3>4 DEF Sound
  <2> QED BY <2>6, <2>7
<1> QED BY <1>0, <1>6, <1>7, <1>8 DEF IInv

-----------------------------------------------------------------------------
(* Calls under LOCKFREE: allocations. *)

(* A step of t that moves no block: into a pop, on in it, or out of it. *)
LEMMA SearchStep ==
    ASSUME IInv, policy = "lockfree", NEW t \in Threads, ~ Handling(t),
           NEW lab \in {"idle", "reveal", "cas"}, NEW x \in {NULL} \cup Blocks,
           lab # "idle" => x \in Blocks,
           pc' = [pc EXCEPT ![t] = lab], blk' = [blk EXCEPT ![t] = x],
           \A u \in Threads \ {t} : fresh'[u] = fresh[u] /\ val'[u] = val[u],
           lab \in {"reveal", "cas"} /\ fresh'[t] => x = head,
           lab = "cas" => val'[t] = link[x],
           UNCHANGED <<policy, handler, head, slots, held, walk, blind, torn, faults>>
    PROVE  /\ ThreadsOK' /\ FaultsOK' /\ (~ blind => HandsApart' /\ ListOK' /\ RestOK' /\ WalkOK')
           /\ ~ blind => Available' = Available /\ Listed' = Listed
           /\ \A u \in Threads : pc'[u] = "push" => pc[u] = "push" /\ blk'[u] = blk[u]
<1>1. TypeOK /\ ThreadsOK /\ FaultsOK
  BY DEF IInv
<1>2. /\ pc'[t] = lab /\ blk'[t] = x
      /\ \A u \in Threads \ {t} : pc'[u] = pc[u] /\ blk'[u] = blk[u]
  BY <1>1 DEF TypeOK
<1>3. ThreadsOK'
  BY <1>1, <1>2 DEF ThreadsOK, walk, Blocks
<1>4. FaultsOK'
  BY <1>1, <1>2 DEF FaultsOK
<1>5. \A u \in Threads : pc'[u] = "push" => pc[u] = "push" /\ blk'[u] = blk[u]
  BY <1>2
<1>6. ASSUME ~ blind
      PROVE  /\ HandsApart' /\ ListOK' /\ RestOK' /\ WalkOK'
             /\ Available' = Available /\ Listed' = Listed
  <2>1. HandsApart /\ ListOK /\ RestOK
    BY <1>6 DEF IInv, Sound
  <2>2. InHand' = InHand /\ Settling' = Settling
    BY <1>2, <2>1, CallStep DEF InHands, Settles, Handling
  <2>3. Available' = Available /\ Listed' = Listed
    BY <2>2 DEF Available, Listed, Blocks
  <2>4. HandsApart'
    BY <1>2, <2>1 DEF HandsApart, Handling
  <2>5. ListOK'
    BY <2>1, <2>3, ListKept DEF slots
  <2>6. RestOK'
    <3> SUFFICES ASSUME NEW u \in Threads, pc'[u] = "cas", fresh'[u]
                 PROVE  /\ \E S \in SUBSET (Available \ {head}) : Chain(link, val'[u], S)
                        /\ ~ torn => val'[u] = link[head]
      BY <2>3 DEF RestOK, slots
    <3>1. CASE u = t
      <4>1. head \in Blocks /\ val'[t] = link[head]
        BY <1>2, <3>1
      <4> QED BY <2>1, <3>1, <4>1, HeadAvailable
    <3>2. CASE u # t
      BY <1>2, <2>1, <3>2 DEF RestOK
    <3> QED BY <3>1, <3>2
  <2>7. WalkOK'
    BY <1>1, WalkIdle DEF ThreadsOK, walk
  <2> QED BY <2>3, <2>4, <2>5, <2>6, <2>7
<1> QED BY <1>3, <1>4, <1>5, <1>6

(* The lock-free pop before its CAS takes a snapshot, reveals a link, tries
   again. *)
LEMMA PopSearchStep ==
    ASSUME IInv, NEW t \in Threads, PopLoad(t) \/ PopReveal(t) \/ PopRetry(t)
    PROVE  IInv'
<1>1. TypeOK /\ ThreadsOK /\ FaultsOK
  BY DEF IInv
<1>2. /\ policy = "lockfree" /\ ~ Handling(t)
      /\ UNCHANGED <<policy, handler, aborted, head, slots, held, walk, accused, owed, damage>>
  BY DEF PopLoad, PopReveal, PopRetry, LockFree, Handling
<1>3. PICK lab \in {"idle", "reveal", "cas"}, x \in {NULL} \cup Blocks :
         /\ lab # "idle" => x \in Blocks
         /\ pc' = [pc EXCEPT ![t] = lab] /\ blk' = [blk EXCEPT ![t] = x]
         /\ \A u \in Threads \ {t} : fresh'[u] = fresh[u] /\ val'[u] = val[u]
         /\ lab \in {"reveal", "cas"} /\ fresh'[t] => x = head
         /\ lab = "cas" => val'[t] = link[x]
         /\ fresh' \in [Threads -> BOOLEAN] /\ val' \in [Threads -> {NULL, Wild} \cup Blocks]
  <2>1. CASE PopLoad(t)
    <3>1. /\ head \in Blocks /\ pc' = [pc EXCEPT ![t] = "reveal"] /\ blk' = [blk EXCEPT ![t] = head]
          /\ fresh' = [fresh EXCEPT ![t] = TRUE] /\ val' = val
      BY <2>1 DEF PopLoad, Snapshot, Goto
    <3> QED BY <1>1, <3>1 DEF TypeOK
  <2>2. CASE PopReveal(t)
    <3>1. /\ pc[t] = "reveal" /\ pc' = [pc EXCEPT ![t] = "cas"] /\ blk' = blk /\ fresh' = fresh
          /\ val' = [val EXCEPT ![t] = link[blk[t]]]
      BY <2>2 DEF PopReveal, Goto, reveal_next
    <3>2. blk[t] \in Blocks /\ (fresh[t] => blk[t] = head) /\ blk' = [blk EXCEPT ![t] = blk[t]]
      BY <1>1, <3>1 DEF ThreadsOK, TypeOK
    <3>3. val' \in [Threads -> {NULL, Wild} \cup Blocks] /\ val'[t] = link[blk[t]]
      BY <1>1, <3>1, <3>2 DEF TypeOK
    <3>4. \A u \in Threads \ {t} : val'[u] = val[u]
      BY <1>1, <3>1 DEF TypeOK
    <3> QED BY <1>1, <3>1, <3>2, <3>3, <3>4 DEF TypeOK
  <2>3. CASE PopRetry(t)
    <3>1. /\ ~ fresh[t] /\ val' = [val EXCEPT ![t] = NULL]
          /\ \/ /\ head \in Blocks /\ pc' = [pc EXCEPT ![t] = "reveal"]
                /\ blk' = [blk EXCEPT ![t] = head] /\ fresh' = [fresh EXCEPT ![t] = TRUE]
             \/ pc' = [pc EXCEPT ![t] = "idle"] /\ blk' = [blk EXCEPT ![t] = NULL] /\ fresh' = fresh
      BY <2>3 DEF PopRetry, Snapshot, Goto, Return
    <3>2. /\ val' \in [Threads -> {NULL, Wild} \cup Blocks]
          /\ \A u \in Threads \ {t} : val'[u] = val[u]
      BY <1>1, <3>1 DEF TypeOK
    <3>3. CASE head \in Blocks /\ fresh' = [fresh EXCEPT ![t] = TRUE]
               /\ pc' = [pc EXCEPT ![t] = "reveal"] /\ blk' = [blk EXCEPT ![t] = head]
      BY <1>1, <3>2, <3>3 DEF TypeOK
    <3>4. CASE pc' = [pc EXCEPT ![t] = "idle"] /\ blk' = [blk EXCEPT ![t] = NULL] /\ fresh' = fresh
      BY <1>1, <3>2, <3>4 DEF TypeOK
    <3> QED BY <3>1, <3>3, <3>4
  <2> QED BY <2>1, <2>2, <2>3
<1>4. TypeOK'
  <2>1. pc' \in [Threads -> {"idle", "reveal", "cas", "onalloc", "stamp", "restamp", "push"}]
    BY <1>1, <1>3 DEF TypeOK
  <2>2. blk' \in [Threads -> {NULL} \cup Blocks]
    BY <1>1, <1>3 DEF TypeOK
  <2> QED BY <1>1, <1>2, <1>3, <2>1, <2>2 DEF TypeOK, slots, walk, damage, Blocks
<1>5. /\ ThreadsOK' /\ FaultsOK' /\ (~ blind => HandsApart' /\ ListOK' /\ RestOK' /\ WalkOK')
      /\ ~ blind => Available' = Available /\ Listed' = Listed
      /\ \A u \in Threads : pc'[u] = "push" => pc[u] = "push" /\ blk'[u] = blk[u]
  <2>1. UNCHANGED <<policy, handler, head, slots, held, walk, blind, torn, faults>>
    BY <1>2 DEF damage
  <2> QED BY <1>2, <1>3, <2>1, SearchStep
<1>6. ASSUME ~ blind
      PROVE  GuardsTold' /\ DamageOwed' /\ AccusedOK'
  <2>1. GuardsTold /\ DamageOwed /\ AccusedOK
    BY <1>6 DEF IInv, Sound
  <2>2. GuardsTold'
    BY <1>2, <1>5, <1>6, <2>1 DEF GuardsTold, slots, damage
  <2>3. DamageOwed' /\ AccusedOK'
    BY <1>2, <1>5, <1>6, <2>1 DEF DamageOwed, AccusedOK, slots, damage
  <2> QED BY <2>2, <2>3
<1> QED BY <1>2, <1>4, <1>5, <1>6 DEF IInv, Sound, damage

(* The CAS of a lock-free pop installs the link it revealed, wild or not. *)
LEMMA PopCasStep == ASSUME IInv, NEW t \in Threads, PopCas(t) PROVE IInv'
<1>0. /\ policy = "lockfree" /\ pc[t] = "cas" /\ fresh[t]
      /\ head' = val[t] /\ fresh' = [u \in Threads |-> FALSE] /\ val' = [val EXCEPT ![t] = NULL]
      /\ pc' = [pc EXCEPT ![t] = "onalloc"]
      /\ UNCHANGED <<policy, handler, aborted, slots, held, blk, walk, accused, owed, damage>>
  BY DEF PopCas, LockFree, Goto
<1>1. TypeOK /\ ThreadsOK /\ FaultsOK
  BY DEF IInv
<1>2. /\ pc'[t] = "onalloc" /\ blk'[t] = blk[t]
      /\ \A u \in Threads \ {t} : pc'[u] = pc[u] /\ blk'[u] = blk[u]
  BY <1>0, <1>1 DEF TypeOK
<1>3. blk[t] = head /\ head \in Blocks
  BY <1>0, <1>1 DEF ThreadsOK
<1>4. ThreadsOK' /\ FaultsOK'
  BY <1>0, <1>1, <1>2 DEF ThreadsOK, FaultsOK, walk, damage, Blocks
<1>5. ASSUME ~ blind
      PROVE  Sound' /\ (~ torn => head' # Wild)
  <2>1. HandsApart /\ GuardsTold /\ DamageOwed /\ ListOK /\ RestOK /\ AccusedOK
    BY <1>5 DEF IInv, Sound
  <2>2. InHand' = InHand \cup {head} /\ Settling' = Settling
    BY <1>0, <1>2, <1>3, <2>1, CallStep DEF InHands, Settles, Handling
  <2>3. head \in Available /\ Available' = Available \ {head} /\ Listed' = Listed
    BY <1>0, <1>3, <2>1, <2>2, HeadAvailable DEF Available, Listed, Blocks
  <2>4. head \notin held /\ \A u \in Threads : Handling(u) => blk[u] # head
    BY <2>3, HandsHere DEF Available
  <2>5. HandsApart'
    BY <1>0, <1>2, <1>3, <2>1, <2>4 DEF HandsApart, Handling
  <2>6. GuardsTold' /\ DamageOwed' /\ AccusedOK'
    BY <1>0, <1>2, <2>1, <2>3 DEF GuardsTold, DamageOwed, AccusedOK, slots, damage
  <2>7. \E S \in SUBSET Available' :
           /\ Chain(link, val[t], S)
           /\ ~ torn => S = Available' /\ val[t] # Wild /\ \A b \in S : link[b] # Wild
    <3>1. CASE torn
      <4>1. PICK S \in SUBSET (Available \ {head}) : Chain(link, val[t], S)
        BY <1>0, <2>1 DEF RestOK
      <4> QED BY <2>3, <3>1, <4>1
    <3>2. CASE ~ torn
      <4>1. val[t] = link[head]
        BY <1>0, <2>1, <3>2 DEF RestOK
      <4> QED BY <1>3, <2>1, <2>3, <3>2, <4>1, HeadAvailable
    <3> QED BY <3>1, <3>2
  <2>8. ListOK' /\ (~ torn => head' # Wild)
    BY <1>0, <2>7 DEF ListOK, slots, damage
  <2>9. RestOK'
    BY <1>0 DEF RestOK
  <2>10. WalkOK'
    BY <1>0, <1>1, WalkIdle DEF ThreadsOK, walk
  <2> QED BY <2>5, <2>6, <2>8, <2>9, <2>10 DEF Sound
<1>6. TypeOK'
  <2>1. head' \in {NULL} \cup Blocks \cup (IF torn \/ blind THEN {Wild} ELSE {})
    BY <1>0, <1>1, <1>5 DEF TypeOK
  <2>2. pc' \in [Threads -> {"idle", "reveal", "cas", "onalloc", "stamp", "restamp", "push"}]
    BY <1>0, <1>1 DEF TypeOK
  <2>3. fresh' \in [Threads -> BOOLEAN] /\ val' \in [Threads -> {NULL, Wild} \cup Blocks]
    BY <1>0, <1>1 DEF TypeOK
  <2> QED BY <1>0, <1>1, <2>1, <2>2, <2>3 DEF TypeOK, slots, walk, damage, Blocks
<1> QED BY <1>0, <1>4, <1>5, <1>6 DEF IInv, damage

(* The check of a block after the lock-free pop that took it. *)
LEMMA OnAllocStep == ASSUME IInv, NEW t \in Threads, OnAlloc(t) PROVE IInv'
<1> DEFINE b == blk[t]
           told == on_alloc_reports(b)
<1>0. /\ policy = "lockfree" /\ pc[t] = "onalloc" /\ report(told)
      /\ guard' = [guard EXCEPT ![b] = "allocated"] /\ held' = held \cup {b}
      /\ pc' = [pc EXCEPT ![t] = "idle"] /\ blk' = [blk EXCEPT ![t] = NULL]
      /\ UNCHANGED <<policy, handler, head, link, poison, val, fresh, walk, damage>>
  BY DEF OnAlloc, LockFree, Return, Goto, write_guard
<1> HIDE DEF b
<1>1. TypeOK /\ ThreadsOK /\ FaultsOK
  BY DEF IInv
<1>2. b = blk[t] /\ b \in Blocks
  BY <1>0, <1>1 DEF b, ThreadsOK
<1>3. /\ pc'[t] = "idle" /\ blk'[t] = NULL
      /\ \A u \in Threads \ {t} : pc'[u] = pc[u] /\ blk'[u] = blk[u]
  BY <1>0, <1>1 DEF TypeOK
<1>4. /\ owed' \subseteq owed /\ accused' \subseteq accused \cup {b} /\ aborted' \in BOOLEAN
      /\ \A o \in owed' : o[2] = b =>
            /\ o[1] = "payload" => poison[b]
            /\ o[1] = "guard" => guard[b] = "freed"
      /\ guard[b] = "freed" /\ poison[b] => accused' = accused
  <2>1. \A r \in told : r[2] = b
    BY Told
  <2>2. /\ guard[b] # "freed" => <<"guard", b>> \in told
        /\ ~ poison[b] => <<"payload", b>> \in told
        /\ guard[b] = "freed" /\ poison[b] => told = {}
    BY Told
  <2> HIDE DEF told
  <2>3. /\ owed' = owed \ told /\ accused' \subseteq accused \cup {b} /\ aborted' \in BOOLEAN
        /\ told = {} => accused' = accused
    BY <1>0, <2>1, Owed
  <2>4. \A o \in owed' : o = <<o[1], o[2]>> /\ o \notin told
    BY <1>1, <2>3 DEF TypeOK
  <2> QED BY <2>2, <2>3, <2>4
<1> HIDE DEF told
<1>5. ThreadsOK' /\ FaultsOK'
  BY <1>0, <1>1, <1>3 DEF ThreadsOK, FaultsOK, walk, damage, Blocks
<1>6. \A c \in Blocks \ {b} : guard'[c] = guard[c]
  BY <1>0, <1>1 DEF TypeOK
<1>7. guard'[b] = "allocated"
  BY <1>0, <1>1, <1>2 DEF TypeOK
<1>8. ASSUME ~ blind
      PROVE  Sound'
  <2>1. HandsApart /\ GuardsTold /\ DamageOwed /\ ListOK /\ RestOK /\ AccusedOK
    BY <1>8 DEF IInv, Sound
  <2>2. Handling(t) /\ b \notin held
    BY <1>0, <1>2, <2>1 DEF Handling, HandsApart
  <2>3. /\ b \in InHand /\ InHand' = InHand \ {b} /\ Settling' = Settling
    BY <1>0, <1>2, <1>3, <2>1, <2>2, CallStep, HandsHere DEF InHands, Settles
  <2>4. \A u \in Threads \ {t} : Handling(u) => blk[u] # b
    BY <1>2, <2>1, <2>2 DEF HandsApart
  <2>5. b \notin Settling
    <3>1. \A u \in Threads : pc[u] \in Settles => u # t /\ Handling(u)
      BY <1>0 DEF Settles, Handling
    <3> QED BY <2>4, <3>1, HandsHere
  <2>6. Available' = Available /\ Listed' = Listed \ {b} /\ b \in Listed /\ Listed \subseteq Blocks
    BY <1>0, <1>2, <2>2, <2>3, <2>5 DEF Available, Listed, Blocks
  <2>7. HandsApart'
    BY <1>0, <1>3, <2>1, <2>4 DEF HandsApart, Handling
  <2>8. GuardsTold'
    <3>1. \A u \in Threads : pc'[u] = "push" => u # t /\ pc[u] = "push" /\ blk'[u] = blk[u]
      BY <1>3
    <3>2. \A u \in Threads : pc[u] = "push" => Handling(u) /\ blk[u] \in Blocks
      BY <1>1 DEF Handling, ThreadsOK
    <3>3. \A u \in Threads : pc'[u] = "push" => guard'[blk'[u]] = "freed" /\ poison'[blk'[u]]
      BY <1>0, <1>6, <2>1, <2>4, <3>1, <3>2 DEF GuardsTold
    <3>4. \A c \in held' : /\ guard'[c] \in {"allocated", "smashed"}
                           /\ guard'[c] = "smashed" => c \in guilty'
      BY <1>0, <1>1, <1>6, <1>7, <2>1 DEF GuardsTold, TypeOK, damage
    <3>5. \A c \in Listed' : c \in guilty' \/ (guard'[c] = "freed" /\ poison'[c])
      BY <1>0, <1>6, <2>1, <2>6 DEF GuardsTold, damage
    <3> QED BY <3>3, <3>4, <3>5 DEF GuardsTold
  <2>9. DamageOwed'
    <3> SUFFICES ASSUME NEW o \in owed' \ erased'
                 PROVE  /\ o[1] = "overflow" => o[2] \in held' /\ guard'[o[2]] = "smashed"
                        /\ o[1] = "guard" => o[2] \in Listed' /\ guard'[o[2]] = "smashed"
                        /\ o[1] = "payload" => o[2] \in Listed' /\ ~ poison'[o[2]]
      BY <1>0 DEF DamageOwed
    <3>1. o \in owed' /\ o \in owed \ erased /\ o[2] \in Blocks
      BY <1>0, <1>1, <1>4 DEF TypeOK, damage
    <3>2. o[1] \in {"overflow", "guard", "payload"} => o[2] # b
      BY <1>4, <2>1, <2>2, <3>1 DEF DamageOwed
    <3> QED BY <1>0, <1>6, <2>1, <2>6, <3>1, <3>2 DEF DamageOwed
  <2>10. AccusedOK'
    BY <1>0, <1>4, <2>1, <2>6 DEF AccusedOK, GuardsTold, damage
  <2>11. ListOK'
    BY <1>0, <2>1, <2>6, ListKept DEF damage
  <2>12. RestOK'
    <3>1. \A u \in Threads : pc'[u] = "cas" => pc[u] = "cas"
      BY <1>3
    <3> QED BY <1>0, <1>1, <2>1, <2>6, <3>1, RestKept DEF damage
  <2>13. WalkOK'
    BY <1>0, <1>1, WalkIdle DEF ThreadsOK, walk
  <2> QED BY <2>7, <2>8, <2>9, <2>10, <2>11, <2>12, <2>13 DEF Sound
<1>9. TypeOK'
  <2>1. /\ pc' \in [Threads -> {"idle", "reveal", "cas", "onalloc", "stamp", "restamp", "push"}]
        /\ blk' \in [Threads -> {NULL} \cup Blocks]
    BY <1>0, <1>1 DEF TypeOK
  <2>2. /\ guard' \in [Blocks -> {"freed", "allocated", "smashed"}] /\ held' \subseteq Blocks
        /\ accused' \subseteq Blocks /\ owed' \subseteq {"overflow", "guard", "payload", "link"} \X Blocks
    BY <1>0, <1>1, <1>2, <1>4 DEF TypeOK
  <2> QED BY <1>0, <1>1, <1>4, <2>1, <2>2 DEF TypeOK, walk, damage, Blocks
<1> QED BY <1>0, <1>5, <1>8, <1>9 DEF IInv, damage

-----------------------------------------------------------------------------
(* Calls under LOCKFREE: returns. *)

(* What the check of a returned block changes, and leaves well typed. *)
LEMMA CheckTyped ==
    ASSUME TypeOK, NEW t \in Threads, NEW b \in Blocks, FreeCheck(t, b)
    PROVE  /\ pc[t] = "idle" /\ blk' = [blk EXCEPT ![t] = b] /\ held' = held \ {b}
           /\ guard[b] # "freed" => pc' = [pc EXCEPT ![t] = "stamp"]
           /\ guard[b] = "freed" => pc' = [pc EXCEPT ![t] = "restamp"]
           /\ UNCHANGED <<policy, handler, head, slots, val, fresh, walk, erased, torn>>
           /\ owed' \subseteq owed /\ accused' \subseteq accused \cup {b}
           /\ guard[b] = "allocated" => accused' = accused
           /\ \A o \in owed' : o[2] = b /\ guard[b] = "smashed" => o[1] # "overflow"
           /\ guilty' \subseteq Blocks /\ faults' \in 0 .. MaxFaults /\ blind' \in BOOLEAN
                 /\ (blind => blind') => TypeOK'
<1> DEFINE told == on_free_reports(b)
<1>1. /\ report(told)
      /\ pc[t] = "idle" /\ blk' = [blk EXCEPT ![t] = b] /\ held' = held \ {b}
      /\ guard[b] # "freed" => pc' = [pc EXCEPT ![t] = "stamp"]
      /\ guard[b] = "freed" => pc' = [pc EXCEPT ![t] = "restamp"]
      /\ UNCHANGED <<policy, handler, head, slots, val, fresh, walk, erased, torn>>
  BY DEF FreeCheck, Goto, on_free_accepts, read_guard
<1>2. \A r \in told : r[2] = b
  BY Told
<1>3. /\ guard[b] = "allocated" => told = {}
      /\ guard[b] = "smashed" => told = {<<"overflow", b>>}
  BY Told
<1> HIDE DEF told
<1>4. /\ owed' = owed \ told /\ accused' \subseteq accused \cup {b} /\ aborted' \in BOOLEAN
      /\ guard[b] = "allocated" => accused' = accused
  BY <1>1, <1>2, <1>3, Owed
<1>6. \A o \in owed' : o[2] = b /\ guard[b] = "smashed" => o[1] # "overflow"
  <2>1. \A o \in owed' : o = <<o[1], o[2]>> /\ o \notin told
    BY <1>4 DEF TypeOK
  <2> QED BY <1>3, <2>1
<1>5. ASSUME guilty' \subseteq Blocks, faults' \in 0 .. MaxFaults, blind' \in BOOLEAN, blind => blind'
      PROVE  TypeOK'
  <2>1. head' \in {NULL} \cup Blocks \cup (IF torn' \/ blind' THEN {Wild} ELSE {})
    BY <1>1, <1>5 DEF TypeOK
  <2>2. accused' \subseteq Blocks /\ owed' \subseteq {"overflow", "guard", "payload", "link"} \X Blocks
    BY <1>4 DEF TypeOK
  <2>3. /\ pc' \in [Threads -> {"idle", "reveal", "cas", "onalloc", "stamp", "restamp", "push"}]
        /\ blk' \in [Threads -> {NULL} \cup Blocks]
    BY <1>1 DEF TypeOK
  <2> QED BY <1>1, <1>4, <1>5, <2>1, <2>2, <2>3 DEF TypeOK, slots, walk, Blocks
<1> QED BY <1>1, <1>4, <1>5, <1>6

(* The check of a block before its lock-free push; a second free is refused
   here unless it escapes. *)
LEMMA FreeBeginStep ==
    ASSUME IInv, NEW t \in Threads, NEW b \in Blocks, FreeBegin(t, b)
    PROVE  IInv'
<1>0. /\ policy = "lockfree" /\ b \in held /\ FreeCheck(t, b)
      /\ UNCHANGED <<guilty, blind, faults>>
  BY DEF FreeBegin, LockFree
<1>1. TypeOK /\ ThreadsOK /\ FaultsOK
  BY DEF IInv
<1>2. /\ pc[t] = "idle" /\ blk' = [blk EXCEPT ![t] = b] /\ held' = held \ {b}
      /\ guard[b] # "freed" => pc' = [pc EXCEPT ![t] = "stamp"]
      /\ guard[b] = "freed" => pc' = [pc EXCEPT ![t] = "restamp"]
      /\ UNCHANGED <<policy, handler, head, slots, val, fresh, walk, erased, torn>>
      /\ owed' \subseteq owed /\ accused' \subseteq accused \cup {b}
      /\ guard[b] = "allocated" => accused' = accused
      /\ \A o \in owed' : o[2] = b /\ guard[b] = "smashed" => o[1] # "overflow"
  BY <1>0, <1>1, CheckTyped
<1>3. TypeOK'
  BY <1>0, <1>1, CheckTyped DEF TypeOK
<1>4. /\ pc'[t] \in {"stamp", "restamp"} /\ blk'[t] = b
      /\ guard[b] # "freed" => pc'[t] = "stamp"
      /\ \A u \in Threads \ {t} : pc'[u] = pc[u] /\ blk'[u] = blk[u]
  BY <1>1, <1>2 DEF TypeOK
<1>5. ThreadsOK'
  BY <1>0, <1>1, <1>2, <1>4 DEF ThreadsOK, walk, Blocks
<1>6. ASSUME ~ blind
      PROVE  Sound' /\ pc'[t] = "stamp"
  <2>1. HandsApart /\ GuardsTold /\ DamageOwed /\ ListOK /\ RestOK /\ AccusedOK
    BY <1>6 DEF IInv, Sound
  <2>2. /\ guard[b] \in {"allocated", "smashed"} /\ (guard[b] = "smashed" => b \in guilty)
        /\ pc'[t] = "stamp"
    BY <1>0, <1>4, <2>1 DEF GuardsTold
  <2>3. InHand' = InHand \cup {b} /\ Settling' = Settling \cup {b}
    BY <1>2, <1>4, <2>1, <2>2, CallStep DEF InHands, Settles, Handling
  <2>4. b \notin InHand /\ b \notin Settling
    <3>1. \A u \in Threads : pc[u] \in Settles => Handling(u)
      BY DEF Settles, Handling
    <3> QED BY <1>0, <2>1, <3>1, HandsHere DEF HandsApart
  <2>5. Available' = Available /\ Listed' = Listed
    BY <1>0, <1>2, <2>3, <2>4 DEF Available, Listed, Blocks
  <2>6. HandsApart'
    <3>1. \A u \in Threads \ {t} : Handling(u)' <=> Handling(u)
      BY <1>4 DEF Handling
    <3>2. \A u \in Threads : Handling(u) => blk[u] # b
      BY <2>4, HandsHere
    <3>3. ~ Handling(t)
      BY <1>2 DEF Handling
    <3> QED BY <1>2, <1>4, <2>1, <3>1, <3>2, <3>3 DEF HandsApart
  <2>7. GuardsTold'
    <3>1. \A u \in Threads : pc'[u] = "push" => pc[u] = "push" /\ blk'[u] = blk[u]
      BY <1>4, <2>2
    <3> QED BY <1>0, <1>2, <2>1, <2>5, <3>1 DEF GuardsTold, slots
  <2>8. DamageOwed'
    <3> SUFFICES ASSUME NEW o \in owed' \ erased'
                 PROVE  /\ o[1] = "overflow" => o[2] \in held' /\ guard'[o[2]] = "smashed"
                        /\ o[1] = "guard" => o[2] \in Listed' /\ guard'[o[2]] = "smashed"
                        /\ o[1] = "payload" => o[2] \in Listed' /\ ~ poison'[o[2]]
      BY <1>0, <1>2 DEF DamageOwed
    <3>1. o \in owed' /\ o \in owed \ erased
      BY <1>2
    <3>2. o[1] = "overflow" => o[2] # b
      BY <1>2, <2>1, <3>1 DEF DamageOwed
    <3> QED BY <1>2, <2>1, <2>5, <3>1, <3>2 DEF DamageOwed, slots
  <2>9. AccusedOK'
    BY <1>0, <1>2, <2>1, <2>2 DEF AccusedOK
  <2>10. ListOK'
    BY <1>2, <2>1, <2>5, ListKept DEF slots
  <2>11. RestOK'
    <3>1. \A u \in Threads : pc'[u] = "cas" => pc[u] = "cas"
      BY <1>4
    <3> QED BY <1>1, <1>2, <2>1, <2>5, <3>1, RestKept DEF slots
  <2>12. WalkOK'
    BY <1>0, <1>1, <1>2, WalkIdle DEF ThreadsOK, walk
  <2> QED BY <2>2, <2>6, <2>7, <2>8, <2>9, <2>10, <2>11, <2>12 DEF Sound
<1>7. FaultsOK'
  BY <1>0, <1>1, <1>2, <1>4, <1>6 DEF FaultsOK
<1> QED BY <1>0, <1>3, <1>5, <1>6, <1>7 DEF IInv

(* A second free under LOCKFREE: it finds the stamp, or else nothing more is claimed. *)
LEMMA DoubleFreeCheckedStep ==
    ASSUME IInv, NEW t \in Threads, NEW b \in Blocks, Misuse(b), b \notin held,
           policy = "lockfree", FreeCheck(t, b), blind' = (blind \/ on_free_accepts(b))
    PROVE  IInv'
<1>1. TypeOK /\ ThreadsOK /\ FaultsOK
  BY DEF IInv
<1>2. /\ faults' \in 0 .. MaxFaults /\ faults' # 0 /\ guilty' = guilty \cup {b}
      /\ guilty' \subseteq Blocks /\ blind' \in BOOLEAN /\ (blind => blind')
      /\ ~ blind' => ~ blind /\ guard[b] = "freed"
  <2>1. faults' \in 0 .. MaxFaults /\ faults' # 0 /\ guilty' = guilty \cup {b} /\ guilty' \subseteq Blocks
    BY <1>1, HardenedAssumption DEF Misuse, TypeOK
  <2>2. blind \in BOOLEAN
    BY <1>1 DEF TypeOK
  <2>3. blind' = (blind \/ guard[b] # "freed")
    BY DEF on_free_accepts, read_guard
  <2> QED BY <2>1, <2>2, <2>3
<1>3. /\ pc[t] = "idle" /\ blk' = [blk EXCEPT ![t] = b] /\ held' = held
      /\ guard[b] # "freed" => pc' = [pc EXCEPT ![t] = "stamp"]
      /\ guard[b] = "freed" => pc' = [pc EXCEPT ![t] = "restamp"]
      /\ UNCHANGED <<policy, handler, head, slots, val, fresh, walk, erased, torn>>
      /\ owed' \subseteq owed /\ accused' \subseteq accused \cup {b}
      /\ TypeOK'
  <2>1. held \ {b} = held
    OBVIOUS
  <2> QED BY <1>1, <1>2, <2>1, CheckTyped
<1>4. /\ pc'[t] \in {"stamp", "restamp"} /\ blk'[t] = b
      /\ guard[b] = "freed" => pc'[t] = "restamp"
      /\ \A u \in Threads \ {t} : pc'[u] = pc[u] /\ blk'[u] = blk[u]
  BY <1>1, <1>3 DEF TypeOK
<1>5. ThreadsOK'
  BY <1>1, <1>3, <1>4 DEF ThreadsOK, walk, Blocks
<1>6. FaultsOK'
  BY <1>2 DEF FaultsOK
<1>7. ASSUME ~ blind'
      PROVE  Sound'
  <2>1. GuardsTold /\ DamageOwed /\ AccusedOK /\ HandsApart /\ ListOK /\ RestOK
    BY <1>2, <1>7 DEF IInv, Sound
  <2>2. pc'[t] = "restamp" /\ ~ Handling(t)
    BY <1>2, <1>3, <1>4, <1>7 DEF Handling
  <2>3. InHand' = InHand /\ Settling' = Settling
    BY <1>3, <1>4, <2>1, <2>2, CallStep DEF InHands, Settles
  <2>4. Available' = Available /\ Listed' = Listed
    BY <1>3, <2>3 DEF Available, Listed, Blocks
  <2>5. HandsApart'
    BY <1>3, <1>4, <2>1, <2>2 DEF HandsApart, Handling
  <2>6. GuardsTold'
    <3>1. \A u \in Threads : pc'[u] = "push" => pc[u] = "push" /\ blk'[u] = blk[u]
      BY <1>4, <2>2
    <3> QED BY <1>2, <1>3, <2>1, <2>4, <3>1 DEF GuardsTold, slots
  <2>7. DamageOwed' /\ AccusedOK'
    BY <1>2, <1>3, <2>1, <2>4 DEF DamageOwed, AccusedOK, slots
  <2>8. ListOK'
    BY <1>3, <2>1, <2>4, ListKept DEF slots
  <2>9. RestOK'
    <3>1. \A u \in Threads : pc'[u] = "cas" => pc[u] = "cas"
      BY <1>4
    <3> QED BY <1>1, <1>3, <2>1, <2>4, <3>1, RestKept DEF slots
  <2>10. WalkOK'
    BY <1>1, <1>3, WalkIdle DEF ThreadsOK, walk
  <2> QED BY <2>5, <2>6, <2>7, <2>8, <2>9, <2>10 DEF Sound
<1> QED BY <1>3, <1>5, <1>6, <1>7 DEF IInv

(* The poison and the stamp of a block between the check and the push. *)
LEMMA FreeStampStep == ASSUME IInv, NEW t \in Threads, FreeStamp(t) PROVE IInv'
<1> DEFINE b == blk[t]
<1>0. /\ policy = "lockfree" /\ pc[t] \in {"stamp", "restamp"}
      /\ guard' = [guard EXCEPT ![b] = "freed"] /\ poison' = [poison EXCEPT ![b] = TRUE]
      /\ pc[t] = "stamp" => pc' = [pc EXCEPT ![t] = "push"] /\ UNCHANGED <<blk, erased, blind>>
      /\ pc[t] = "restamp" => /\ pc' = [pc EXCEPT ![t] = "idle"] /\ blk' = [blk EXCEPT ![t] = NULL]
                              /\ erased' = erased \cup Traces(b)
                              /\ blind' = (blind \/ b \in held)
      /\ UNCHANGED <<policy, handler, aborted, head, link, held, val, fresh, walk, accused, owed,
                     guilty, torn, faults>>
  BY DEF FreeStamp, LockFree, Stamp, poison_payload, write_guard, Goto, Return
<1> HIDE DEF b
<1>1. TypeOK /\ ThreadsOK /\ FaultsOK
  BY DEF IInv
<1>2. b = blk[t] /\ b \in Blocks
  BY <1>0, <1>1 DEF b, ThreadsOK
<1>3. /\ blind' \in BOOLEAN /\ (blind => blind')
      /\ ~ blind' => ~ blind /\ (pc[t] = "restamp" => b \notin held)
      /\ pc[t] # "restamp" => blind' = blind
  <2>1. blind \in BOOLEAN
    BY <1>1 DEF TypeOK
  <2>2. CASE pc[t] = "stamp"
    BY <1>0, <2>1, <2>2
  <2>3. CASE pc[t] = "restamp"
    <3>1. blind' = (blind \/ b \in held)
      BY <1>0, <2>3
    <3> QED BY <2>1, <2>3, <3>1
  <2> QED BY <1>0, <2>2, <2>3
<1>4. /\ pc[t] = "stamp" => pc'[t] = "push" /\ blk'[t] = b
      /\ pc[t] = "restamp" => pc'[t] = "idle"
      /\ \A u \in Threads \ {t} : pc'[u] = pc[u] /\ blk'[u] = blk[u]
  BY <1>0, <1>1, <1>2 DEF TypeOK
<1>5. ThreadsOK' /\ FaultsOK'
  BY <1>0, <1>1, <1>2, <1>3, <1>4 DEF ThreadsOK, FaultsOK, walk, Blocks
<1>6. /\ \A c \in Blocks \ {b} : guard'[c] = guard[c] /\ poison'[c] = poison[c]
      /\ guard'[b] = "freed" /\ poison'[b]
  BY <1>0, <1>1, <1>2 DEF TypeOK
<1>7. TypeOK'
  <2>1. /\ pc' \in [Threads -> {"idle", "reveal", "cas", "onalloc", "stamp", "restamp", "push"}]
        /\ blk' \in [Threads -> {NULL} \cup Blocks]
    BY <1>0, <1>1 DEF TypeOK
  <2>2. /\ guard' \in [Blocks -> {"freed", "allocated", "smashed"}] /\ poison' \in [Blocks -> BOOLEAN]
    BY <1>0, <1>1 DEF TypeOK
  <2>3. head' \in {NULL} \cup Blocks \cup (IF torn' \/ blind' THEN {Wild} ELSE {})
    BY <1>0, <1>1, <1>3 DEF TypeOK
  <2>4. erased' \subseteq {"guard", "payload"} \X Blocks
    BY <1>0, <1>1, <1>2 DEF TypeOK, Traces
  <2> QED BY <1>0, <1>1, <1>3, <2>1, <2>2, <2>3, <2>4 DEF TypeOK, walk, Blocks
<1>8. ASSUME ~ blind'
      PROVE  Sound'
  <2>1. HandsApart /\ GuardsTold /\ DamageOwed /\ ListOK /\ RestOK /\ AccusedOK
    BY <1>3, <1>8 DEF IInv, Sound
  <2>2. InHand' = InHand /\ Settling' = Settling
    <3>1. CASE pc[t] = "stamp"
      BY <1>2, <1>4, <2>1, <3>1, CallStep DEF InHands, Settles, Handling
    <3>2. CASE pc[t] = "restamp"
      BY <1>4, <2>1, <3>2, CallStep DEF InHands, Settles, Handling
    <3> QED BY <1>0, <3>1, <3>2
  <2>3. Available' = Available /\ Listed' = Listed /\ Listed \subseteq Blocks
    BY <1>0, <2>2 DEF Available, Listed, Blocks
  <2>4. /\ b \notin held
        /\ \A o \in owed' \ erased' : o \in owed \ erased /\ (o[1] \in {"guard", "payload"} => o[2] # b)
    <3>1. CASE pc[t] = "stamp"
      <4>1. Handling(t) /\ b \in Settling
        BY <1>2, <3>1, HandsHere DEF Handling, Settles
      <4>2. b \notin held /\ b \notin Listed
        BY <1>2, <2>1, <4>1 DEF HandsApart, Listed
      <4> QED BY <1>0, <2>1, <3>1, <4>2 DEF DamageOwed
    <3>2. CASE pc[t] = "restamp"
      <4>1. b \notin held
        BY <1>3, <1>8, <3>2
      <4>2. \A o \in owed : o = <<o[1], o[2]>>
        BY <1>1 DEF TypeOK
      <4> QED BY <1>0, <3>2, <4>1, <4>2 DEF Traces
    <3> QED BY <1>0, <3>1, <3>2
  <2>5. HandsApart'
    <3>1. \A u \in Threads : Handling(u)' => Handling(u) /\ blk'[u] = blk[u]
      BY <1>0, <1>2, <1>4 DEF Handling
    <3> QED BY <1>0, <2>1, <3>1 DEF HandsApart
  <2>6. GuardsTold'
    <3>1. \A u \in Threads : pc'[u] = "push" => blk'[u] = b \/ (pc[u] = "push" /\ blk'[u] = blk[u])
      BY <1>0, <1>4
    <3>2. \A u \in Threads : pc[u] = "push" => blk[u] \in Blocks
      BY <1>1 DEF ThreadsOK
    <3>3. \A u \in Threads : pc'[u] = "push" => guard'[blk'[u]] = "freed" /\ poison'[blk'[u]]
      BY <1>6, <2>1, <3>1, <3>2 DEF GuardsTold
    <3>4. \A c \in held' : /\ guard'[c] \in {"allocated", "smashed"}
                           /\ guard'[c] = "smashed" => c \in guilty'
      BY <1>0, <1>1, <1>6, <2>1, <2>4 DEF GuardsTold, TypeOK
    <3>5. \A c \in Listed' : c \in guilty' \/ (guard'[c] = "freed" /\ poison'[c])
      BY <1>0, <1>6, <2>1, <2>3 DEF GuardsTold
    <3> QED BY <3>3, <3>4, <3>5 DEF GuardsTold
  <2>7. DamageOwed'
    <3> SUFFICES ASSUME NEW o \in owed' \ erased'
                 PROVE  /\ o[1] = "overflow" => o[2] \in held' /\ guard'[o[2]] = "smashed"
                        /\ o[1] = "guard" => o[2] \in Listed' /\ guard'[o[2]] = "smashed"
                        /\ o[1] = "payload" => o[2] \in Listed' /\ ~ poison'[o[2]]
      BY <1>0 DEF DamageOwed
    <3>1. o \in owed \ erased /\ o[2] \in Blocks
      BY <1>1, <2>4 DEF TypeOK
    <3>2. o[1] = "overflow" => o[2] # b
      BY <2>1, <2>4 DEF DamageOwed
    <3> QED BY <1>0, <1>6, <2>1, <2>3, <2>4, <3>1, <3>2 DEF DamageOwed
  <2>8. AccusedOK'
    BY <1>0, <2>1 DEF AccusedOK
  <2>9. ListOK'
    BY <1>0, <2>1, <2>3, ListKept
  <2>10. RestOK'
    <3>1. \A u \in Threads : pc'[u] = "cas" => pc[u] = "cas"
      BY <1>0, <1>4
    <3> QED BY <1>0, <1>1, <2>1, <2>3, <3>1, RestKept
  <2>11. WalkOK'
    BY <1>0, <1>1, WalkIdle DEF ThreadsOK, walk
  <2> QED BY <2>5, <2>6, <2>7, <2>8, <2>9, <2>10, <2>11 DEF Sound
<1> QED BY <1>5, <1>7, <1>8 DEF IInv

(* The CAS of a lock-free push. *)
LEMMA FreePublishStep == ASSUME IInv, NEW t \in Threads, FreePublish(t) PROVE IInv'
<1> DEFINE b == blk[t]
<1>0. /\ policy = "lockfree" /\ pc[t] = "push"
      /\ link' = [link EXCEPT ![b] = head] /\ head' = b
      /\ fresh' = [u \in Threads |-> FALSE]
      /\ pc' = [pc EXCEPT ![t] = "idle"] /\ blk' = [blk EXCEPT ![t] = NULL]
      /\ UNCHANGED <<policy, handler, aborted, guard, poison, held, val, walk, accused, owed, damage>>
  BY DEF FreePublish, LockFree, write_next, Goto, Return
<1> HIDE DEF b
<1>1. TypeOK /\ ThreadsOK /\ FaultsOK
  BY DEF IInv
<1>2. b = blk[t] /\ b \in Blocks
  BY <1>0, <1>1 DEF b, ThreadsOK
<1>3. /\ pc'[t] = "idle" /\ blk'[t] = NULL
      /\ \A u \in Threads \ {t} : pc'[u] = pc[u] /\ blk'[u] = blk[u]
  BY <1>0, <1>1 DEF TypeOK
<1>4. ThreadsOK' /\ FaultsOK'
  BY <1>0, <1>1, <1>3 DEF ThreadsOK, FaultsOK, walk, damage, Blocks
<1>5. TypeOK'
  <2>1. /\ pc' \in [Threads -> {"idle", "reveal", "cas", "onalloc", "stamp", "restamp", "push"}]
        /\ blk' \in [Threads -> {NULL} \cup Blocks] /\ fresh' \in [Threads -> BOOLEAN]
    BY <1>0, <1>1 DEF TypeOK
  <2>2. link' \in [Blocks -> {NULL, Wild} \cup Blocks]
    BY <1>0, <1>1 DEF TypeOK
  <2>3. head' \in {NULL} \cup Blocks \cup (IF torn' \/ blind' THEN {Wild} ELSE {})
    BY <1>0, <1>2
  <2> QED BY <1>0, <1>1, <2>1, <2>2, <2>3 DEF TypeOK, walk, damage, Blocks
<1>6. ASSUME ~ blind
      PROVE  Sound'
  <2>1. HandsApart /\ GuardsTold /\ DamageOwed /\ ListOK /\ RestOK /\ AccusedOK
    BY <1>6 DEF IInv, Sound
  <2>2. Handling(t) /\ b \notin held
    BY <1>0, <1>2, <2>1 DEF Handling, HandsApart
  <2>3. /\ b \in InHand /\ InHand' = InHand \ {b} /\ b \in Settling /\ Settling' = Settling \ {b}
    BY <1>0, <1>2, <1>3, <2>1, <2>2, CallStep, HandsHere DEF InHands, Settles
  <2>4. /\ Available' = Available \cup {b} /\ Listed' = Listed \cup {b}
        /\ b \notin Available /\ Available \subseteq Blocks
    BY <1>0, <1>2, <2>2, <2>3 DEF Available, Listed, Blocks
  <2>5. link'[b] = head /\ \A c \in Blocks \ {b} : link'[c] = link[c]
    BY <1>0, <1>1, <1>2 DEF TypeOK
  <2>6. HandsApart'
    <3>1. \A u \in Threads : Handling(u)' => Handling(u) /\ blk'[u] = blk[u]
      BY <1>3 DEF Handling
    <3> QED BY <1>0, <2>1, <3>1 DEF HandsApart
  <2>7. GuardsTold'
    <3>1. \A u \in Threads : pc'[u] = "push" => pc[u] = "push" /\ blk'[u] = blk[u]
      BY <1>3
    <3>2. guard[b] = "freed" /\ poison[b]
      BY <1>0, <1>2, <2>1 DEF GuardsTold
    <3> QED BY <1>0, <2>1, <2>4, <3>1, <3>2 DEF GuardsTold, damage
  <2>8. DamageOwed' /\ AccusedOK'
    BY <1>0, <2>1, <2>4 DEF DamageOwed, AccusedOK, damage
  <2>9. ListOK'
    <3>1. PICK S \in SUBSET Available :
             /\ Chain(link, head, S)
             /\ ~ torn => S = Available /\ head # Wild /\ \A c \in S : link[c] # Wild
      BY <2>1 DEF ListOK
    <3>2. S \in SUBSET Blocks /\ b \in Blocks \ S /\ \A c \in S : link'[c] = link[c]
      BY <1>2, <2>4, <2>5
    <3>3. Chain(link', head, S)
      BY <3>1, <3>2, ChainFrame
    <3>4. Chain(link', b, S \cup {b})
      BY <2>5, <3>2, <3>3, ChainPush
    <3>5. b # Wild
      BY <1>2, Words
    <3>6. Chain(link', head', S \cup {b})
      BY <1>0, <3>4
    <3>7. ~ torn' => /\ S \cup {b} = Available' /\ head' # Wild
                     /\ \A c \in S \cup {b} : link'[c] # Wild
      BY <1>0, <2>4, <2>5, <3>1, <3>2, <3>5 DEF damage
    <3>8. S \cup {b} \in SUBSET Available'
      BY <2>4
    <3> QED BY <3>6, <3>7, <3>8 DEF ListOK
  <2>10. RestOK'
    BY <1>0 DEF RestOK
  <2>11. WalkOK'
    BY <1>0, <1>1, WalkIdle DEF ThreadsOK, walk
  <2> QED BY <2>6, <2>7, <2>8, <2>9, <2>10, <2>11 DEF Sound
<1> QED BY <1>0, <1>4, <1>5, <1>6 DEF IInv, damage

-----------------------------------------------------------------------------
(* Every step. *)

(* Every step preserves the invariant. *)
LEMMA NextInvariant == IInv /\ [Next]_vars => IInv'
<1> SUFFICES ASSUME IInv, [Next]_vars PROVE IInv'
  OBVIOUS
<1>0. handler \in {"abort", "record"}
  BY DEF IInv, TypeOK
<1>1. CASE Alloc
  BY <1>1, AllocStep
<1>2. CASE AllocRefused
  BY <1>0, <1>2, SetHandlerStep DEF AllocRefused, vars
<1>3. ASSUME NEW t \in Threads, Call(t) PROVE IInv'
  <2>1. CASE PopLoad(t) \/ PopReveal(t) \/ PopRetry(t)
    BY <2>1, PopSearchStep
  <2>2. CASE PopCas(t)
    BY <2>2, PopCasStep
  <2>3. CASE OnAlloc(t)
    BY <2>3, OnAllocStep
  <2>4. CASE FreeStamp(t)
    BY <2>4, FreeStampStep
  <2>5. CASE FreePublish(t)
    BY <2>5, FreePublishStep
  <2>6. CASE \E b \in Blocks : FreeBegin(t, b)
    BY <2>6, FreeBeginStep
  <2> QED BY <1>3, <2>1, <2>2, <2>3, <2>4, <2>5, <2>6 DEF Call
<1>4. ASSUME NEW b \in Blocks, Free(b) PROVE IInv'
  BY <1>4, FreeStep
<1>5. ASSUME NEW b \in Blocks, ClientWrite(b) PROVE IInv'
  BY <1>5, ClientWriteStep
<1>6. ASSUME NEW b \in Blocks, DoubleFree(b) PROVE IInv'
  <2>1. /\ Misuse(b) /\ b \notin held /\ blind' = (blind \/ on_free_accepts(b))
        /\ \/ policy = "locked" /\ Push(b)
           \/ policy = "lockfree" /\ \E t \in Threads : FreeCheck(t, b)
    BY <1>6 DEF DoubleFree, Locked, LockFree
  <2>2. CASE policy = "locked" /\ Push(b)
    BY <2>1, <2>2, DoubleFreeLockedStep
  <2>3. CASE policy = "lockfree" /\ \E t \in Threads : FreeCheck(t, b)
    BY <2>1, <2>3, DoubleFreeCheckedStep
  <2> QED BY <2>1, <2>2, <2>3
<1>7. ASSUME NEW b \in Blocks, NEW where \in {"overflow", "guard", "payload", "link"},
             WildWrite(b, where)
      PROVE  IInv'
  BY <1>7, WildWriteStep
<1>8. CASE WalkBegin
  BY <1>8, WalkBeginStep
<1>9. CASE WalkNext
  BY <1>9, WalkNextStep
<1>10. ASSUME NEW h \in {"nullptr", "record"}, SetHandler(h) PROVE IInv'
  BY <1>10, SetHandlerStep DEF SetHandler
<1>11. CASE UNCHANGED vars
  BY <1>0, <1>11, SetHandlerStep DEF vars
<1> QED BY <1>1, <1>2, <1>3, <1>4, <1>5, <1>6, <1>7, <1>8, <1>9, <1>10, <1>11 DEF Next

-----------------------------------------------------------------------------
(* The invariant, and what it implies, for every number of threads, blocks and
   faults and every choice of builds. *)

(* Guards, poison, links and the blocks in hand agree with each other after every
   history of calls and misuse, until a second free goes unnoticed. *)
THEOREM Invariance == Spec => []IInv
BY InitInvariant, NextInvariant, PTL DEF Spec

(* Every variable keeps its type; the head is an address that is no block's only
   after a link was overwritten, or a second free went unnoticed. *)
THEOREM TypeCorrect == Spec => []TypeOK
<1>1. IInv => TypeOK
  BY DEF IInv
<1> QED BY <1>1, Invariance, PTL

(* on_alloc, on_free and read_next report only blocks that were misused. *)
THEOREM NoFalseAlarm == Spec => []ReportsJustified
<1>1. IInv => ReportsJustified
  BY DEF IInv, Sound, AccusedOK, ReportsJustified
<1> QED BY <1>1, Invariance, PTL

(* Until a second free goes unnoticed, the free list consists of the blocks that
   are available, each once; once a link was overwritten, of some of them. *)
THEOREM MisuseContained == Spec => []FreeListContained
<1>1. IInv => FreeListContained
  <2> SUFFICES ASSUME IInv, ~ blind
               PROVE  IF torn THEN \E S \in SUBSET Available : Chain(link, head, S)
                              ELSE ListsExactly(head, link, Available)
    BY DEF FreeListContained
  <2>1. ListOK
    BY DEF IInv, Sound
  <2>2. torn => \E S \in SUBSET Available : Chain(link, head, S)
    BY <2>1 DEF ListOK
  <2>3. ~ torn => ListsExactly(head, link, Available)
    BY <2>1, ListPlain
  <2> QED BY <2>2, <2>3
<1> QED BY <1>1, Invariance, PTL

(* The report of a second free precedes the stamp of its block. *)
LEMMA RefusalsTold == Spec => []RefusedTold
<1>1. Init => RefusedTold
  BY DEF Init, RefusedTold
<1>2. ASSUME TypeOK, RefusedTold, [Next]_vars PROVE RefusedTold'
  <2>1. ASSUME accused \subseteq accused', erased' \subseteq erased,
               \A t \in Threads : pc'[t] = "restamp" => pc[t] = "restamp" /\ blk'[t] = blk[t]
        PROVE  RefusedTold'
    BY <1>2, <2>1 DEF RefusedTold
  <2>2. ASSUME NEW b \in Blocks, Push(b) PROVE RefusedTold'
    <3>1. report(on_free_reports(b)) /\ UNCHANGED threads
      BY <2>2 DEF Push
    <3>2. accused \subseteq accused' /\ (guard[b] = "freed" => b \in accused')
      BY <3>1, ReportedFree
    <3>3. \A o \in erased' : o \in erased \/ (guard[b] = "freed" /\ o[2] = b)
      BY <2>2 DEF Push, Traces, on_free_accepts, read_guard
    <3> QED BY <1>2, <3>1, <3>2, <3>3 DEF RefusedTold, threads
  <2>3. ASSUME NEW b \in Blocks, NEW t \in Threads, FreeCheck(t, b) PROVE RefusedTold'
    <3>1. /\ report(on_free_reports(b)) /\ blk' = [blk EXCEPT ![t] = b] /\ erased' = erased
          /\ pc' = [pc EXCEPT ![t] = IF on_free_accepts(b) THEN "stamp" ELSE "restamp"]
      BY <2>3 DEF FreeCheck, Goto
    <3>2. accused \subseteq accused' /\ (guard[b] = "freed" => b \in accused')
      BY <3>1, ReportedFree
    <3>3. /\ pc'[t] = "restamp" => guard[b] = "freed" /\ blk'[t] = b
          /\ \A u \in Threads \ {t} : pc'[u] = pc[u] /\ blk'[u] = blk[u]
      BY <1>2, <3>1 DEF TypeOK, on_free_accepts, read_guard
    <3> QED BY <1>2, <3>1, <3>2, <3>3 DEF RefusedTold
  <2>4. ASSUME NEW t \in Threads, FreeStamp(t) PROVE RefusedTold'
    <3>1. /\ accused' = accused
          /\ \A u \in Threads : pc'[u] = "restamp" => pc[u] = "restamp" /\ blk'[u] = blk[u]
      BY <1>2, <2>4 DEF FreeStamp, Goto, Return, TypeOK
    <3>2. \A o \in erased' : o \in erased \/ (pc[t] = "restamp" /\ o[2] = blk[t])
      BY <2>4 DEF FreeStamp, Traces
    <3> QED BY <1>2, <3>1, <3>2 DEF RefusedTold
  <2>5. ASSUME NEW t \in Threads,
               PopLoad(t) \/ PopReveal(t) \/ PopCas(t) \/ PopRetry(t) \/ FreePublish(t)
        PROVE  RefusedTold'
    <3>1. UNCHANGED <<accused, damage>>
      BY <2>5 DEF PopLoad, PopReveal, PopCas, PopRetry, FreePublish
    <3>2. \A u \in Threads : pc'[u] = "restamp" => pc[u] = "restamp" /\ blk'[u] = blk[u]
      BY <1>2, <2>5 DEF PopLoad, PopReveal, PopCas, PopRetry, FreePublish, Snapshot, Goto, Return, TypeOK
    <3> QED BY <2>1, <3>1, <3>2 DEF damage
  <2>6. ASSUME NEW t \in Threads, OnAlloc(t) PROVE RefusedTold'
    <3>1. report(on_alloc_reports(blk[t])) /\ UNCHANGED damage
      BY <2>6 DEF OnAlloc
    <3>2. \A u \in Threads : pc'[u] = "restamp" => pc[u] = "restamp" /\ blk'[u] = blk[u]
      BY <1>2, <2>6 DEF OnAlloc, Goto, Return, TypeOK
    <3>3. accused \subseteq accused'
      BY <3>1, Owed
    <3> QED BY <2>1, <3>1, <3>2, <3>3 DEF damage
  <2>7. CASE Alloc \/ WalkNext
    <3>1. UNCHANGED <<threads, damage>> /\ accused \subseteq accused'
      BY <2>7, Owed DEF Alloc, WalkNext
    <3> QED BY <2>1, <3>1 DEF threads, damage
  <2>8. CASE \/ AllocRefused \/ WalkBegin \/ UNCHANGED vars
             \/ \E h \in {"nullptr", "record"} : SetHandler(h)
             \/ \E b \in Blocks : ClientWrite(b)
    <3>1. UNCHANGED <<threads, accused, damage>>
      BY <2>8 DEF AllocRefused, WalkBegin, SetHandler, ClientWrite, vars
    <3> QED BY <2>1, <3>1 DEF threads, damage
  <2>9. ASSUME NEW b \in Blocks, NEW where \in {"overflow", "guard", "payload", "link"},
               WildWrite(b, where)
        PROVE  RefusedTold'
    <3>1. UNCHANGED <<threads, accused>> /\ erased' \subseteq erased
      BY <2>9 DEF WildWrite
    <3> QED BY <2>1, <3>1 DEF threads
  <2>10. ASSUME NEW b \in Blocks, Free(b) \/ DoubleFree(b) PROVE RefusedTold'
    <3>1. Push(b) \/ \E t \in Threads : FreeCheck(t, b)
      BY <2>10 DEF Free, DoubleFree
    <3> QED BY <2>2, <2>3, <3>1
  <2>11. ASSUME NEW t \in Threads, Call(t) PROVE RefusedTold'
    <3>1. (\E b \in Blocks : FreeBegin(t, b)) => \E b \in Blocks : FreeCheck(t, b)
      BY DEF FreeBegin
    <3> QED BY <2>3, <2>4, <2>5, <2>6, <2>11, <3>1 DEF Call
  <2> QED BY <1>2, <2>7, <2>8, <2>9, <2>10, <2>11 DEF Next
<1> QED BY <1>1, <1>2, TypeCorrect, PTL DEF Spec

(* Damage is found by the next call that checks its block, unless a second free
   that was reported has removed its traces, and whatever else was reported. *)
THEOREM NoDamageOutlived == Spec => []DamageReported
<1>1. IInv /\ RefusedTold => DamageReported
  <2> SUFFICES ASSUME IInv, RefusedTold, ~ blind
               PROVE  /\ \A o \in owed \ erased :
                            CASE o[1] = "overflow" -> o[2] \in held
                              [] o[1] = "link" /\ policy = "lockfree" -> TRUE
                              [] OTHER -> o[2] \in Available \cup InHand
                      /\ \A o \in erased : o[2] \in accused
    BY DEF DamageReported
  <2>1. ASSUME NEW o \in owed \ erased
        PROVE  CASE o[1] = "overflow" -> o[2] \in held
                 [] o[1] = "link" /\ policy = "lockfree" -> TRUE
                 [] OTHER -> o[2] \in Available \cup InHand
    <3>1. /\ o[1] \in {"overflow", "guard", "payload", "link"} /\ o[2] \in Blocks
          /\ policy \in {"locked", "lockfree"}
      BY HardenedAssumption DEF IInv, TypeOK
    <3>2. /\ o[1] = "overflow" => o[2] \in held
          /\ o[1] \in {"guard", "payload"} => o[2] \in Listed
          /\ o[1] = "link" /\ policy = "locked" => o[2] \notin held
      BY DEF IInv, Sound, DamageOwed
    <3>3. o[2] \notin held => o[2] \in Available \cup InHand
      BY <3>1 DEF Available
    <3> QED BY <3>1, <3>2, <3>3 DEF Listed
  <2> QED BY <2>1 DEF RefusedTold
<1> QED BY <1>1, Invariance, RefusalsTold, PTL

(* A walk visits each free slot once and as many as were counted, although
   blocks are returned and vended on its way. *)
THEOREM WalkComplete == Spec => WalkExact
<1>1. IInv /\ [Next]_vars =>
         [WalkNext /\ faults = 0 =>
            /\ cursor \in Available \ seen
            /\ cursor' = NULL => Cardinality(seen') = counted]_vars
  <2> SUFFICES ASSUME IInv, WalkNext, faults = 0
               PROVE  /\ cursor \in Available \ seen
                      /\ cursor' = NULL => Cardinality(seen') = counted
    OBVIOUS
  <2>1. TypeOK /\ WalkOK
    BY DEF IInv, FaultsOK, Sound
  <2>2. cursor \in Blocks /\ seen' = seen \cup {cursor} /\ cursor' = link[cursor]
    BY DEF WalkNext, memory_pool_debug_free_list_next, reveal_next
  <2>3. PICK S \in SUBSET (Available \ seen) :
           ListsExactly(cursor, link, S) /\ Cardinality(S) + Cardinality(seen) = counted
    BY <2>1, <2>2 DEF WalkOK
  <2>4. IsFiniteSet(S) /\ IsFiniteSet(seen) /\ NULL \notin S /\ cursor # NULL
    BY <2>1, <2>2, Words, FS_Subset DEF Available, TypeOK
  <2>5. cursor \in S /\ ListsExactly(link[cursor], link, S \ {cursor})
    BY <2>3, <2>4, ListHead, ListPop
  <2>6. cursor \in Available \ seen
    BY <2>3, <2>5
  <2>7. /\ Cardinality(S) \in Nat /\ Cardinality(seen) \in Nat
        /\ Cardinality(S \ {cursor}) = Cardinality(S) - 1
        /\ Cardinality(seen \cup {cursor}) = Cardinality(seen) + 1
    BY <2>4, <2>5, <2>6, FS_RemoveElement, FS_AddElement, FS_CardinalityType
  <2>8. ASSUME cursor' = NULL PROVE Cardinality(seen') = counted
    <3>1. IsFiniteSet(S \ {cursor}) /\ NULL \notin S \ {cursor}
      BY <2>4, FS_Subset
    <3>2. S \ {cursor} = {}
      BY <2>2, <2>5, <2>8, <3>1, ListHead
    <3>3. Cardinality(S \ {cursor}) = 0
      BY <3>2, FS_EmptySet
    <3> QED BY <2>2, <2>3, <2>7, <3>3
  <2> QED BY <2>6, <2>8
<1> QED BY <1>1, Invariance, PTL DEF Spec, WalkExact
=============================================================================
