---------------------------- MODULE LockFreePool ----------------------------
(***************************************************************************)
(* memory_pool.cpp built with PBR_MEMORY_POOL_THREAD_SAFETY = LOCKFREE: a  *)
(* Treiber stack whose head is a pointer and an ABA tag in one atomic word *)
(* (TaggedHead), and whose links are plain words in the free slots.        *)
(*                                                                         *)
(* One action per access to shared memory: the atomic load of the head,    *)
(* the plain read or write of a slot's link, the compare-and-swap.  The    *)
(* pool is fixed: this policy never grows (ADR-0024), so the foreign-      *)
(* pointer guard of free reads immutable fields only.                      *)
(***************************************************************************)
EXTENDS FreeList

CONSTANTS Threads,      \* the threads that call the pool
          N,            \* block_count_: the slots are 1 .. N in address order
          TagMod,       \* 2^w for the w-bit tag_
          UserData,     \* what a client may leave in the first word of a block
          Spurious      \* may compare_exchange_weak fail although the head matches?

Slots == 1 .. N
Foreign == N + 1                        \* an address outside the backing
Pointers == {NULL, Foreign} \cup Slots  \* what a client passes to free
Word == {NULL} \cup Slots \cup UserData \* what the first word of a slot holds
Tags == 0 .. (TagMod - 1)
Heads == [ptr : {NULL} \cup Slots, tag : Tags]

ASSUME NAssumption == N \in Nat \ {0}
ASSUME TagAssumption == TagMod \in Nat \ {0}
ASSUME SpuriousAssumption == Spurious \in BOOLEAN

VARIABLES head,      \* head_: the only atomic word of the pool
          next,      \* next[s]: the first word of slot s, a link while s is free
          held,      \* the blocks the clients own
          pc,        \* pc[t]: the access thread t is about to make
          expected,  \* expected[t]: its snapshot of the head
          desired,   \* desired[t]: the link it read, ptr_ of the head it wants
          blk,       \* blk[t]: the argument of its free
          lag        \* history: lag[t] successful CASes by others since the snapshot

shared == <<head, next, held>>
vars == <<head, next, held, pc, expected, desired, blk, lag>>

NoHead == [ptr |-> NULL, tag |-> 0]

-----------------------------------------------------------------------------
(* memory_pool_create seeds the free list with the whole backing, and the head
   with the address of its first slot and tag 0. *)
Init ==
    /\ head = [ptr |-> 1, tag |-> 0]
    /\ next = initialize_free_list([s \in Slots |-> NULL], 1, 1, N)
    /\ held = {}
    /\ pc = [t \in Threads |-> "idle"]
    /\ expected = [t \in Threads |-> NoHead]
    /\ desired = [t \in Threads |-> NULL]
    /\ blk = [t \in Threads |-> NULL]
    /\ lag = [t \in Threads |-> 0]

(* Mutant: the tag is never counted up. *)
BumpNever(tag) == tag

Bump(tag) == IF tag = TagMod - 1 THEN 0 ELSE tag + 1    \* tag_ + 1U, w bits wide

HasSnapshot(t) == pc[t] \in {"reveal", "popcas", "link", "pushcas"}

(* is_block_in_range in a fixed pool *)
is_block_in_range(p) == p \in Slots

(***************************************************************************)
(* The compare-and-swap.  It succeeds when pointer AND tag still match.    *)
(*                                                                         *)
(* NoTagWrap is a bound of the model: no snapshot is overtaken by TagMod   *)
(* successful CASes.  The tag of the code is as wide as a pointer.         *)
(***************************************************************************)
NoTagWrap(t) == \A u \in Threads \ {t} : HasSnapshot(u) => lag[u] + 1 < TagMod

(* Mutant: only the pointers are compared. *)
CasComparesPointers(t, ptr) ==
    /\ head.ptr = expected[t].ptr
    /\ NoTagWrap(t)
    /\ head' = [ptr |-> ptr, tag |-> Bump(expected[t].tag)]
    /\ lag' = [u \in Threads |->
                  IF u # t /\ HasSnapshot(u) THEN lag[u] + 1 ELSE 0]

CasSucceeds(t, ptr) ==
    /\ head = expected[t]
    /\ NoTagWrap(t)
    /\ head' = [ptr |-> ptr, tag |-> Bump(expected[t].tag)]
    /\ lag' = [u \in Threads |->
                  IF u # t /\ HasSnapshot(u) THEN lag[u] + 1 ELSE 0]

(* Mutant: a failed CAS leaves expected as it was. *)
CasFailsStale(t) ==
    /\ head # expected[t] \/ Spurious
    /\ UNCHANGED <<expected, lag>>

(* It fails when they differ, or spuriously, and reloads expected. *)
CasFails(t) ==
    /\ head # expected[t] \/ Spurious
    /\ expected' = [expected EXCEPT ![t] = head]
    /\ lag' = [lag EXCEPT ![t] = 0]

Goto(t, label) == pc' = [pc EXCEPT ![t] = label]

(* A call returns: its local variables are gone. *)
Return(t) ==
    /\ Goto(t, "idle")
    /\ expected' = [expected EXCEPT ![t] = NoHead]
    /\ desired' = [desired EXCEPT ![t] = NULL]
    /\ blk' = [blk EXCEPT ![t] = NULL]

-----------------------------------------------------------------------------
(* LockFreePolicy::pop_head *)

AllocBegin(t) ==
    /\ pc[t] = "idle"
    /\ Goto(t, "load")
    /\ UNCHANGED <<head, next, held, expected, desired, blk, lag>>

(* The acquire load finds the head NULL: exhausted. *)
PopLoadEmpty(t) ==
    /\ pc[t] = "load"
    /\ head.ptr = NULL
    /\ Return(t)
    /\ UNCHANGED <<head, next, held, lag>>

PopLoad(t) ==
    /\ pc[t] = "load"
    /\ head.ptr # NULL
    /\ expected' = [expected EXCEPT ![t] = head]
    /\ lag' = [lag EXCEPT ![t] = 0]
    /\ Goto(t, "reveal")
    /\ UNCHANGED <<head, next, held, desired, blk>>

(***************************************************************************)
(* reveal_next: a plain read of a slot the thread does not own.  While no  *)
(* CAS has succeeded since the snapshot the slot is the published head and *)
(* the read sees its link; afterwards it races with the writes of whoever  *)
(* popped the slot, and may return any word.                               *)
(***************************************************************************)
PopReveal(t) ==
    /\ pc[t] = "reveal"
    /\ \E w \in IF lag[t] = 0 THEN {next[expected[t].ptr]} ELSE Word :
          desired' = [desired EXCEPT ![t] = w]
    /\ Goto(t, "popcas")
    /\ UNCHANGED <<head, next, held, expected, blk, lag>>

PopCas(t) ==
    /\ pc[t] = "popcas"
    /\ CasSucceeds(t, desired[t])
    /\ held' = held \cup {expected[t].ptr}
    /\ Return(t)
    /\ UNCHANGED next

(* Mutant: the link is read once, before the loop. *)
PopRetryKeepsLink(t) ==
    /\ pc[t] = "popcas"
    /\ head.ptr # NULL
    /\ CasFails(t)
    /\ UNCHANGED <<head, next, held, blk, desired, pc>>

PopRetry(t) ==
    /\ pc[t] = "popcas"
    /\ head.ptr # NULL
    /\ CasFails(t)
    /\ desired' = [desired EXCEPT ![t] = NULL]
    /\ Goto(t, "reveal")
    /\ UNCHANGED <<head, next, held, blk>>

(* Mutant: a failed CAS is taken for exhaustion. *)
PopGivesUp(t) ==
    /\ pc[t] = "popcas"
    /\ head # expected[t]
    /\ Return(t)
    /\ lag' = [lag EXCEPT ![t] = 0]
    /\ UNCHANGED <<head, next, held>>

(* The reloaded head is NULL: the next iteration answers nullptr. *)
PopRetryEmpty(t) ==
    /\ pc[t] = "popcas"
    /\ head.ptr = NULL
    /\ head # expected[t]
    /\ Return(t)
    /\ lag' = [lag EXCEPT ![t] = 0]
    /\ UNCHANGED <<head, next, held>>

-----------------------------------------------------------------------------
(* free_skeleton and LockFreePolicy::push_head *)

(* A client gives up a block it owns, or passes NULL or a foreign pointer. *)
FreeBegin(t) ==
    /\ pc[t] = "idle"
    /\ \E p \in held \cup {NULL, Foreign} :
          /\ blk' = [blk EXCEPT ![t] = p]
          /\ held' = held \ {p}
    /\ Goto(t, "guard")
    /\ UNCHANGED <<head, next, expected, desired, lag>>

FreeIgnored(t) ==
    /\ pc[t] = "guard"
    /\ blk[t] = NULL \/ ~is_block_in_range(blk[t])
    /\ Return(t)
    /\ UNCHANGED <<head, next, held, lag>>

PushLoad(t) ==
    /\ pc[t] = "guard"
    /\ is_block_in_range(blk[t])
    /\ expected' = [expected EXCEPT ![t] = head]
    /\ lag' = [lag EXCEPT ![t] = 0]
    /\ Goto(t, "link")
    /\ UNCHANGED <<head, next, held, desired, blk>>

(* write_next *)
PushLink(t) ==
    /\ pc[t] = "link"
    /\ next' = [next EXCEPT ![blk[t]] = expected[t].ptr]
    /\ Goto(t, "pushcas")
    /\ UNCHANGED <<head, held, expected, desired, blk, lag>>

PushCas(t) ==
    /\ pc[t] = "pushcas"
    /\ CasSucceeds(t, blk[t])
    /\ Return(t)
    /\ UNCHANGED <<next, held>>

(* Mutant: the block is linked once, before the loop. *)
PushRetryKeepsLink(t) ==
    /\ pc[t] = "pushcas"
    /\ CasFails(t)
    /\ UNCHANGED <<head, next, held, desired, blk, pc>>

PushRetry(t) ==
    /\ pc[t] = "pushcas"
    /\ CasFails(t)
    /\ Goto(t, "link")
    /\ UNCHANGED <<head, next, held, desired, blk>>

-----------------------------------------------------------------------------
(* A client overwrites the first word of a block it owns. *)
ClientWrite ==
    /\ \E b \in held, w \in UserData : next' = [next EXCEPT ![b] = w]
    /\ UNCHANGED <<head, held, pc, expected, desired, blk, lag>>

(* The steps a call takes once begun. *)
Step(t) ==
    \/ PopLoadEmpty(t) \/ PopLoad(t) \/ PopReveal(t)
    \/ PopCas(t) \/ PopRetry(t) \/ PopRetryEmpty(t)
    \/ FreeIgnored(t) \/ PushLoad(t) \/ PushLink(t)
    \/ PushCas(t) \/ PushRetry(t)

Begin(t) == AllocBegin(t) \/ FreeBegin(t)

Next == ClientWrite \/ \E t \in Threads : Begin(t) \/ Step(t)

Spec == Init /\ [][Next]_vars

(* The compare-and-swaps, and those that fail although the head matches. *)
Compares(t) == PopCas(t) \/ PopRetry(t) \/ PopRetryEmpty(t) \/ PushCas(t) \/ PushRetry(t)
FailsSpuriously(t) == (PopRetry(t) \/ PushRetry(t)) /\ head = expected[t]

(* compare_exchange_weak does not fail spuriously for ever: among infinitely many
   spurious failures infinitely many comparisons give a true answer. *)
SpuriousFailuresPass ==
    []<><<\E t \in Threads : FailsSpuriously(t)>>_vars
        => []<><<\E t \in Threads : Compares(t) /\ ~ FailsSpuriously(t)>>_vars

(***************************************************************************)
(* Fairness of the system, not of a thread: while calls are pending, some  *)
(* thread takes a step of its call.  Any one thread may be preempted for   *)
(* ever; lock-freedom is precisely what remains then.                      *)
(***************************************************************************)
FairSpec == Spec /\ WF_vars(\E t \in Threads : Step(t)) /\ SpuriousFailuresPass

-----------------------------------------------------------------------------
(* Type correctness: the head never points outside the pool's slots, so no
   client data ever becomes the head; slots hold links or client data. *)
TypeOK ==
    /\ head \in Heads
    /\ next \in [Slots -> Word]
    /\ held \subseteq Slots
    /\ pc \in [Threads -> {"idle", "load", "reveal", "popcas", "guard", "link", "pushcas"}]
    /\ expected \in [Threads -> Heads]
    /\ desired \in [Threads -> Word]
    /\ blk \in [Threads -> Pointers]
    /\ lag \in [Threads -> Nat]

(* The blocks on their way back to the free list. *)
Freeing(t) == pc[t] \in {"guard", "link", "pushcas"} /\ blk[t] \in Slots
InTransit == {blk[t] : t \in {u \in Threads : Freeing(u)}}
Available == Slots \ (held \cup InTransit)

(* Whatever the threads have done so far, the list reachable from the head is
   finite, without a cycle, and consists of exactly the blocks nobody owns and
   nobody is returning: no block is lost, none is both free and owned
   (concurrency_stress_test.cpp: full recovery, no over-vend). *)
FreeListExact == ListsExactly(head.ptr, next, Available)

(* No two threads are returning the same block, and nobody owns a block that
   is being returned. *)
OwnershipExclusive ==
    \A t \in Threads : Freeing(t) =>
        /\ blk[t] \notin held
        /\ \A u \in Threads \ {t} : Freeing(u) => blk[u] # blk[t]

(* A pop whose CAS is about to succeed installs the current successor of the
   head, although other threads may have popped and pushed the same slot since
   it was read: the tag defeats ABA (TaggedHead, ADR-0020). *)
NoABA ==
    \A t \in Threads : pc[t] = "popcas" /\ head = expected[t]
        => desired[t] = next[head.ptr]

(* A push whose CAS is about to succeed has linked its block to the head. *)
PushLinked ==
    \A t \in Threads : pc[t] = "pushcas" => next[blk[t]] = expected[t].ptr

(* The history variable counts what the tag says, as long as it cannot wrap. *)
TagCounts ==
    \A t \in Threads : HasSnapshot(t) =>
        /\ lag[t] < TagMod
        /\ head.tag = IF expected[t].tag + lag[t] < TagMod
                      THEN expected[t].tag + lag[t]
                      ELSE (expected[t].tag + lag[t]) - TagMod

(* A snapshot nobody has overtaken is the head, and the link read with it is
   the head's link. *)
SnapshotFresh ==
    \A t \in Threads : HasSnapshot(t) /\ lag[t] = 0 =>
        /\ expected[t] = head
        /\ pc[t] = "popcas" => desired[t] = next[head.ptr]

(* A pop that has examined its snapshot knows the pointer is not NULL. *)
SnapshotNonNull ==
    \A t \in Threads : pc[t] \in {"reveal", "popcas"} => expected[t].ptr # NULL

(* Only a block of the pool gets past the guard of free. *)
GuardPassed == \A t \in Threads : pc[t] \in {"link", "pushcas"} => blk[t] \in Slots

(* The inductive invariant. *)
IInv ==
    /\ TypeOK
    /\ FreeListExact
    /\ OwnershipExclusive
    /\ PushLinked
    /\ TagCounts
    /\ SnapshotFresh
    /\ SnapshotNonNull
    /\ GuardPassed

-----------------------------------------------------------------------------
(* The lock-free pool implements PoolSpec: the mapping reads the abstract
   sets off the concrete state, and a call takes effect at its successful CAS
   or at the load that finds the head NULL. *)
CallOf(t) ==
    CASE pc[t] = "idle" -> [op |-> "none"]
      [] pc[t] \in {"load", "reveal", "popcas"} -> [op |-> "alloc"]
      [] OTHER -> [op |-> "free", arg |-> blk[t]]

Abs == INSTANCE PoolSpec WITH
    Blocks    <- Slots,
    NotBlocks <- {NULL, Foreign},
    capacity  <- Slots,
    available <- Available,
    call      <- [t \in Threads |-> CallOf(t)]

(* Every behaviour is one of the abstract pool: exclusive ownership, no block
   vended twice, NULL only on exhaustion, foreign pointers ignored. *)
Linearizable == Abs!Spec

(* Lock-freedom: as long as some call is pending and threads are scheduled,
   calls keep completing; no interleaving makes all of them retry for ever,
   unless the processor fails every compare-and-swap spuriously. *)
Completes == \E t \in Threads : pc[t] # "idle" /\ pc'[t] = "idle"
LockFreedom ==
    \/ []<>(\A t \in Threads : pc[t] = "idle")
    \/ []<><<Completes>>_vars
=============================================================================
