---------------------------- MODULE HardenedPool ----------------------------
(***************************************************************************)
(* memory_pool.cpp built with PBR_MEMORY_POOL_HARDENING: the guard word,   *)
(* the poisoned payload and the masked link of every slot, what is checked *)
(* when a block is vended or returned, and clients that misuse blocks.     *)
(* NULL and foreign pointers, and growth, are left to MemoryPool.          *)
(*                                                                         *)
(* Under a lock (or with one thread) a call is one step.  Under LOCKFREE a *)
(* pop is load, reveal, CAS, checks; a push is check, stamp, publish: the  *)
(* checks are outside the CAS.  That publishing is atomic, and that a CAS  *)
(* succeeds only if no other did since its snapshot, is what LockFreePool  *)
(* shows within NoTagWrap.                                                 *)
(***************************************************************************)
EXTENDS FreeList

CONSTANTS Threads,      \* threads of the lock-free build
          N,            \* block_count
          Policies,     \* the builds to check: "locked", "lockfree"
          MaxFaults     \* bound: how often the clients break the contract

ASSUME HardenedAssumption ==
    /\ N \in Nat \ {0} /\ MaxFaults \in Nat
    /\ Policies \subseteq {"locked", "lockfree"}

Blocks == 1 .. N
Wild == N + 1           \* what an overwritten link is revealed as: a misaligned address

VARIABLES policy,       \* PBR_MEMORY_POOL_THREAD_SAFETY, chosen when the library is built
          handler,      \* the violation handler: "abort" (the default) or "record" (returns)
          aborted,
          head,
          link, guard, poison,      \* of each slot: revealed link, guard word, is the payload poison?
          held,         \* the blocks the clients own
          pc, blk, val, \* per thread: next step, block at hand, link revealed
          fresh,        \* per thread: no CAS succeeded since its snapshot of the head
          cursor, seen, counted,    \* a diagnostic walk: iterator, visited slots, free_count
          accused,      \* history: the blocks the handler was told of
          owed,         \* history: damage done and not reported yet, as <<where, block>>
          erased,       \* history: the damage whose traces a refused second free removed
          guilty,       \* history: the blocks that were misused
          blind,        \* history: a second free was not recognised, or stamped a block in use
          torn,         \* history: a link was overwritten
          faults        \* how often the contract was broken

slots == <<link, guard, poison>>
threads == <<pc, blk, val, fresh>>
walk == <<cursor, seen, counted>>
damage == <<erased, guilty, blind, torn, faults>>
vars == <<policy, handler, aborted, head, slots, held, threads, walk, accused, owed, damage>>

Running == ~ aborted
Locked == Running /\ policy = "locked"
LockFree == Running /\ policy = "lockfree"

Goto(t, label) == pc' = [pc EXCEPT ![t] = label]
Return(t) == Goto(t, "idle") /\ blk' = [blk EXCEPT ![t] = NULL]

(* The slots on the free list: neither owned, nor in the hands of a call. *)
InHand == {blk[t] : t \in {u \in Threads : pc[u] \in {"onalloc", "stamp", "push"}}}
Available == Blocks \ (held \cup InHand)

(* initialize_free_list with on_init_slot *)
Init ==
    /\ policy \in Policies
    /\ handler = "abort" /\ aborted = FALSE
    /\ head = 1
    /\ link = initialize_free_list([b \in Blocks |-> NULL], 1, 1, N)
    /\ guard = [b \in Blocks |-> "freed"]
    /\ poison = [b \in Blocks |-> TRUE]
    /\ held = {}
    /\ pc = [t \in Threads |-> "idle"]
    /\ blk = [t \in Threads |-> NULL]
    /\ val = [t \in Threads |-> NULL]
    /\ fresh = [t \in Threads |-> FALSE]
    /\ cursor = NULL /\ seen = {} /\ counted = 0
    /\ accused = {} /\ owed = {} /\ erased = {} /\ guilty = {}
    /\ blind = FALSE /\ torn = FALSE /\ faults = 0

-----------------------------------------------------------------------------
(* report calls the handler; the default one does not return, and what the call
   would have gone on to do is then of no consequence.  What a check has found is
   named for the damage: "overflow" is HARDENING_OVERFLOW, "payload" is
   HARDENING_USE_AFTER_FREE, "guard" and "link" are HARDENING_FREELIST_CORRUPTION;
   each answers for that damage and no other. *)
default_hardening_violation_handler(told) == aborted' = (told # {} /\ handler = "abort")

report(told) ==
    /\ accused' = accused \cup {r[2] : r \in told}
    /\ default_hardening_violation_handler(told)
    /\ owed' = owed \ told

SetHandler(h) ==
    /\ Running
    /\ handler' = IF h = "nullptr" THEN "abort" ELSE h
    /\ UNCHANGED <<policy, aborted, head, slots, held, threads, walk, accused, owed, damage>>

(* What is stored in a slot, unmasked and masked; xor_link is its own inverse. *)
reveal_next(b) == link[b]
write_next(b, next) == link' = [link EXCEPT ![b] = next]
read_guard(b) == guard[b]
write_guard(b, word) == guard' = [guard EXCEPT ![b] = word]
payload_is_poison(b) == poison[b]
poison_payload(b) == poison' = [poison EXCEPT ![b] = TRUE]

(* read_next: reveal the link of slot b and complain if it is misaligned. *)
read_next_reports(b) == IF reveal_next(b) = Wild THEN {<<"link", b>>} ELSE {}

on_alloc_reports(b) ==
    (IF read_guard(b) # "freed" THEN {<<"guard", b>>} ELSE {})
        \cup (IF payload_is_poison(b) THEN {} ELSE {<<"payload", b>>})

(* Mutant: a free that finds the guard smashed is taken for a second free. *)
on_free_accepts_intact(b) == read_guard(b) = "allocated"

(* on_free: should the block be enqueued?  What is reported? *)
on_free_accepts(b) == read_guard(b) # "freed"

on_free_reports(b) ==
    CASE read_guard(b) = "freed"     -> {<<"double-free", b>>}
      [] read_guard(b) = "allocated" -> {}
      [] OTHER                       -> {<<"overflow", b>>}

Stamp(b) == poison_payload(b) /\ write_guard(b, "freed")

(* The traces that the stamp of a refused block removes. *)
Traces(b) == owed \cap {<<"payload", b>>, <<"guard", b>>}

-----------------------------------------------------------------------------
(* SingleThreadedPolicy and MutexPolicy *)

(* Mutant: on_alloc is called for a growth only. *)
AllocUnchecked ==
    /\ Locked
    /\ head \in Blocks
    /\ report(read_next_reports(head))
    /\ head' = reveal_next(head)
    /\ write_guard(head, "allocated")
    /\ held' = held \cup {head}
    /\ cursor' = IF cursor = head THEN NULL ELSE cursor
    /\ seen' = IF cursor = head THEN {} ELSE seen
    /\ UNCHANGED <<policy, handler, link, poison, threads, counted, damage>>

(* pop_head.  A walk whose slot is vended is abandoned. *)
Alloc ==
    /\ Locked
    /\ head \in Blocks
    /\ report(read_next_reports(head) \cup on_alloc_reports(head))
    /\ head' = reveal_next(head)
    /\ write_guard(head, "allocated")
    /\ held' = held \cup {head}
    /\ cursor' = IF cursor = head THEN NULL ELSE cursor
    /\ seen' = IF cursor = head THEN {} ELSE seen
    /\ UNCHANGED <<policy, handler, link, poison, threads, counted, damage>>

AllocRefused ==
    /\ Running
    /\ head = NULL
    /\ UNCHANGED vars

(* push_head *)
Push(b) ==
    /\ report(on_free_reports(b))
    /\ Stamp(b)
    /\ IF on_free_accepts(b)
       THEN write_next(b, head) /\ head' = b /\ UNCHANGED erased
       ELSE erased' = erased \cup Traces(b) /\ UNCHANGED <<link, head>>
    /\ held' = held \ {b}
    /\ UNCHANGED <<policy, handler, threads, walk, torn>>

Free(b) ==
    /\ Locked
    /\ b \in held
    /\ Push(b)
    /\ UNCHANGED <<guilty, blind, faults>>

-----------------------------------------------------------------------------
(* LockFreePolicy::pop_head *)

Snapshot(t) ==
    /\ blk' = [blk EXCEPT ![t] = head]
    /\ fresh' = [fresh EXCEPT ![t] = TRUE]
    /\ Goto(t, "reveal")

PopLoad(t) ==
    /\ LockFree
    /\ pc[t] = "idle" /\ head \in Blocks
    /\ Snapshot(t)
    /\ UNCHANGED <<policy, handler, aborted, head, slots, held, val, walk, accused, owed, damage>>

(* Mutant: read_next instead of reveal_next. *)
PopRevealChecked(t) ==
    /\ LockFree
    /\ pc[t] = "reveal"
    /\ report(read_next_reports(blk[t]))
    /\ val' = [val EXCEPT ![t] = reveal_next(blk[t])]
    /\ Goto(t, "cas")
    /\ UNCHANGED <<policy, handler, head, slots, held, blk, fresh, walk, damage>>

(* reveal_next, unchecked: the slot may be another client's by now. *)
PopReveal(t) ==
    /\ LockFree
    /\ pc[t] = "reveal"
    /\ val' = [val EXCEPT ![t] = reveal_next(blk[t])]
    /\ Goto(t, "cas")
    /\ UNCHANGED <<policy, handler, aborted, head, slots, held, blk, fresh, walk, accused, owed, damage>>

(* Mutant: the CAS does not notice that the head was changed and changed back. *)
PopCasStale(t) ==
    /\ LockFree
    /\ pc[t] = "cas" /\ head = blk[t]
    /\ head' = val[t]
    /\ fresh' = [u \in Threads |-> FALSE]
    /\ val' = [val EXCEPT ![t] = NULL]
    /\ Goto(t, "onalloc")
    /\ UNCHANGED <<policy, handler, aborted, slots, held, blk, walk, accused, owed, damage>>

PopCas(t) ==
    /\ LockFree
    /\ pc[t] = "cas" /\ fresh[t]
    /\ head' = val[t]
    /\ fresh' = [u \in Threads |-> FALSE]
    /\ val' = [val EXCEPT ![t] = NULL]
    /\ Goto(t, "onalloc")
    /\ UNCHANGED <<policy, handler, aborted, slots, held, blk, walk, accused, owed, damage>>

(* The CAS fails and has reloaded the head. *)
PopRetry(t) ==
    /\ LockFree
    /\ pc[t] = "cas" /\ ~ fresh[t]
    /\ \/ head \in Blocks /\ Snapshot(t)
       \/ head = NULL /\ Return(t) /\ UNCHANGED fresh
    /\ val' = [val EXCEPT ![t] = NULL]
    /\ UNCHANGED <<policy, handler, aborted, head, slots, held, walk, accused, owed, damage>>

OnAlloc(t) ==
    /\ LockFree
    /\ pc[t] = "onalloc"
    /\ report(on_alloc_reports(blk[t]))
    /\ write_guard(blk[t], "allocated")
    /\ held' = held \cup {blk[t]}
    /\ Return(t)
    /\ UNCHANGED <<policy, handler, head, link, poison, val, fresh, walk, damage>>

-----------------------------------------------------------------------------
(* LockFreePolicy::push_head.  on_free reads the guard ... *)
FreeCheck(t, b) ==
    /\ pc[t] = "idle"
    /\ report(on_free_reports(b))
    /\ blk' = [blk EXCEPT ![t] = b]
    /\ Goto(t, IF on_free_accepts(b) THEN "stamp" ELSE "restamp")
    /\ held' = held \ {b}
    /\ UNCHANGED <<policy, handler, head, slots, val, fresh, walk, erased, torn>>

FreeBegin(t, b) ==
    /\ LockFree
    /\ b \in held
    /\ FreeCheck(t, b)
    /\ UNCHANGED <<guilty, blind, faults>>

(* ... and then poisons and stamps, also a block that it refuses: that may have
   been vended since it was checked, or damaged. *)
FreeStamp(t) ==
    /\ LockFree
    /\ pc[t] \in {"stamp", "restamp"}
    /\ Stamp(blk[t])
    /\ IF pc[t] = "stamp"
       THEN Goto(t, "push") /\ UNCHANGED <<blk, erased, blind>>
       ELSE /\ Return(t)
            /\ erased' = erased \cup Traces(blk[t])
            /\ blind' = (blind \/ blk[t] \in held)
    /\ UNCHANGED <<policy, handler, aborted, head, link, held, val, fresh, walk, accused, owed,
                   guilty, torn, faults>>

(* The loop of push_head, at the CAS that succeeds. *)
FreePublish(t) ==
    /\ LockFree
    /\ pc[t] = "push"
    /\ write_next(blk[t], head)
    /\ head' = blk[t]
    /\ fresh' = [u \in Threads |-> FALSE]
    /\ Return(t)
    /\ UNCHANGED <<policy, handler, aborted, guard, poison, held, val, walk, accused, owed, damage>>

-----------------------------------------------------------------------------
(* The clients.  A client fills a block it owns, *)
ClientWrite(b) ==
    /\ Running
    /\ b \in held
    /\ link' = [link EXCEPT ![b] = Wild]
    /\ poison' = [poison EXCEPT ![b] = FALSE]
    /\ UNCHANGED <<policy, handler, aborted, head, guard, held, threads, walk, accused, owed, damage>>

(* or writes where it must not: past the end of its block, or to the guard, the
   payload or the link of a block it has returned. *)
Misuse(b) == faults < MaxFaults /\ faults' = faults + 1 /\ guilty' = guilty \cup {b}

WildWrite(b, where) ==
    /\ Running
    /\ Misuse(b)
    /\ b \in (IF where = "overflow" THEN held ELSE Available)
    /\ CASE where = "link"    -> link' = [link EXCEPT ![b] = Wild] /\ UNCHANGED <<guard, poison>>
         [] where = "payload" -> poison' = [poison EXCEPT ![b] = FALSE] /\ UNCHANGED <<link, guard>>
         [] OTHER             -> guard' = [guard EXCEPT ![b] = "smashed"] /\ UNCHANGED <<link, poison>>
    /\ owed' = owed \cup {<<where, b>>}
    /\ erased' = erased \ {<<where, b>>}
    /\ torn' = (torn \/ where = "link")
    /\ UNCHANGED <<policy, handler, aborted, head, held, threads, walk, accused, blind>>

(* It returns a block that it, or another client, has returned already. *)
DoubleFree(b) ==
    /\ Misuse(b)
    /\ b \notin held
    /\ blind' = (blind \/ on_free_accepts(b))
    /\ \/ Locked /\ Push(b)
       \/ LockFree /\ \E t \in Threads : FreeCheck(t, b)

-----------------------------------------------------------------------------
(* The diagnostic walk of a list that nobody is changing. *)
memory_pool_debug_free_list_head == head

memory_pool_debug_free_list_next(b) == reveal_next(b)

memory_pool_debug_free_count ==
    LET slot[i \in 0 .. N] ==
            IF i = 0 THEN memory_pool_debug_free_list_head
            ELSE IF slot[i - 1] \in Blocks THEN link[slot[i - 1]] ELSE NULL
    IN  Cardinality({i \in 0 .. N : slot[i] # NULL})

(* FreeListView::begin, and memory_pool_debug_free_count to compare with. *)
WalkBegin ==
    /\ Locked /\ faults = 0
    /\ cursor' = memory_pool_debug_free_list_head
    /\ seen' = {}
    /\ counted' = memory_pool_debug_free_count
    /\ UNCHANGED <<policy, handler, aborted, head, slots, held, threads, accused, owed, damage>>

(* Mutant: the walk stops at the slot whose link is NULL. *)
WalkNextShort ==
    /\ Locked
    /\ cursor \in Blocks
    /\ report(read_next_reports(cursor))
    /\ seen' = IF link[cursor] = NULL THEN seen ELSE seen \cup {cursor}
    /\ cursor' = link[cursor]
    /\ UNCHANGED <<policy, handler, head, slots, held, threads, counted, damage>>

(* operator++; meanwhile blocks may be vended and returned, as long as the slot
   under the iterator stays free. *)
WalkNext ==
    /\ Locked
    /\ cursor \in Blocks
    /\ report(read_next_reports(cursor))
    /\ seen' = seen \cup {cursor}
    /\ cursor' = memory_pool_debug_free_list_next(cursor)
    /\ UNCHANGED <<policy, handler, head, slots, held, threads, counted, damage>>

-----------------------------------------------------------------------------
Call(t) ==
    \/ PopLoad(t) \/ PopReveal(t) \/ PopCas(t) \/ PopRetry(t) \/ OnAlloc(t)
    \/ FreeStamp(t) \/ FreePublish(t)
    \/ \E b \in Blocks : FreeBegin(t, b)

Next ==
    \/ Alloc \/ AllocRefused
    \/ \E t \in Threads : Call(t)
    \/ \E b \in Blocks :
          \/ Free(b) \/ ClientWrite(b) \/ DoubleFree(b)
          \/ \E where \in {"overflow", "guard", "payload", "link"} : WildWrite(b, where)
    \/ WalkBegin \/ WalkNext
    \/ \E h \in {"nullptr", "record"} : SetHandler(h)

Spec == Init /\ [][Next]_vars

-----------------------------------------------------------------------------
(* Type correctness; a wild link becomes the head only if a client overwrote one. *)
TypeOK ==
    /\ policy \in Policies /\ handler \in {"abort", "record"} /\ aborted \in BOOLEAN
    /\ head \in {NULL} \cup Blocks \cup (IF torn \/ blind THEN {Wild} ELSE {})
    /\ link \in [Blocks -> {NULL, Wild} \cup Blocks]
    /\ guard \in [Blocks -> {"freed", "allocated", "smashed"}] /\ poison \in [Blocks -> BOOLEAN]
    /\ held \subseteq Blocks
    /\ pc \in [Threads -> {"idle", "reveal", "cas", "onalloc", "stamp", "restamp", "push"}]
    /\ blk \in [Threads -> {NULL} \cup Blocks] /\ val \in [Threads -> {NULL, Wild} \cup Blocks]
    /\ fresh \in [Threads -> BOOLEAN]
    /\ cursor \in {NULL, Wild} \cup Blocks /\ seen \subseteq Blocks /\ counted \in 0 .. N + 1
    /\ accused \subseteq Blocks
    /\ owed \subseteq {"overflow", "guard", "payload", "link"} \X Blocks
    /\ erased \subseteq {"guard", "payload"} \X Blocks
    /\ guilty \subseteq Blocks /\ {blind, torn} \subseteq BOOLEAN /\ faults \in 0 .. MaxFaults

(* No false alarm: only blocks that a client misused are reported, so a correct
   program is never stopped; under LOCKFREE too, although a pop reveals the link
   of a slot that another client may have filled (comment at reveal_next).  An
   overwritten link (torn) is inherited by the blocks freed on top of it, and
   after a second free that went unnoticed (blind) nothing is claimed. *)
ReportsJustified == ~ (blind \/ torn) => accused \subseteq guilty

(* A wild word ends the list: what was behind it is not reached any more. *)
Cut(word) == IF word = Wild THEN NULL ELSE word
Chain(l, h, S) == ListsExactly(Cut(h), [b \in Blocks |-> Cut(l[b])], S)

(* With a handler that returns, second frees, overflows and writes after free
   leave the free list exact: a refused block is linked once, a damaged one is
   neither lost nor doubled (the contract at on_free).  A link that was
   overwritten may cut the list short, but whatever happens then, no block that
   is owned or in the hands of a call gets onto it, and none twice.  Excepted
   (blind) is what on_free cannot know: that the block was freed before, if the
   second free overlaps the first under LOCKFREE or the stamp was overwritten;
   and that the block it refused was vended before it is stamped. *)
FreeListContained ==
    ~ blind => IF torn THEN \E S \in SUBSET Available : Chain(link, head, S)
                       ELSE ListsExactly(head, link, Available)

(* No damage outlives the next call that checks its block: an overflow is found
   when the block is returned, a write to a freed payload or guard word when it is
   vended, an overwritten link when it is followed, under a lock.  Damage of one
   kind is not answered by the report of another.  Excepted are overwritten links
   under LOCKFREE, and the damage whose traces were removed by a second free that
   was refused; but then the block was accused.  Nothing is said after a second
   free that on_free did not recognise, or that stamped a block in use. *)
DamageReported ==
    ~ blind =>
        /\ \A o \in owed \ erased :
              CASE o[1] = "overflow" -> o[2] \in held
                [] o[1] = "link" /\ policy = "lockfree" -> TRUE
                [] OTHER -> o[2] \in Available \cup InHand
        /\ \A o \in erased : o[2] \in accused

(* A walk that is not cut off visits each free slot once and as many as
   memory_pool_debug_free_count counted at its beginning, although blocks are
   returned, and vended, while it is on its way (free_list_iterator_test.cpp). *)
WalkExact ==
    [][WalkNext /\ faults = 0 =>
          /\ cursor \in Available \ seen
          /\ cursor' = NULL => Cardinality(seen') = counted]_vars

(* The comment in LockFreePolicy::pop_head: a genuinely corrupt link is caught by
   the guard check of on_alloc once the slot is owned.  So when a link that a
   client overwrote has become the head, and the pop that made it so has done
   its checks, the handler was told. *)
CorruptLinkCaught == head = Wild /\ InHand = {} => accused # {}
=============================================================================
