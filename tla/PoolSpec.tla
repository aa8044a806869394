------------------------------ MODULE PoolSpec ------------------------------
(***************************************************************************)
(* What memory_pool_alloc / memory_pool_free promise to several callers,   *)
(* whatever the thread-safety policy: every block of the pool is at any    *)
(* moment either available, or owned by a client, or on its way back; a    *)
(* call takes effect in one indivisible step between its beginning and its *)
(* return; alloc answers NULL only when nothing is available; a pointer    *)
(* that is not a block of the pool is ignored by free.                     *)
(*                                                                         *)
(* The detailed modules (LockFreePool, MutexPool) are shown to implement   *)
(* this specification.  The order in which blocks are vended is left open: *)
(* the contract of memory_pool.h does not fix it.                          *)
(***************************************************************************)
EXTENDS FiniteSets

CONSTANTS Threads,      \* the callers
          Blocks,       \* the blocks the pool may ever own
          NotBlocks     \* what else a caller may pass to free: NULL, foreign pointers

VARIABLES capacity,     \* the blocks the pool owns at present (it only grows)
          available,    \* the blocks that the next alloc may vend
          held,         \* the blocks the clients own
          call          \* call[t]: the call thread t is in, and free's argument

vars == <<capacity, available, held, call>>

Pointers == Blocks \cup NotBlocks

NoCall    == [op |-> "none"]
AllocCall == [op |-> "alloc"]
FreeCall(p) == [op |-> "free", arg |-> p]

Calls == {NoCall, AllocCall} \cup {FreeCall(p) : p \in Pointers}

Returning == {t \in Threads : call[t].op = "free"}

(* The blocks some thread is giving back right now. *)
InTransit == {call[t].arg : t \in Returning} \cap Blocks

(***************************************************************************)
(* A thread begins a call.  A client frees a block it owns, and stops      *)
(* owning it by doing so (no double free), or a pointer that is no block.  *)
(***************************************************************************)
BeginAlloc(t) ==
    /\ call[t] = NoCall
    /\ call' = [call EXCEPT ![t] = AllocCall]
    /\ UNCHANGED <<capacity, available, held>>

BeginFree(t) ==
    /\ call[t] = NoCall
    /\ \E p \in held \cup NotBlocks :
          /\ held' = held \ {p}
          /\ call' = [call EXCEPT ![t] = FreeCall(p)]
    /\ UNCHANGED <<capacity, available>>

Return(t) == call' = [call EXCEPT ![t] = NoCall]

(* alloc: an available block changes hands. *)
Vend(t) ==
    /\ call[t] = AllocCall
    /\ \E b \in available :
          /\ available' = available \ {b}
          /\ held' = held \cup {b}
    /\ Return(t)
    /\ UNCHANGED capacity

(* alloc: the pool is exhausted, acquires blocks nobody owns, vends one. *)
GrowAndVend(t) ==
    /\ call[t] = AllocCall
    /\ available = {}
    /\ capacity \subseteq capacity'
    /\ capacity' \subseteq Blocks
    /\ \E b \in capacity' \ capacity :
          /\ available' = (capacity' \ capacity) \ {b}
          /\ held' = held \cup {b}
    /\ Return(t)

(* alloc: NULL, and only when nothing is available. *)
Refuse(t) ==
    /\ call[t] = AllocCall
    /\ available = {}
    /\ Return(t)
    /\ UNCHANGED <<capacity, available, held>>

(* free: the block becomes available again. *)
TakeBack(t) ==
    /\ call[t].op = "free"
    /\ call[t].arg \in capacity
    /\ available' = available \cup {call[t].arg}
    /\ Return(t)
    /\ UNCHANGED <<capacity, held>>

(* free: not a block of the pool, nothing happens. *)
Ignore(t) ==
    /\ call[t].op = "free"
    /\ call[t].arg \notin capacity
    /\ Return(t)
    /\ UNCHANGED <<capacity, available, held>>

Init ==
    /\ capacity \subseteq Blocks
    /\ capacity # {}
    /\ available = capacity
    /\ held = {}
    /\ call = [t \in Threads |-> NoCall]

Next ==
    \E t \in Threads :
        \/ BeginAlloc(t) \/ BeginFree(t)
        \/ Vend(t) \/ GrowAndVend(t) \/ Refuse(t)
        \/ TakeBack(t) \/ Ignore(t)

Spec == Init /\ [][Next]_vars
=============================================================================
