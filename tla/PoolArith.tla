----------------------------- MODULE PoolArith -----------------------------
(***************************************************************************)
(* The size arithmetic of memory_pool.cpp, on size_t values of any width:  *)
(* which requests are accepted, how far apart slots lie, how many bytes    *)
(* are asked of operator new.  Products and sums wrap as size_t does.      *)
(***************************************************************************)
EXTENDS Integers

CONSTANTS SizeMax,          \* the greatest size_t
          PtrBytes,         \* sizeof(void*)
          POOL_ALIGNMENT,   \* alignof(std::max_align_t)
          GuardBytes,       \* sizeof(std::uint64_t), the guard word
          Hardened          \* PBR_MEMORY_POOL_HARDENING

ASSUME SizeAssumption ==
    /\ SizeMax \in Nat /\ PtrBytes \in Nat \ {0} /\ POOL_ALIGNMENT \in Nat \ {0}
    /\ GuardBytes \in Nat
    /\ GuardBytes <= SizeMax /\ POOL_ALIGNMENT <= SizeMax
    /\ Hardened \in BOOLEAN

Sizes == 0 .. SizeMax

Wrap(x) == x % (SizeMax + 1)

is_valid_block_size(block_size) ==
    /\ block_size # 0
    /\ block_size >= PtrBytes
    /\ block_size % POOL_ALIGNMENT = 0

(* Mutant: the greatest product that fits is refused too. *)
would_overflow_inclusive(lhs, rhs) ==
    /\ lhs # 0 /\ rhs # 0
    /\ lhs >= SizeMax \div rhs

would_overflow_product(lhs, rhs) ==
    /\ lhs # 0 /\ rhs # 0
    /\ lhs > SizeMax \div rhs

RoundUp(x) == ((x + POOL_ALIGNMENT - 1) \div POOL_ALIGNMENT) * POOL_ALIGNMENT

(* Mutant: rounded down. *)
typed_block_size_truncates(sizeof_T) ==
    (Wrap(IF sizeof_T < PtrBytes THEN PtrBytes ELSE sizeof_T) \div POOL_ALIGNMENT) * POOL_ALIGNMENT

(* TypedPool::block_size: T, or a pointer if that is larger, rounded up. *)
typed_block_size(sizeof_T) ==
    LET floor == IF sizeof_T < PtrBytes THEN PtrBytes ELSE sizeof_T
    IN  Wrap((Wrap(floor + POOL_ALIGNMENT - 1) \div POOL_ALIGNMENT) * POOL_ALIGNMENT)

(* Mutant: the sums wrap instead of saturating. *)
slot_stride_wraps(block_size) ==
    IF ~Hardened THEN block_size
    ELSE (Wrap(block_size + GuardBytes + POOL_ALIGNMENT - 1) \div POOL_ALIGNMENT) * POOL_ALIGNMENT

(* The distance between slots; hardening adds a guard word and saturates. *)
slot_stride(block_size) ==
    IF ~Hardened THEN block_size
    ELSE IF \/ block_size > SizeMax - GuardBytes
            \/ block_size + GuardBytes > SizeMax - (POOL_ALIGNMENT - 1)
         THEN SizeMax
         ELSE RoundUp(block_size + GuardBytes)

(* memory_pool_create: is operator new called, and for how many bytes? *)
create_accepts(block_size, block_count) ==
    /\ is_valid_block_size(block_size)
    /\ block_count # 0
    /\ ~ would_overflow_product(slot_stride(block_size), block_count)

create_bytes(block_size, block_count) == Wrap(slot_stride(block_size) * block_count)

(* grow_pool: the slots to add to a pool of total slots, and their bytes. *)
grow_add(total, factor) == Wrap(total * (factor - 1))

(* Mutant: the count is computed before it is guarded (BUG-0004). *)
grow_accepts_wrapped(total, factor, block_size) ==
    /\ grow_add(total, factor) # 0
    /\ ~ would_overflow_product(grow_add(total, factor), slot_stride(block_size))

grow_accepts(total, factor, block_size) ==
    /\ ~ would_overflow_product(total, factor - 1)
    /\ grow_add(total, factor) # 0
    /\ ~ would_overflow_product(grow_add(total, factor), slot_stride(block_size))

(* Mutant: the bytes of the present slots, not of the added ones. *)
grow_bytes_of_total(total, factor, block_size) == Wrap(total * slot_stride(block_size))

grow_bytes(total, factor, block_size) ==
    Wrap(grow_add(total, factor) * slot_stride(block_size))
=============================================================================
