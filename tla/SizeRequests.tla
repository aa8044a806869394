---------------------------- MODULE SizeRequests ----------------------------
(***************************************************************************)
(* The arithmetic of PoolArith applied to every request a caller can make: *)
(* a creation with any block size and count, and the growth that follows   *)
(* with any factor.  There is no behaviour here, only requests.            *)
(***************************************************************************)
EXTENDS PoolArith

ASSUME HalfAssumption == PtrBytes + POOL_ALIGNMENT <= SizeMax /\ 2 * POOL_ALIGNMENT <= SizeMax

VARIABLE request

Requests == [block_size : Sizes, block_count : Sizes, factor : Sizes]

(* memory_pool_create_dynamic is called with the three arguments of a request;
   factors below 2 are those of fixed pools. *)
Init == request \in Requests

Next == UNCHANGED request

Spec == Init /\ [][Next]_request

Created == create_accepts(request.block_size, request.block_count)
Stride == slot_stride(request.block_size)
Bytes == create_bytes(request.block_size, request.block_count)

(* The room a slot needs: the block and, when hardened, its guard word. *)
Need == request.block_size + (IF Hardened THEN GuardBytes ELSE 0)

(* operator new: no object is larger than half the address space (PTRDIFF_MAX),
   and it throws bad_alloc at a request for more. *)
operator_new_serves(bytes) == bytes <= SizeMax \div 2

(* The overflow guard is exact: it refuses the products that do not fit in a
   size_t, and no others (ADR-0009). *)
OverflowGuardExact ==
    would_overflow_product(request.block_size, request.block_count)
        <=> request.block_size * request.block_count > SizeMax

(* A creation that succeeds has memory for block_count slots, each with room for
   the block and its guard word and less than one alignment step to spare, at
   addresses that keep the alignment (ADR-0009): no sum or product on the way to
   the request has wrapped. *)
CreationFits ==
    Created /\ operator_new_serves(Bytes) =>
        /\ Bytes = Stride * request.block_count
        /\ Stride % POOL_ALIGNMENT = 0
        /\ Stride \in Need .. (Need + POOL_ALIGNMENT - 1)

(* The comment in slot_stride: when the sum with the guard word would wrap,
   saturating makes the overflow guard of the caller reject the input, for every
   block_count. *)
SaturatedStrideRejected == Hardened /\ Stride = SizeMax => ~ Created

(* A growth that goes ahead adds exactly total * (factor - 1) slots and asks for
   exactly the bytes they need, however large the pool has become (BUG-0004). *)
GrowthFits ==
    Created /\ request.factor >= 2
    /\ grow_accepts(request.block_count, request.factor, request.block_size) =>
        LET add == grow_add(request.block_count, request.factor)
        IN  /\ add = request.block_count * (request.factor - 1)
            /\ grow_bytes(request.block_count, request.factor, request.block_size)
                  = add * Stride

(* TypedPool asks for slots that memory_pool_create accepts and that hold a T,
   with less than one alignment step to spare, whatever the size of T: "every
   precondition holds by construction" (ADR-0017).  No object is larger than
   half the address space, here as in operator_new_serves. *)
TypedSlotsValid ==
    LET sizeof_T == request.block_size
        size == typed_block_size(sizeof_T)
    IN  sizeof_T \in 1 .. SizeMax \div 2 =>
            /\ is_valid_block_size(size)
            /\ sizeof_T <= size
            /\ size < (IF sizeof_T < PtrBytes THEN PtrBytes ELSE sizeof_T) + POOL_ALIGNMENT
=============================================================================
