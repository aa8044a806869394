------------------------- MODULE SizeRequestsProofs -------------------------
(***************************************************************************)
(* The size arithmetic is right for size_t of every width, every pointer   *)
(* size and every alignment.                                               *)
(***************************************************************************)
EXTENDS SizeRequests, FreeListProofs

(* would_overflow_product refuses exactly the products that do not fit. *)
LEMMA OverflowGuard ==
    ASSUME NEW lhs \in Nat, NEW rhs \in Nat
    PROVE  would_overflow_product(lhs, rhs) <=> lhs * rhs > SizeMax
BY ProductGuard, SizeAssumption DEF would_overflow_product

(* A value that fits is not changed by wrapping. *)
LEMMA WrapFits ==
    ASSUME NEW x \in Nat, x <= SizeMax
    PROVE  Wrap(x) = x
BY SizeAssumption DEF Wrap

(* Rounding up yields a multiple of the alignment, less than one step away. *)
LEMMA RoundUpBounds ==
    ASSUME NEW x \in Nat
    PROVE  /\ RoundUp(x) \in Nat
           /\ RoundUp(x) % POOL_ALIGNMENT = 0
           /\ x <= RoundUp(x)
           /\ RoundUp(x) < x + POOL_ALIGNMENT
BY RoundedUp, SizeAssumption DEF RoundUp

(* A stride that is not saturated is the block and its guard word, rounded up. *)
LEMMA StrideBounds ==
    ASSUME NEW block_size \in Sizes, is_valid_block_size(block_size)
    PROVE  LET stride == slot_stride(block_size)
               need == block_size + (IF Hardened THEN GuardBytes ELSE 0)
           IN  /\ stride \in Nat \ {0}
               /\ \/ /\ stride % POOL_ALIGNMENT = 0
                     /\ stride >= need
                     /\ stride < need + POOL_ALIGNMENT
                  \/ stride = SizeMax
<1>0. /\ block_size \in Nat \ {0} /\ block_size % POOL_ALIGNMENT = 0
      /\ POOL_ALIGNMENT \in Nat \ {0} /\ GuardBytes \in Nat /\ SizeMax \in Nat \ {0}
      /\ Hardened \in BOOLEAN
  BY SizeAssumption DEF Sizes, is_valid_block_size
<1>1. CASE ~ Hardened
  <2>1. slot_stride(block_size) = block_size
    BY <1>1 DEF slot_stride
  <2> QED BY <1>0, <1>1, <2>1
<1>2. CASE Hardened
  <2> DEFINE need == block_size + GuardBytes
  <2>1. need \in Nat \ {0}
    BY <1>0
  <2>2. slot_stride(block_size) = SizeMax \/ slot_stride(block_size) = RoundUp(need)
    BY <1>2 DEF slot_stride
  <2> HIDE DEF need
  <2>3. /\ RoundUp(need) \in Nat /\ RoundUp(need) % POOL_ALIGNMENT = 0
        /\ need <= RoundUp(need) /\ RoundUp(need) < need + POOL_ALIGNMENT
    BY <2>1, RoundUpBounds
  <2> QED BY <1>0, <1>2, <2>1, <2>2, <2>3 DEF need
<1> QED BY <1>1, <1>2, <1>0

-----------------------------------------------------------------------------
(* The overflow guard is exact for every request. *)
THEOREM GuardIsExact == Spec => []OverflowGuardExact
<1>1. Init => request \in Requests
  BY DEF Init
<1>2. request \in Requests /\ [Next]_request => (request \in Requests)'
  BY DEF Next
<1>3. request \in Requests => OverflowGuardExact
  <2> SUFFICES ASSUME request \in Requests PROVE OverflowGuardExact
    OBVIOUS
  <2>1. request.block_size \in Nat /\ request.block_count \in Nat
    BY SizeAssumption DEF Requests, Sizes
  <2> QED BY <2>1, OverflowGuard DEF OverflowGuardExact
<1> QED BY <1>1, <1>2, <1>3, PTL DEF Spec

(* Every creation that succeeds has memory that holds its slots: a saturated
   stride is accepted for a single slot only, and operator new refuses that. *)
THEOREM CreationIsSound == Spec => []CreationFits
<1>1. Init => request \in Requests
  BY DEF Init
<1>2. request \in Requests /\ [Next]_request => (request \in Requests)'
  BY DEF Next
<1>3. ASSUME request \in Requests PROVE CreationFits
  <2> SUFFICES ASSUME Created, operator_new_serves(Bytes)
               PROVE  /\ Bytes = Stride * request.block_count
                      /\ Stride % POOL_ALIGNMENT = 0
                      /\ Stride \in Need .. (Need + POOL_ALIGNMENT - 1)
    BY DEF CreationFits
  <2> DEFINE count == request.block_count
  <2>0. /\ request.block_size \in Sizes /\ is_valid_block_size(request.block_size)
        /\ count \in Nat \ {0} /\ SizeMax \in Nat
        /\ ~ would_overflow_product(Stride, count)
    BY <1>3, SizeAssumption DEF Created, create_accepts, Requests, Sizes, Stride
  <2>1. /\ request.block_size \in Nat \ {0} /\ SizeMax \in Nat \ {0}
        /\ POOL_ALIGNMENT \in Nat \ {0} /\ Need \in Nat
    BY <2>0, SizeAssumption DEF is_valid_block_size, Sizes, Need
  <2>2. /\ Stride \in Nat \ {0}
        /\ \/ /\ Stride % POOL_ALIGNMENT = 0
              /\ Stride >= Need
              /\ Stride < Need + POOL_ALIGNMENT
           \/ Stride = SizeMax
    BY <2>0, StrideBounds DEF Stride, Need
  <2> HIDE DEF count
  <2>3. Stride * count \in Nat /\ Stride * count <= SizeMax
    BY <2>0, <2>2, OverflowGuard
  <2>4. Bytes = Stride * count
    BY <2>3, WrapFits DEF Bytes, create_bytes, Stride, count
  <2>5. Stride <= Bytes
    <3>1. 1 * Stride <= count * Stride
      BY <2>0, <2>2, ProductMonotone
    <3>2. count * Stride = Stride * count /\ 1 * Stride = Stride
      BY <2>0, <2>2
    <3> QED BY <3>1, <3>2, <2>4
  <2>6. Stride # SizeMax
    BY <2>1, <2>3, <2>4, <2>5 DEF operator_new_serves
  <2> QED BY <2>1, <2>2, <2>4, <2>6 DEF count
<1> QED BY <1>1, <1>2, <1>3, PTL DEF Spec

(* Every growth that goes ahead adds what the factor says, without wrapping. *)
THEOREM GrowthIsSound == Spec => []GrowthFits
<1>1. Init => request \in Requests
  BY DEF Init
<1>2. request \in Requests /\ [Next]_request => (request \in Requests)'
  BY DEF Next
<1>3. ASSUME request \in Requests PROVE GrowthFits
  <2> DEFINE total == request.block_count
  <2> DEFINE add == grow_add(total, request.factor)
  <2> SUFFICES ASSUME Created, request.factor >= 2,
                      grow_accepts(total, request.factor, request.block_size)
               PROVE  /\ add = total * (request.factor - 1)
                      /\ grow_bytes(total, request.factor, request.block_size) = add * Stride
    BY DEF GrowthFits
  <2>1. total \in Nat /\ request.factor - 1 \in Nat /\ SizeMax \in Nat
    BY <1>3, SizeAssumption DEF Requests, Sizes
  <2>2. Stride \in Nat
    BY <1>3, StrideBounds DEF Stride, Created, create_accepts, Requests
  <2>3. total * (request.factor - 1) \in Nat /\ total * (request.factor - 1) <= SizeMax
    BY <2>1, OverflowGuard DEF grow_accepts
  <2>4. add = total * (request.factor - 1)
    BY <2>3, WrapFits DEF grow_add
  <2>5. add * Stride \in Nat /\ add * Stride <= SizeMax
    <3>1. add \in Nat
      BY <2>3, <2>4
    <3>2. ~ would_overflow_product(add, Stride)
      BY DEF grow_accepts, Stride
    <3> HIDE DEF add
    <3> QED BY <2>1, <2>2, <3>1, <3>2, OverflowGuard
  <2>6. grow_bytes(total, request.factor, request.block_size) = add * Stride
    BY <2>5, WrapFits DEF grow_bytes, Stride
  <2> QED BY <2>4, <2>6
<1> QED BY <1>1, <1>2, <1>3, PTL DEF Spec

(* The slots of a TypedPool meet the preconditions of creation, for every T. *)
THEOREM TypedSlotsAreValid == Spec => []TypedSlotsValid
<1>1. Init => request \in Requests
  BY DEF Init
<1>2. request \in Requests /\ [Next]_request => (request \in Requests)'
  BY DEF Next
<1>3. ASSUME request \in Requests, request.block_size \in 1 .. SizeMax \div 2
      PROVE  TypedSlotsValid
  <2> DEFINE size == request.block_size
  <2> DEFINE floor == IF size < PtrBytes THEN PtrBytes ELSE size
  <2>1. /\ size \in Nat \ {0} /\ floor \in Nat \ {0} /\ SizeMax \in Nat
        /\ POOL_ALIGNMENT \in Nat \ {0} /\ PtrBytes \in Nat \ {0}
        /\ size <= floor /\ PtrBytes <= floor
    BY <1>3, SizeAssumption DEF Requests, Sizes
  <2>2. 2 * size <= SizeMax
    BY <1>3, SizeAssumption
  <2>3. floor + POOL_ALIGNMENT - 1 <= SizeMax
    BY <2>1, <2>2, HalfAssumption
  <2> HIDE DEF floor
  <2>4. Wrap(floor + POOL_ALIGNMENT - 1) = floor + POOL_ALIGNMENT - 1
    BY <2>1, <2>3, WrapFits
  <2>5. /\ RoundUp(floor) \in Nat /\ RoundUp(floor) % POOL_ALIGNMENT = 0
        /\ floor <= RoundUp(floor) /\ RoundUp(floor) <= floor + POOL_ALIGNMENT - 1
    BY <2>1, RoundUpBounds
  <2>6. Wrap(RoundUp(floor)) = RoundUp(floor)
    BY <2>1, <2>3, <2>5, WrapFits
  <2>7. typed_block_size(size) = RoundUp(floor)
    BY <2>4, <2>6 DEF typed_block_size, RoundUp, floor
  <2>8. is_valid_block_size(RoundUp(floor))
    BY <2>1, <2>5 DEF is_valid_block_size
  <2> QED BY <2>1, <2>5, <2>7, <2>8 DEF TypedSlotsValid, floor
<1>4. request \in Requests => TypedSlotsValid
  BY <1>3 DEF TypedSlotsValid
<1> QED BY <1>1, <1>2, <1>4, PTL DEF Spec
=============================================================================
