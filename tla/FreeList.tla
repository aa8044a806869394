------------------------------ MODULE FreeList ------------------------------
(***************************************************************************)
(* The implicit free list of memory_pool.cpp: a head, and a link in the    *)
(* first word of every free slot (read_next, write_next), the last one     *)
(* NULL.  Used by every module that models one thread-safety policy.       *)
(***************************************************************************)
EXTENDS Naturals, FiniteSets

NULL == 0

(* From h, following link, one meets s[1], ..., s[n] and then NULL. *)
IsChain(h, link, n, s) ==
    /\ h = IF n = 0 THEN NULL ELSE s[1]
    /\ \A i \in 1 .. n : link[s[i]] = IF i = n THEN NULL ELSE s[i + 1]

(* The list that starts at h runs once through every element of free, and
   through nothing else: it is finite, acyclic and complete. *)
ListsExactly(h, link, free) ==
    LET n == Cardinality(free)
    IN  \E s \in [1 .. n -> free] :
           /\ \A i, j \in 1 .. n : s[i] = s[j] => i = j
           /\ \A b \in free : \E i \in 1 .. n : b = s[i]
           /\ IsChain(h, link, n, s)

(* The slots of a backing: count of them, stride apart, from its address on. *)
SlotAddresses(backing, stride, count) ==
    {backing + i * stride : i \in 0 .. (count - 1)}

(* initialize_free_list: the slots of the backing in ascending address order,
   each linked to the next one; other words are not written. *)
initialize_free_list(link, backing, stride, count) ==
    [b \in DOMAIN link |->
        IF b \notin SlotAddresses(backing, stride, count) THEN link[b]
        ELSE IF b = backing + (count - 1) * stride THEN NULL
        ELSE b + stride]
=============================================================================
