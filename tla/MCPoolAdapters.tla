--------------------------- MODULE MCPoolAdapters ---------------------------
(* Symmetry for TLC. *)
EXTENDS PoolAdapters, TLC

(* Objects and upstreams are interchangeable: no definition tells one from another. *)
ObjectSymmetry == Permutations(Objects) \cup Permutations(Upstreams)
=============================================================================
