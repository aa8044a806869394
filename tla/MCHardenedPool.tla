--------------------------- MODULE MCHardenedPool ---------------------------
(* Symmetry and a constraint for TLC. *)
EXTENDS HardenedPool, TLC

(* Threads are interchangeable: no definition tells one from another. *)
ThreadSymmetry == Permutations(Threads)

(* Nothing is claimed once a second free could not be told from a first one:
   those states are visited, their successors are not. *)
NotBlind == ~ blind
=============================================================================
