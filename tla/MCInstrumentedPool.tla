------------------------- MODULE MCInstrumentedPool -------------------------
(* Instances of InstrumentedPool for TLC. *)
EXTENDS InstrumentedPool, TLC

(* Threads are interchangeable. *)
ThreadSymmetry == Permutations(Threads)
=============================================================================
