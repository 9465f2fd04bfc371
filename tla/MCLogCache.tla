----------------------------- MODULE MCLogCache -----------------------------
(* LogCache with its goroutines, which are all alike, as a symmetry set. *)
EXTENDS LogCache, TLC

GoroutineSymmetry == Permutations(Procs)
=============================================================================
