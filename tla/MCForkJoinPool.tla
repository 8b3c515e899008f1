-------------------------- MODULE MCForkJoinPool --------------------------
(* Finite instances of ForkJoinPool for TLC. *)
EXTENDS ForkJoinPool, TLC

\* The calling threads are interchangeable (safety runs only).
CallerSymmetry == Permutations(Callers)
=============================================================================
