---------------------------- MODULE MCMpmcQueue ----------------------------
(* MpmcQueue with three interchangeable threads.                           *)
EXTENDS MpmcQueue, TLC

Symmetry == Permutations(Threads)
=============================================================================
