---------------------------- MODULE MCBasketizer ----------------------------
(* Instances of Basketizer: the threads are interchangeable.               *)
EXTENDS Basketizer, TLC

Symmetry == Permutations(Threads)
=============================================================================
