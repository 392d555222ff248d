----------------------------- MODULE MCStepping -----------------------------
(* An instance of Stepping: an event of one primary, which may leave two   *)
(* secondaries.                                                            *)
EXTENDS Stepping, TLC

CONSTANTS p1, s1, s2, e1, w1, w2

OnePrimary == p1 :> e1
PhysicsVectorized == {kPostStep}
Symmetry == Permutations(Workers) \union Permutations({s1, s2})
=============================================================================
