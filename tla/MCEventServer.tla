--------------------------- MODULE MCEventServer ---------------------------
(* Instances of EventServer: the first event has two primaries, which two  *)
(* workers may share, the others one; or there are fewer primaries than    *)
(* workers.  The workers belong to one propagator, or to one each.         *)
EXTENDS EventServer, TLC

Symmetry == Permutations(Workers)
OnePropagator == [t \in Workers |-> 1]
TwoPropagators == [t \in Workers |-> t]
FirstOfTwo == [e \in Events |-> IF e = 0 THEN 2 ELSE 1]
OneEach == [e \in Events |-> 1]
=============================================================================
