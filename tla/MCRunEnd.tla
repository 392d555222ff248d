------------------------------ MODULE MCRunEnd ------------------------------
(* An instance of RunEnd: two workers of one propagator; the first event   *)
(* has four primaries, taken two at a time, the second one.                *)
EXTENDS RunEnd

OnePropagator == [t \in Workers |-> 1]
FirstOfFour == [e \in Events |-> IF e = 0 THEN 4 ELSE 1]
=============================================================================
