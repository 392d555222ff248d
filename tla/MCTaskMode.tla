----------------------------- MODULE MCTaskMode -----------------------------
(* An instance of TaskMode: three tasks for two task data; the first brings *)
(* two events, the others one, and each event has one primary.              *)
EXTENDS TaskMode, TLC

CONSTANTS t1, t2, t3, e1, e2, e3, e4, x1, x2, x3, x4, d1, d2

TwoOfFirst == t1 :> {e1, e2} @@ t2 :> {e3} @@ t3 :> {e4}
OneEach == e1 :> {x1} @@ e2 :> {x2} @@ e3 :> {x3} @@ e4 :> {x4}
=============================================================================
