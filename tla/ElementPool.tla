---------------------------- MODULE ElementPool ----------------------------
(***************************************************************************)
(* What a basketizer promises its callers: an element that is added joins  *)
(* the pool, and leaves it in one basket of at most BasketSize elements.   *)
(***************************************************************************)
EXTENDS Naturals, FiniteSets

CONSTANTS Elements, BasketSize

VARIABLES pool,   \* the elements added and not yet handed out
          nout    \* the number of pointers handed out in baskets so far

Init == pool = {} /\ nout = 0

Add == \E x \in Elements \ pool : pool' = pool \union {x} /\ UNCHANGED nout

\* A pointer that is handed out twice, or that nobody added, would make nout
\* grow by more than the pool shrinks.
HandOut ==
  \E basket \in (SUBSET pool) \ {{}} :
    /\ Cardinality(basket) <= BasketSize
    /\ pool' = pool \ basket
    /\ nout' = nout + Cardinality(basket)

Next == Add \/ HandOut

Spec == Init /\ [][Next]_<<pool, nout>>
=============================================================================
