------------------------------ MODULE FifoQueue ------------------------------
(***************************************************************************)
(* What geant::mpmc_bounded_queue promises its callers, whatever the       *)
(* interleaving: a bounded first-in first-out queue in which an accepted   *)
(* element keeps the place it was accepted at (its ticket), becomes        *)
(* available some time later, and is handed out once, in ticket order.     *)
(*                                                                         *)
(* The promise is weaker than that of a textbook queue: an element that    *)
(* is already available waits behind an earlier one that is not, and a     *)
(* place given back is reusable only some time after the element left.     *)
(***************************************************************************)
EXTENDS Naturals, Sequences

CONSTANTS Threads,  \* the threads that share the queue
          Values,   \* the elements
          NoValue,  \* what a thread holds that has received nothing yet
          Capacity  \* the number of places

VARIABLES log,    \* every element accepted so far, in ticket order
          ready,  \* the tickets whose element is available
          head,   \* the next ticket to hand out
          got     \* the element each thread received last

qvars == <<log, ready, head, got>>

Init ==
  /\ log = <<>>
  /\ ready = {}
  /\ head = 0
  /\ got = [t \in Threads |-> NoValue]

\* An element is accepted only while fewer than Capacity are waiting.
Accept(v) ==
  /\ Len(log) - head < Capacity
  /\ log' = Append(log, v)
  /\ UNCHANGED <<ready, head, got>>

MakeReady(k) ==
  /\ k \notin ready
  /\ ready' = ready \union {k}
  /\ UNCHANGED <<log, head, got>>

\* The oldest element is handed to exactly one thread, once available.
HandOut(t) ==
  /\ head < Len(log)
  /\ head \in ready
  /\ head' = head + 1
  /\ got' = [got EXCEPT ![t] = log[head + 1]]
  /\ UNCHANGED <<log, ready>>

Next ==
  \/ \E v \in Values : Accept(v)
  \/ \E k \in 0 .. Len(log) - 1 : MakeReady(k)
  \/ \E t \in Threads : HandOut(t)

Spec == Init /\ [][Next]_qvars
=============================================================================
