------------------------------ MODULE MpmcQueue ------------------------------
(***************************************************************************)
(* geant::mpmc_bounded_queue (src/core/concurrency/inc/Geant/              *)
(* mpmc_bounded_queue.h), the lock-free queue behind the event server's    *)
(* slots and pending events, the task-data pool, the track-block pool and  *)
(* the shared-track queues.                                                *)
(*                                                                         *)
(* Each action is one access to shared memory of enqueue() or dequeue().   *)
(* Positions grow without wrapping: a 64-bit position does not overflow in *)
(* a run.  The overload dequeue(std::atomic<T> &, T &) is called nowhere and *)
(* is left out.                                                            *)
(***************************************************************************)
EXTENDS Integers, Sequences, FiniteSets

CONSTANTS Threads,    \* threads calling the queue
          Values,     \* elements they enqueue
          NoValue,    \* content of a cell or local never written
          Capacity,   \* buffer_size of the constructor
          MaxTicket   \* bound: no enqueue() starts once this many tickets were given out

ASSUME CapacityAssumption == Capacity \in Nat /\ Capacity >= 2
ASSUME BoundAssumption == MaxTicket \in Nat
ASSUME NoValueAssumption == NoValue \notin Values

VARIABLES
  enqueue_pos,  \* the next ticket to give to an enqueuer
  dequeue_pos,  \* the next ticket to give to a dequeuer
  sequence,     \* sequence_ of each cell
  data,         \* data_ of each cell
  nstored,      \* nstored_
  pc,           \* where each thread is
  pos,          \* its local variable pos
  arg,          \* the argument of its enqueue()
  got,          \* what its dequeue() stored last into its argument
  claimed       \* history: the element of each ticket given out, in order

shared == <<enqueue_pos, dequeue_pos, sequence, data, nstored, claimed>>
vars == <<enqueue_pos, dequeue_pos, sequence, data, nstored, claimed, pc, pos, arg, got>>

Cells == 0 .. Capacity - 1

\* buffer_[pos & buffer_mask_]
Cell(p) == p % Capacity

Goto(t, label) == pc' = [pc EXCEPT ![t] = label]

\* Both calls return the same way: their locals are gone.
Return(t) ==
  /\ pc' = [pc EXCEPT ![t] = "idle"]
  /\ pos' = [pos EXCEPT ![t] = 0]
  /\ arg' = [arg EXCEPT ![t] = NoValue]

Init ==
  /\ enqueue_pos = 0
  /\ dequeue_pos = 0
  /\ sequence = [c \in Cells |-> c]
  /\ data = [c \in Cells |-> NoValue]
  /\ nstored = 0
  /\ claimed = <<>>
  /\ pc = [t \in Threads |-> "idle"]
  /\ pos = [t \in Threads |-> 0]
  /\ arg = [t \in Threads |-> NoValue]
  /\ got = [t \in Threads |-> NoValue]

------------------------------------------------------------------------------
(* enqueue(data)                                                           *)

\* The call, with its first load of enqueue_pos_.
EnqCall(t, v) ==
  /\ pc[t] = "idle"
  /\ enqueue_pos < MaxTicket
  /\ arg' = [arg EXCEPT ![t] = v]
  /\ pos' = [pos EXCEPT ![t] = enqueue_pos]
  /\ Goto(t, "e_seq")
  /\ UNCHANGED <<shared, got>>

\* Mutant of EnqLook: the sign of dif is not tested, a full queue is not seen.
EnqLookUnsigned(t) ==
  LET seq == sequence[Cell(pos[t])] IN
  /\ pc[t] = "e_seq"
  /\ \/ seq <= pos[t] /\ Goto(t, "e_cas") /\ UNCHANGED <<pos, arg>>
     \/ seq > pos[t] /\ Goto(t, "e_pos") /\ UNCHANGED <<pos, arg>>
  /\ UNCHANGED <<shared, got>>

\* The load of the cell's sequence_, and the three-way test on dif.
EnqLook(t) ==
  LET seq == sequence[Cell(pos[t])] IN
  /\ pc[t] = "e_seq"
  /\ \/ seq = pos[t] /\ Goto(t, "e_cas") /\ UNCHANGED <<pos, arg>>
     \/ seq < pos[t] /\ Return(t)  \* return false
     \/ seq > pos[t] /\ Goto(t, "e_pos") /\ UNCHANGED <<pos, arg>>
  /\ UNCHANGED <<shared, got>>

EnqReload(t) ==
  /\ pc[t] = "e_pos"
  /\ pos' = [pos EXCEPT ![t] = enqueue_pos]
  /\ Goto(t, "e_seq")
  /\ UNCHANGED <<shared, arg, got>>

\* Mutant of EnqClaim: a plain store instead of the exchange.
EnqClaimStore(t) ==
  /\ pc[t] = "e_cas"
  /\ enqueue_pos' = pos[t] + 1
  /\ claimed' = Append(claimed, arg[t])
  /\ Goto(t, "e_data")
  /\ UNCHANGED <<dequeue_pos, sequence, data, nstored, pos, arg, got>>

\* The exchange on enqueue_pos_ succeeds: the thread owns the ticket.
EnqClaim(t) ==
  /\ pc[t] = "e_cas"
  /\ enqueue_pos = pos[t]
  /\ enqueue_pos' = pos[t] + 1
  /\ claimed' = Append(claimed, arg[t])
  /\ Goto(t, "e_data")
  /\ UNCHANGED <<dequeue_pos, sequence, data, nstored, pos, arg, got>>

\* It fails, for good or (it is the weak form) spuriously; pos is reloaded.
EnqMiss(t) ==
  /\ pc[t] = "e_cas"
  /\ pos' = [pos EXCEPT ![t] = enqueue_pos]
  /\ Goto(t, "e_seq")
  /\ UNCHANGED <<shared, arg, got>>

EnqWrite(t) ==
  /\ pc[t] = "e_data"
  /\ data' = [data EXCEPT ![Cell(pos[t])] = arg[t]]
  /\ Goto(t, "e_count")
  /\ UNCHANGED <<enqueue_pos, dequeue_pos, sequence, nstored, claimed, pos, arg, got>>

EnqCount(t) ==
  /\ pc[t] = "e_count"
  /\ nstored' = nstored + 1
  /\ Goto(t, "e_pub")
  /\ UNCHANGED <<enqueue_pos, dequeue_pos, sequence, data, claimed, pos, arg, got>>

\* The store of sequence_ makes the element available; enqueue() returns true.
EnqPublish(t) ==
  /\ pc[t] = "e_pub"
  /\ sequence' = [sequence EXCEPT ![Cell(pos[t])] = pos[t] + 1]
  /\ Return(t)
  /\ UNCHANGED <<enqueue_pos, dequeue_pos, data, nstored, claimed, got>>

------------------------------------------------------------------------------
(* dequeue(data)                                                           *)

DeqCall(t) ==
  /\ pc[t] = "idle"
  /\ pos' = [pos EXCEPT ![t] = dequeue_pos]
  /\ Goto(t, "d_seq")
  /\ UNCHANGED <<shared, arg, got>>

\* Mutant of DeqLook: a thread that was overtaken gives up instead of retrying.
DeqLookOnce(t) ==
  LET seq == sequence[Cell(pos[t])] IN
  /\ pc[t] = "d_seq"
  /\ IF seq = pos[t] + 1 THEN Goto(t, "d_cas") /\ UNCHANGED <<pos, arg>> ELSE Return(t)
  /\ UNCHANGED <<shared, got>>

DeqLook(t) ==
  LET seq == sequence[Cell(pos[t])] IN
  /\ pc[t] = "d_seq"
  /\ \/ seq = pos[t] + 1 /\ Goto(t, "d_cas") /\ UNCHANGED <<pos, arg>>
     \/ seq < pos[t] + 1 /\ Return(t)  \* return false
     \/ seq > pos[t] + 1 /\ Goto(t, "d_pos") /\ UNCHANGED <<pos, arg>>
  /\ UNCHANGED <<shared, got>>

DeqReload(t) ==
  /\ pc[t] = "d_pos"
  /\ pos' = [pos EXCEPT ![t] = dequeue_pos]
  /\ Goto(t, "d_seq")
  /\ UNCHANGED <<shared, arg, got>>

\* Mutant of DeqClaim: a plain store instead of the exchange.
DeqClaimStore(t) ==
  /\ pc[t] = "d_cas"
  /\ dequeue_pos' = pos[t] + 1
  /\ Goto(t, "d_data")
  /\ UNCHANGED <<enqueue_pos, sequence, data, nstored, claimed, pos, arg, got>>

DeqClaim(t) ==
  /\ pc[t] = "d_cas"
  /\ dequeue_pos = pos[t]
  /\ dequeue_pos' = pos[t] + 1
  /\ Goto(t, "d_data")
  /\ UNCHANGED <<enqueue_pos, sequence, data, nstored, claimed, pos, arg, got>>

DeqMiss(t) ==
  /\ pc[t] = "d_cas"
  /\ pos' = [pos EXCEPT ![t] = dequeue_pos]
  /\ Goto(t, "d_seq")
  /\ UNCHANGED <<shared, arg, got>>

\* Mutant of DeqRead: nstored_ is not decremented.
DeqReadUncounted(t) ==
  /\ pc[t] = "d_data"
  /\ got' = [got EXCEPT ![t] = data[Cell(pos[t])]]
  /\ Goto(t, "d_rel")
  /\ UNCHANGED <<shared, pos, arg>>

DeqRead(t) ==
  /\ pc[t] = "d_data"
  /\ got' = [got EXCEPT ![t] = data[Cell(pos[t])]]
  /\ Goto(t, "d_count")
  /\ UNCHANGED <<shared, pos, arg>>

DeqCount(t) ==
  /\ pc[t] = "d_count"
  /\ nstored' = nstored - 1
  /\ Goto(t, "d_rel")
  /\ UNCHANGED <<enqueue_pos, dequeue_pos, sequence, data, claimed, pos, arg, got>>

\* Mutant of DeqRelease: the cell is given back to the previous lap.
DeqReleaseBack(t) ==
  /\ pc[t] = "d_rel"
  /\ sequence' = [sequence EXCEPT ![Cell(pos[t])] = pos[t] - Capacity]
  /\ Return(t)
  /\ UNCHANGED <<enqueue_pos, dequeue_pos, data, nstored, claimed, got>>

\* The store of pos + buffer_mask_ + 1 frees the cell for the next lap.
DeqRelease(t) ==
  /\ pc[t] = "d_rel"
  /\ sequence' = [sequence EXCEPT ![Cell(pos[t])] = pos[t] + Capacity]
  /\ Return(t)
  /\ UNCHANGED <<enqueue_pos, dequeue_pos, data, nstored, claimed, got>>

Enqueue(t) ==
  \/ \E v \in Values : EnqCall(t, v)
  \/ EnqLook(t) \/ EnqReload(t) \/ EnqClaim(t) \/ EnqMiss(t)
  \/ EnqWrite(t) \/ EnqCount(t) \/ EnqPublish(t)

Dequeue(t) ==
  \/ DeqCall(t)
  \/ DeqLook(t) \/ DeqReload(t) \/ DeqClaim(t) \/ DeqMiss(t)
  \/ DeqRead(t) \/ DeqCount(t) \/ DeqRelease(t)

Next == \E t \in Threads : Enqueue(t) \/ Dequeue(t)

Spec == Init /\ [][Next]_vars

------------------------------------------------------------------------------
(* Who holds which ticket                                                  *)

Writing(t) == pc[t] \in {"e_data", "e_count", "e_pub"}
Reading(t) == pc[t] \in {"d_data", "d_count", "d_rel"}
Holding(t) == Writing(t) \/ Reading(t)

Labels == {"idle", "e_seq", "e_pos", "e_cas", "e_data", "e_count", "e_pub",
           "d_seq", "d_pos", "d_cas", "d_data", "d_count", "d_rel"}

TypeOK ==
  /\ enqueue_pos \in Nat
  /\ dequeue_pos \in Nat
  /\ sequence \in [Cells -> Nat]
  /\ data \in [Cells -> Values \union {NoValue}]
  /\ nstored \in Int
  /\ claimed \in Seq(Values)
  /\ pc \in [Threads -> Labels]
  /\ pos \in [Threads -> Nat]
  /\ arg \in [Threads -> Values \union {NoValue}]
  /\ got \in [Threads -> Values \union {NoValue}]

\* A cell is written or read by at most one thread at a time: the queue has
\* no lock, only the two exchanges and sequence_ keep a lapped enqueuer off
\* the cell a slow dequeuer still reads.
CellExclusive ==
  \A t, u \in Threads :
    t # u /\ Holding(t) /\ Holding(u) => Cell(pos[t]) # Cell(pos[u])

\* size() is never below zero or above the capacity, and counts the elements
\* that are written and not yet read: nstored_ moves inside the window in
\* which its thread owns the cell, on both sides.
SizeExact ==
  /\ nstored \in 0 .. Capacity
  /\ nstored + dequeue_pos + Cardinality({t \in Threads : pc[t] \in {"e_data", "e_count"}})
       = enqueue_pos + Cardinality({t \in Threads : pc[t] \in {"d_data", "d_count"}})

\* enqueue() returns false only when the cell of the next ticket is taken: a
\* full queue, or a dequeuer a whole lap behind that has not released its
\* cell.  dequeue() returns false only when the queue is empty or the oldest
\* element is still being published.  Both hold at the load of sequence_,
\* however stale the thread's pos was.
RefusalHonest ==
  [][\A t \in Threads :
       pc'[t] = "idle" =>
         /\ pc[t] = "e_seq" =>
              \/ enqueue_pos = dequeue_pos + Capacity
              \/ \E u \in Threads : Reading(u) /\ pos[u] + Capacity = enqueue_pos
         /\ pc[t] = "d_seq" =>
              \/ enqueue_pos = dequeue_pos
              \/ \E u \in Threads : Writing(u) /\ pos[u] = dequeue_pos]_vars

\* The queue implements FifoQueue: an element has its place from the exchange
\* on enqueue_pos_, is available from the store of sequence_, and is received
\* at the exchange on dequeue_pos_, with the value the enqueuer of that ticket
\* passed, though the value is copied out of the cell later.
Published(k) ==
  \A t \in Threads : Writing(t) => pos[t] # k

Abstract ==
  INSTANCE FifoQueue WITH
    log   <- claimed,
    head  <- dequeue_pos,
    ready <- {k \in 0 .. enqueue_pos - 1 : Published(k)},
    got   <- [t \in Threads |->
                IF pc[t] = "d_data" THEN data[Cell(pos[t])] ELSE got[t]]

ImplementsFifo == Abstract!Spec

------------------------------------------------------------------------------
(* The inductive invariant                                                 *)

\* A thread about to publish owns a claimed ticket and a cell still free for
\* it; its value is the one the history records.
WriterInv ==
  \A t \in Threads : Writing(t) =>
    /\ dequeue_pos <= pos[t] /\ pos[t] < enqueue_pos
    /\ sequence[Cell(pos[t])] = pos[t]
    /\ arg[t] = claimed[pos[t] + 1]
    /\ pc[t] \in {"e_count", "e_pub"} => data[Cell(pos[t])] = arg[t]

\* A thread about to release owns a handed-out ticket whose cell nobody has
\* been able to claim again.
ReaderInv ==
  \A t \in Threads : Reading(t) =>
    /\ pos[t] < dequeue_pos /\ enqueue_pos <= pos[t] + Capacity
    /\ sequence[Cell(pos[t])] = pos[t] + 1
    /\ pc[t] = "d_data" => data[Cell(pos[t])] = claimed[pos[t] + 1]

TicketExclusive ==
  \A t, u \in Threads :
    t # u /\ Holding(t) /\ Holding(u) => pos[t] # pos[u]

\* The four states of the cell of ticket p.
Filled(p) ==
  /\ p < enqueue_pos
  /\ sequence[Cell(p)] = p + 1
  /\ data[Cell(p)] = claimed[p + 1]

BeingFilled(p) ==
  /\ p < enqueue_pos
  /\ sequence[Cell(p)] = p
  /\ \E t \in Threads : Writing(t) /\ pos[t] = p

Vacant(p) ==
  /\ p >= enqueue_pos
  /\ sequence[Cell(p)] = p

BeingVacated(p) ==
  /\ p >= enqueue_pos
  /\ sequence[Cell(p)] + Capacity = p + 1
  /\ \E t \in Threads : Reading(t) /\ pos[t] + Capacity = p

\* Every cell, named by the one ticket of the current lap that maps to it.
WindowInv ==
  \A p \in dequeue_pos .. dequeue_pos + Capacity - 1 :
    Filled(p) \/ BeingFilled(p) \/ Vacant(p) \/ BeingVacated(p)

\* What a thread that has not claimed yet knows of its ticket: positions and
\* sequences only grow, and the value that let it attempt the exchange is
\* still there if the exchange can succeed.
LookOK(t) ==
  /\ pc[t] \in {"e_seq", "e_pos", "e_cas"} =>
       /\ arg[t] \in Values
       /\ pos[t] <= enqueue_pos
       /\ pos[t] < enqueue_pos => sequence[Cell(pos[t])] >= pos[t]
  /\ pc[t] \in {"d_seq", "d_pos", "d_cas"} =>
       /\ pos[t] <= dequeue_pos
       /\ pos[t] < dequeue_pos => sequence[Cell(pos[t])] > pos[t]
  /\ pc[t] = "e_cas" /\ pos[t] = enqueue_pos => sequence[Cell(pos[t])] = pos[t]
  /\ pc[t] = "d_cas" /\ pos[t] = dequeue_pos => sequence[Cell(pos[t])] = pos[t] + 1

LookInv == \A t \in Threads : LookOK(t)

PositionInv ==
  /\ dequeue_pos <= enqueue_pos
  /\ enqueue_pos <= dequeue_pos + Capacity
  /\ Len(claimed) = enqueue_pos

\* The queue's inductive invariant: ownership of every cell and of every
\* ticket, from which the properties above follow.
IInv ==
  /\ TypeOK /\ PositionInv
  /\ WriterInv /\ ReaderInv /\ TicketExclusive
  /\ WindowInv /\ LookInv
=============================================================================
