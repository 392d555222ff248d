------------------------------- MODULE RunEnd -------------------------------
(***************************************************************************)
(* The end of a run: a worker that leaves the loop of EventServer puts a   *)
(* signal into the done queue of its propagator, and the main thread of    *)
(* the propagator waits for a signal of each of its workers and joins them *)
(* (TransportTracksV3, WaitWorkers, JoinThreads, and the priority_queue of *)
(* src/core/concurrency/inc/Geant/priority_queue.h).                       *)
(*                                                                         *)
(* An action is one access to shared memory.  The signals carry nothing:   *)
(* main_q_ is their number.  The priority lane is not used.                *)
(***************************************************************************)
EXTENDS EventServer

WorkersOf(p) == {t \in Workers : Propagator[t] = p}

VARIABLES
  leaving,     \* where a worker is between the end of its loop and StartAll
  main_q_,     \* signals in the queue
  counter_,    \* the content counter; below zero it is a huge size_t
  n_waiting_,
  main,        \* where the main thread is and how many workers it waits for
  missed       \* the queues with a notification when main was about to wait,
               \* since it last announced that

done == <<main_q_, counter_, n_waiting_, main, missed>>

RunInit ==
  /\ Init
  /\ leaving = [t \in Workers |-> "no"]
  /\ main_q_ = [p \in Propagators |-> 0]
  /\ counter_ = [p \in Propagators |-> 0]
  /\ n_waiting_ = [p \in Propagators |-> 0]
  /\ main = [p \in Propagators |-> [pc |-> "pop", ntowait |-> Cardinality(WorkersOf(p))]]
  /\ missed = {}

------------------------------------------------------------------------------
(* push_force: the queue has room for the signals of all workers.          *)

Left(t, from, to) ==
  /\ leaving[t] = from
  /\ leaving' = [leaving EXCEPT ![t] = to]

\* TransportCompleted(): the loop of the worker ends.
Enqueue(t) ==
  /\ pc[t] = "feed" /\ fDoneEvents = Events
  /\ Left(t, "no", "count")
  /\ main_q_' = [main_q_ EXCEPT ![Propagator[t]] = @ + 1]
  /\ UNCHANGED <<vars, counter_, n_waiting_, main, missed>>

Count(t) ==
  /\ Left(t, "count", "load")
  /\ counter_' = [counter_ EXCEPT ![Propagator[t]] = @ + 1]
  /\ UNCHANGED <<vars, main_q_, n_waiting_, main, missed>>

LoadWaiting(t) ==
  /\ Left(t, "load", IF n_waiting_[Propagator[t]] = 0 THEN "start" ELSE "notify")
  /\ UNCHANGED <<vars, done>>

\* notify_one, without the mutex of the waiter: it wakes a thread that sleeps.
NotifyOne(t) ==
  LET p == Propagator[t] IN
  /\ Left(t, "notify", "start")
  /\ main' = [main EXCEPT ![p].pc = IF @ = "asleep" THEN "look" ELSE @]
  /\ missed' = missed \union (IF main[p].pc = "wait" THEN {p} ELSE {})
  /\ UNCHANGED <<vars, main_q_, counter_, n_waiting_>>

\* StartAll, and the thread ends.
Leave(t) ==
  /\ leaving[t] = "start"
  /\ Exit(t)
  /\ UNCHANGED <<leaving, done>>

------------------------------------------------------------------------------
(* WaitWorkers and wait_and_pop                                            *)

At(p, label) == main[p].pc = label
GoOn(p, label) == main' = [main EXCEPT ![p].pc = label]

\* Mutant of Dequeue: the signal stays in the queue.
Peek(p) == main_q_[p] > 0 /\ UNCHANGED main_q_
Dequeue(p) == main_q_[p] > 0 /\ main_q_' = [main_q_ EXCEPT ![p] = @ - 1]

\* try_pop, first without waiting, then until it succeeds.
Pop(p) ==
  /\ At(p, "pop") \/ At(p, "spin")
  /\ Dequeue(p)
  /\ GoOn(p, "uncount")
  /\ UNCHANGED <<counter_, n_waiting_, missed>>

PopNothing(p) ==
  /\ At(p, "pop") /\ main_q_[p] = 0
  /\ GoOn(p, "enter")
  /\ UNCHANGED <<main_q_, counter_, n_waiting_, missed>>

\* Mutant of Enter: the thread does not say that it waits.
EnterSilently(p) ==
  /\ At(p, "enter")
  /\ GoOn(p, "look")
  /\ UNCHANGED <<main_q_, counter_, n_waiting_, missed>>

Enter(p) ==
  /\ At(p, "enter")
  /\ n_waiting_' = [n_waiting_ EXCEPT ![p] = @ + 1]
  /\ missed' = missed \ {p}
  /\ GoOn(p, "look")
  /\ UNCHANGED <<main_q_, counter_>>

Look(p) ==
  /\ At(p, "look")
  /\ GoOn(p, IF counter_[p] = 0 THEN "wait" ELSE "spin")
  /\ UNCHANGED <<main_q_, counter_, n_waiting_, missed>>

Wait(p) ==
  /\ At(p, "wait")
  /\ GoOn(p, "asleep")
  /\ UNCHANGED <<main_q_, counter_, n_waiting_, missed>>

\* wait_and_pop returns, and WaitWorkers after the last worker's signal.
Popped(p) ==
  main' = [main EXCEPT ![p] = [ntowait |-> @.ntowait - 1,
                               pc |-> IF @.ntowait = 1 THEN "join" ELSE "pop"]]

Uncount(p) ==
  /\ At(p, "uncount")
  /\ counter_' = [counter_ EXCEPT ![p] = @ - 1]
  /\ IF n_waiting_[p] = 0 THEN Popped(p) ELSE GoOn(p, "return")
  /\ UNCHANGED <<main_q_, n_waiting_, missed>>

ReturnPopped(p) ==
  /\ At(p, "return")
  /\ n_waiting_' = [n_waiting_ EXCEPT ![p] = @ - 1]
  /\ Popped(p)
  /\ UNCHANGED <<main_q_, counter_, missed>>

JoinThreads(p) ==
  /\ At(p, "join")
  /\ \A t \in WorkersOf(p) : pc[t] = "exit"
  /\ GoOn(p, "done")
  /\ UNCHANGED <<main_q_, counter_, n_waiting_, missed>>

\* The main thread shares the queue only with workers that leave, and these
\* share nothing with one that is on its way to the head of its loop or to the
\* semaphore.  So the main thread may as well go on when no worker is on its
\* way: every order of its steps and those of the workers that leave remains.
WaitWorkers(p) ==
  /\ fDoneEvents = Events
  /\ \A t \in Workers : pc[t] \in {"feed", "wait", "exit"}
  /\ \/ Pop(p) \/ PopNothing(p) \/ Enter(p) \/ Look(p) \/ Wait(p)
     \/ Uncount(p) \/ ReturnPopped(p) \/ JoinThreads(p)
  /\ UNCHANGED <<vars, leaving>>

------------------------------------------------------------------------------
RunStep(t) ==
  \/ leaving[t] = "no" /\ Work(t) /\ UNCHANGED <<leaving, done>>
  \/ Enqueue(t) \/ Count(t) \/ LoadWaiting(t) \/ NotifyOne(t) \/ Leave(t)

\* Where the main thread sleeps and nobody is left, see WakeUpMissed.
RunFinished == /\ \A t \in Workers : pc[t] = "exit"
               /\ \A p \in Propagators : At(p, "done") \/ At(p, "asleep")
               /\ UNCHANGED <<vars, leaving, done>>

RunNext == \/ \E t \in Workers : RunStep(t)
           \/ \E p \in Propagators : WaitWorkers(p)
           \/ RunFinished

RunSpec == RunInit /\ [][RunNext]_<<vars, leaving, done>>

\* Workers and main threads are running threads: weak fairness of each.
FairRunSpec ==
  /\ RunSpec
  /\ \A t \in Workers : WF_<<vars, leaving, done>>(RunStep(t))
  /\ \A p \in Propagators : WF_<<vars, leaving, done>>(WaitWorkers(p))

------------------------------------------------------------------------------
(* Properties                                                              *)

\* The main thread takes the run for finished only when each of its workers
\* has left the loop, although a signal may be popped before it is counted and
\* the counter be wrong (WaitWorkers, PropagatorGeom: fCompleted = true).
WaitsForAll ==
  \A p \in Propagators :
    At(p, "join") \/ At(p, "done") => \A t \in WorkersOf(p) : leaving[t] # "no"

\* When the workers are gone the main thread sleeps for one reason only: a
\* notification came between its look at the counter and its wait, which push
\* does not exclude as it does not take the mutex (priority_queue).
WakeUpMissed ==
  \A p \in Propagators :
    At(p, "asleep") /\ (\A t \in WorkersOf(p) : pc[t] = "exit") => p \in missed
=============================================================================
