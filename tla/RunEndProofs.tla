---------------------------- MODULE RunEndProofs ----------------------------
(***************************************************************************)
(* The done queue changes nothing of what the workers do: RunEnd           *)
(* implements EventServer, so every safety property of EventServer holds   *)
(* of a run with its end.  And the main thread is not misled: for any      *)
(* number of workers and propagators it waits for all of them.             *)
(***************************************************************************)
EXTENDS RunEnd, FiniteSetTheorems, TLAPS

\* A step of a worker is one of EventServer, or touches only the done queue.
LEMMA RunStepIsStep == ASSUME NEW t \in Workers, RunStep(t) PROVE Step(t) \/ UNCHANGED vars
<1>1. CASE Work(t)
  BY <1>1 DEF Step
<1>2. CASE Enqueue(t) \/ Count(t) \/ LoadWaiting(t) \/ NotifyOne(t)
  BY <1>2 DEF Enqueue, Count, LoadWaiting, NotifyOne
<1>3. CASE Leave(t)
  BY <1>3 DEF Leave, Step
<1> QED
  BY <1>1, <1>2, <1>3 DEF RunStep

\* Every step of a run with its end is a step of EventServer or a stutter.
LEMMA RunNextIsNext == [RunNext]_<<vars, leaving, done>> => [Next]_vars
<1> SUFFICES ASSUME [RunNext]_<<vars, leaving, done>> PROVE Next \/ UNCHANGED vars
  OBVIOUS
<1>1. CASE \E t \in Workers : RunStep(t)
  BY <1>1, RunStepIsStep DEF Next
<1>2. CASE \E p \in Propagators : WaitWorkers(p)
  BY <1>2 DEF WaitWorkers
<1>3. CASE RunFinished \/ UNCHANGED <<vars, leaving, done>>
  BY <1>3 DEF RunFinished
<1> QED
  BY <1>1, <1>2, <1>3 DEF RunNext

\* TransportTracksV3, WaitWorkers and JoinThreads together transport the events
\* as EventServer says: the end of a run implements it.
THEOREM RunImplementsServer == RunSpec => Spec
<1>1. RunInit => Init
  BY DEF RunInit
<1> QED
  BY <1>1, RunNextIsNext, PTL DEF RunSpec, Spec

------------------------------------------------------------------------------
(* The main thread waits for all its workers                               *)

Phases == {"no", "count", "load", "notify", "start"}
MainLabels == {"pop", "enter", "look", "wait", "asleep", "spin", "uncount", "return", "join", "done"}

HasLeft(p) == {t \in WorkersOf(p) : leaving[t] # "no"}

\* A signal that is popped and for which WaitWorkers has not counted down yet.
InHand(p) == IF main[p].pc \in {"uncount", "return"} THEN 1 ELSE 0

\* Every signal of a worker that has left is in the queue, in hand, or counted down.
SignalsCounted ==
  \A p \in Propagators :
    main[p].ntowait + Cardinality(HasLeft(p)) = Cardinality(WorkersOf(p)) + main_q_[p] + InHand(p)

DoneTypeOK ==
  /\ leaving \in [Workers -> Phases]
  /\ main_q_ \in [Propagators -> Nat]
  /\ main \in [Propagators -> [pc : MainLabels, ntowait : Nat]]

\* The inductive invariant: the main thread goes on when it has counted down to zero.
DoneInv ==
  /\ DoneTypeOK
  /\ SignalsCounted
  /\ \A p \in Propagators : main[p].pc \in {"join", "done"} <=> main[p].ntowait = 0

\* The workers of a propagator are finitely many, and so are those that left.
LEMMA WorkersFinite ==
  ASSUME NEW p \in Propagators
  PROVE  /\ IsFiniteSet(WorkersOf(p)) /\ IsFiniteSet(HasLeft(p))
         /\ Cardinality(WorkersOf(p)) \in Nat \ {0}
         /\ Cardinality(HasLeft(p)) \in Nat
<1>1. WorkersOf(p) \subseteq Workers /\ HasLeft(p) \subseteq WorkersOf(p)
  BY DEF WorkersOf, HasLeft
<1>2. IsFiniteSet(WorkersOf(p)) /\ IsFiniteSet(HasLeft(p))
  BY <1>1, WorkersAssumption, FS_Subset
<1>3. WorkersOf(p) # {}
  BY DEF WorkersOf, Propagators
<1> QED
  BY <1>2, <1>3, FS_CardinalityType, FS_EmptySet

\* At the start no worker has left and no signal was sent.
LEMMA DoneInitInv == RunInit => DoneInv
<1> SUFFICES ASSUME RunInit PROVE DoneInv
  OBVIOUS
<1>1. DoneTypeOK
  BY WorkersFinite DEF RunInit, DoneTypeOK, Phases, MainLabels
<1>2. ASSUME NEW p \in Propagators
      PROVE  /\ main[p].ntowait = Cardinality(WorkersOf(p)) /\ main[p].pc = "pop"
             /\ Cardinality(HasLeft(p)) = 0 /\ main_q_[p] = 0
  <2>1. HasLeft(p) = {}
    BY DEF RunInit, HasLeft, WorkersOf
  <2> QED
    BY <2>1, FS_EmptySet DEF RunInit
<1> QED
  BY <1>1, <1>2, WorkersFinite DEF DoneInv, SignalsCounted, InHand

\* A worker that leaves adds a signal; what it does after that moves none.
LEMMA LeavingInv ==
  ASSUME DoneInv, NEW t \in Workers, RunStep(t)
  PROVE  DoneInv'
<1> DEFINE p0 == Propagator[t]
<1>0. p0 \in Propagators /\ t \in WorkersOf(p0)
  BY DEF Propagators, WorkersOf
<1>1. CASE Enqueue(t)
  <2>1. /\ leaving[t] = "no" /\ leaving' = [leaving EXCEPT ![t] = "count"]
        /\ main_q_' = [main_q_ EXCEPT ![p0] = @ + 1] /\ main' = main
    BY <1>1 DEF Enqueue, Left
  <2>2. DoneTypeOK'
    BY <2>1, <1>0 DEF DoneInv, DoneTypeOK, Phases
  <2>3. HasLeft(p0)' = HasLeft(p0) \union {t} /\ t \notin HasLeft(p0)
    BY <2>1, <1>0 DEF HasLeft, WorkersOf, DoneInv, DoneTypeOK
  <2>4. Cardinality(HasLeft(p0)') = Cardinality(HasLeft(p0)) + 1
    BY <2>3, <1>0, WorkersFinite, FS_AddElement
  <2>5. ASSUME NEW p \in Propagators, p # p0 PROVE HasLeft(p)' = HasLeft(p)
    BY <2>1, <2>5 DEF HasLeft, WorkersOf, DoneInv, DoneTypeOK
  <2>6. SignalsCounted'
    <3> SUFFICES ASSUME NEW p \in Propagators
                 PROVE  main[p].ntowait + Cardinality(HasLeft(p)')
                          = Cardinality(WorkersOf(p)) + main_q_'[p] + InHand(p)
      BY <2>1 DEF SignalsCounted, InHand, WorkersOf
    <3>1. main[p].ntowait \in Nat /\ InHand(p) \in Nat /\ main_q_[p] \in Nat
      BY DEF DoneInv, DoneTypeOK, InHand
    <3>2. main[p].ntowait + Cardinality(HasLeft(p)) = Cardinality(WorkersOf(p)) + main_q_[p] + InHand(p)
      BY DEF DoneInv, SignalsCounted
    <3>3. main_q_'[p] = IF p = p0 THEN main_q_[p] + 1 ELSE main_q_[p]
      BY <2>1 DEF DoneInv, DoneTypeOK
    <3> QED
      BY <3>1, <3>2, <3>3, <2>4, <2>5, WorkersFinite
  <2> QED
    BY <2>1, <2>2, <2>6 DEF DoneInv
<1>2. CASE Count(t) \/ LoadWaiting(t) \/ NotifyOne(t)
  <2>1. PICK from \in Phases \ {"no"}, to \in Phases \ {"no"} :
          leaving[t] = from /\ leaving' = [leaving EXCEPT ![t] = to]
    BY <1>2 DEF Count, LoadWaiting, NotifyOne, Left, Phases
  <2>2. main_q_' = main_q_
    BY <1>2 DEF Count, LoadWaiting, NotifyOne, done
  <2>3. \/ main' = main
        \/ main[p0].pc = "asleep" /\ main' = [main EXCEPT ![p0].pc = "look"]
    <3>1. CASE NotifyOne(t)
      <4>1. main' = [main EXCEPT ![p0].pc = IF @ = "asleep" THEN "look" ELSE @]
        BY <3>1 DEF NotifyOne
      <4>2. CASE main[p0].pc = "asleep"
        BY <4>1, <4>2
      <4>3. CASE main[p0].pc # "asleep"
        BY <4>1, <4>3, <1>0 DEF DoneInv, DoneTypeOK
      <4> QED
        BY <4>2, <4>3
    <3> QED
      BY <1>2, <3>1 DEF Count, LoadWaiting, done
  <2>4. /\ main' \in [Propagators -> [pc : MainLabels, ntowait : Nat]]
        /\ \A p \in Propagators :
             /\ main'[p].ntowait = main[p].ntowait
             /\ main'[p].pc = main[p].pc \/ (main[p].pc = "asleep" /\ main'[p].pc = "look")
    BY <2>3, <1>0 DEF DoneInv, DoneTypeOK, MainLabels
  <2>5. DoneTypeOK'
    BY <2>1, <2>2, <2>4 DEF DoneInv, DoneTypeOK
  <2>6. \A p \in Propagators : HasLeft(p)' = HasLeft(p) /\ InHand(p)' = InHand(p)
    BY <2>1, <2>4 DEF HasLeft, WorkersOf, InHand, DoneInv, DoneTypeOK
  <2> QED
    BY <2>2, <2>4, <2>5, <2>6 DEF DoneInv, SignalsCounted
<1>3. CASE UNCHANGED <<leaving, done>>
  BY <1>3 DEF DoneInv, DoneTypeOK, SignalsCounted, InHand, HasLeft, WorkersOf, done
<1> QED
  BY <1>1, <1>2, <1>3 DEF RunStep, Leave

\* A step of the main thread: a signal goes from the queue to its hand, and is
\* counted down when wait_and_pop returns.
LEMMA MainInv ==
  ASSUME DoneInv, NEW p0 \in Propagators, WaitWorkers(p0)
  PROVE  DoneInv'
<1>0. /\ leaving' = leaving
      /\ \A p \in Propagators : HasLeft(p)' = HasLeft(p)
  BY DEF WaitWorkers, HasLeft, WorkersOf
<1>1. main[p0] \in [pc : MainLabels, ntowait : Nat]
  BY DEF DoneInv, DoneTypeOK
<1>2. CASE Pop(p0)
  <2>1. /\ main[p0].pc \in {"pop", "spin"} /\ main' = [main EXCEPT ![p0].pc = "uncount"]
        /\ main_q_[p0] > 0 /\ main_q_' = [main_q_ EXCEPT ![p0] = @ - 1]
    BY <1>2 DEF Pop, Dequeue, At, GoOn
  <2>2. DoneTypeOK'
    BY <2>1, <1>0, <1>1 DEF DoneInv, DoneTypeOK, MainLabels
  <2>3. /\ main_q_'[p0] = main_q_[p0] - 1 /\ main'[p0].pc = "uncount"
        /\ main'[p0].ntowait = main[p0].ntowait
        /\ \A p \in Propagators : p # p0 => main'[p] = main[p] /\ main_q_'[p] = main_q_[p]
    BY <2>1, <1>1 DEF DoneInv, DoneTypeOK
  <2>4. InHand(p0) = 0 /\ InHand(p0)' = 1
        /\ \A p \in Propagators : p # p0 => InHand(p)' = InHand(p)
    BY <2>1, <2>3 DEF InHand
  <2>5. SignalsCounted'
    <3> SUFFICES ASSUME NEW p \in Propagators
                 PROVE  main'[p].ntowait + Cardinality(HasLeft(p))
                          = Cardinality(WorkersOf(p)) + main_q_'[p] + InHand(p)'
      BY <1>0 DEF SignalsCounted, WorkersOf
    <3>1. main[p].ntowait \in Nat /\ InHand(p) \in Nat /\ main_q_[p] \in Nat
      BY DEF DoneInv, DoneTypeOK, InHand
    <3>2. main[p].ntowait + Cardinality(HasLeft(p)) = Cardinality(WorkersOf(p)) + main_q_[p] + InHand(p)
      BY DEF DoneInv, SignalsCounted
    <3> QED
      BY <3>1, <3>2, <2>3, <2>4, WorkersFinite
  <2> QED
    BY <2>1, <2>2, <2>3, <2>5 DEF DoneInv
<1>3. CASE PopNothing(p0) \/ Enter(p0) \/ Look(p0) \/ Wait(p0)
  <2>1. PICK label \in {"enter", "look", "wait", "asleep", "spin"} :
          /\ main' = [main EXCEPT ![p0].pc = label] /\ main_q_' = main_q_
          /\ main[p0].pc \in {"pop", "enter", "look", "wait"}
    BY <1>3 DEF PopNothing, Enter, Look, Wait, At, GoOn
  <2>2. DoneTypeOK'
    BY <2>1, <1>0, <1>1 DEF DoneInv, DoneTypeOK, MainLabels
  <2>3. /\ main'[p0].pc = label /\ main'[p0].ntowait = main[p0].ntowait
        /\ \A p \in Propagators : p # p0 => main'[p] = main[p]
    BY <2>1, <1>1 DEF DoneInv, DoneTypeOK
  <2>4. \A p \in Propagators : InHand(p)' = InHand(p) /\ main'[p].ntowait = main[p].ntowait
    BY <2>1, <2>3 DEF InHand
  <2> QED
    BY <1>0, <2>1, <2>2, <2>3, <2>4 DEF DoneInv, SignalsCounted, WorkersOf
<1>4. CASE Uncount(p0) /\ n_waiting_[p0] # 0
  <2>1. /\ main' = [main EXCEPT ![p0].pc = "return"] /\ main_q_' = main_q_
        /\ main[p0].pc = "uncount"
    BY <1>4 DEF Uncount, At, GoOn
  <2>2. DoneTypeOK'
    BY <2>1, <1>0, <1>1 DEF DoneInv, DoneTypeOK, MainLabels
  <2>3. /\ main'[p0].pc = "return" /\ main'[p0].ntowait = main[p0].ntowait
        /\ \A p \in Propagators : p # p0 => main'[p] = main[p]
    BY <2>1, <1>1 DEF DoneInv, DoneTypeOK
  <2>4. \A p \in Propagators : InHand(p)' = InHand(p) /\ main'[p].ntowait = main[p].ntowait
    BY <2>1, <2>3 DEF InHand
  <2> QED
    BY <1>0, <2>1, <2>2, <2>3, <2>4 DEF DoneInv, SignalsCounted, WorkersOf
<1>5. CASE (Uncount(p0) /\ n_waiting_[p0] = 0) \/ ReturnPopped(p0)
  <2>1. Popped(p0) /\ main_q_' = main_q_ /\ main[p0].pc \in {"uncount", "return"}
    BY <1>5 DEF Uncount, ReturnPopped, At
  <2>2. main[p0].ntowait \in Nat \ {0}
    BY <2>1, <1>1 DEF DoneInv
  <2>3. /\ main'[p0].ntowait = main[p0].ntowait - 1
        /\ main'[p0].pc = IF main[p0].ntowait = 1 THEN "join" ELSE "pop"
        /\ main'[p0] \in [pc : MainLabels, ntowait : Nat]
        /\ main' \in [Propagators -> [pc : MainLabels, ntowait : Nat]]
        /\ \A p \in Propagators : p # p0 => main'[p] = main[p]
    <3>1. [ntowait |-> main[p0].ntowait - 1,
           pc |-> IF main[p0].ntowait = 1 THEN "join" ELSE "pop"] \in [pc : MainLabels, ntowait : Nat]
      BY <2>2 DEF MainLabels
    <3> QED
      BY <2>1, <3>1 DEF Popped, DoneInv, DoneTypeOK
  <2>4. DoneTypeOK'
    BY <2>1, <2>3, <1>0 DEF DoneInv, DoneTypeOK
  <2>5. InHand(p0) = 1 /\ InHand(p0)' = 0
        /\ \A p \in Propagators : p # p0 => InHand(p)' = InHand(p)
    BY <2>1, <2>3 DEF InHand
  <2>6. SignalsCounted'
    <3> SUFFICES ASSUME NEW p \in Propagators
                 PROVE  main'[p].ntowait + Cardinality(HasLeft(p))
                          = Cardinality(WorkersOf(p)) + main_q_[p] + InHand(p)'
      BY <1>0, <2>1 DEF SignalsCounted, WorkersOf
    <3>1. main[p].ntowait \in Nat /\ InHand(p) \in Nat /\ main_q_[p] \in Nat
      BY DEF DoneInv, DoneTypeOK, InHand
    <3>2. main[p].ntowait + Cardinality(HasLeft(p)) = Cardinality(WorkersOf(p)) + main_q_[p] + InHand(p)
      BY DEF DoneInv, SignalsCounted
    <3> QED
      BY <3>1, <3>2, <2>2, <2>3, <2>5, WorkersFinite
  <2>7. main'[p0].pc \in {"join", "done"} <=> main'[p0].ntowait = 0
    BY <2>2, <2>3
  <2> QED
    BY <2>3, <2>4, <2>6, <2>7 DEF DoneInv
<1>6. CASE JoinThreads(p0)
  <2>1. /\ main' = [main EXCEPT ![p0].pc = "done"] /\ main_q_' = main_q_
        /\ main[p0].pc = "join"
    BY <1>6 DEF JoinThreads, At, GoOn
  <2>2. DoneTypeOK'
    BY <2>1, <1>0, <1>1 DEF DoneInv, DoneTypeOK, MainLabels
  <2>3. /\ main'[p0].pc = "done" /\ main'[p0].ntowait = main[p0].ntowait
        /\ \A p \in Propagators : p # p0 => main'[p] = main[p]
    BY <2>1, <1>1 DEF DoneInv, DoneTypeOK
  <2>4. \A p \in Propagators : InHand(p)' = InHand(p) /\ main'[p].ntowait = main[p].ntowait
    BY <2>1, <2>3 DEF InHand
  <2> QED
    BY <1>0, <2>1, <2>2, <2>3, <2>4 DEF DoneInv, SignalsCounted, WorkersOf
<1> QED
  BY <1>2, <1>3, <1>4, <1>5, <1>6 DEF WaitWorkers

\* Every step keeps the invariant.
LEMMA RunNextInv == DoneInv /\ [RunNext]_<<vars, leaving, done>> => DoneInv'
<1> SUFFICES ASSUME DoneInv, [RunNext]_<<vars, leaving, done>> PROVE DoneInv'
  OBVIOUS
<1>1. CASE UNCHANGED <<leaving, done>>
  BY <1>1 DEF DoneInv, DoneTypeOK, SignalsCounted, InHand, HasLeft, WorkersOf, done
<1> QED
  BY <1>1, LeavingInv, MainInv DEF RunNext, RunFinished

\* With all signals counted down every worker has sent one.
LEMMA InvWaitsForAll == DoneInv => WaitsForAll
<1> SUFFICES ASSUME DoneInv, NEW p \in Propagators, At(p, "join") \/ At(p, "done"), NEW t \in WorkersOf(p)
             PROVE  leaving[t] # "no"
  BY DEF WaitsForAll
<1>1. main[p].ntowait = 0 /\ InHand(p) = 0 /\ main_q_[p] \in Nat
  BY DEF At, DoneInv, DoneTypeOK, InHand
<1>2. Cardinality(HasLeft(p)) >= Cardinality(WorkersOf(p))
  BY <1>1, WorkersFinite DEF DoneInv, SignalsCounted
<1>3. HasLeft(p) = WorkersOf(p)
  <2>1. HasLeft(p) \subseteq WorkersOf(p)
    BY DEF HasLeft
  <2> QED
    BY <1>2, <2>1, WorkersFinite, FS_Subset, FS_CardinalityType
<1> QED
  BY <1>3 DEF HasLeft

\* The main thread of a propagator goes on to the end of the run only when each
\* of its workers has left its loop, however many they are.
THEOREM RunWaitsForAll == RunSpec => []WaitsForAll
<1> QED
  BY DoneInitInv, RunNextInv, InvWaitsForAll, PTL DEF RunSpec

------------------------------------------------------------------------------
(* Why the main thread may sleep for ever                                  *)

\* The signals that are counted, and those that are counted but not notified.
Counted(p) == {t \in WorkersOf(p) : leaving[t] \in {"load", "notify", "start"}}

WakeTypeOK ==
  /\ pc \in [Workers -> Labels]
  /\ counter_ \in [Propagators -> Int]
  /\ n_waiting_ \in [Propagators -> Nat]

\* Between its announcement and its return the main thread is announced.
Announced ==
  \A p \in Propagators :
    /\ main[p].pc \in {"look", "wait", "asleep", "spin", "return"} => n_waiting_[p] = 1
    /\ main[p].pc \in {"pop", "enter"} => n_waiting_[p] = 0
    /\ main[p].pc = "uncount" => n_waiting_[p] \in {0, 1}

\* The content counter: the signals counted and not yet uncounted.
CounterInv ==
  \A p \in Propagators :
    counter_[p] + Cardinality(WorkersOf(p)) + (IF main[p].pc = "return" THEN 1 ELSE 0)
      = Cardinality(Counted(p)) + main[p].ntowait

\* A signal that is counted behind the back of a main thread that waits has a
\* worker that is still to notify, unless it notified too early.
Woken ==
  \A p \in Propagators :
    main[p].pc \in {"wait", "asleep"} /\ p \notin missed /\ counter_[p] > 0
      => \E t \in WorkersOf(p) : leaving[t] \in {"load", "notify"}

GoneInv == \A t \in Workers : pc[t] = "exit" => leaving[t] = "start"

WakeInv == WakeTypeOK /\ Announced /\ CounterInv /\ Woken /\ GoneInv

\* A worker at work stays, and the others stay where they are.
LEMMA WorkStays ==
  ASSUME WakeTypeOK, NEW t \in Workers, Work(t)
  PROVE  /\ pc' \in [Workers -> Labels]
         /\ \A u \in Workers : pc'[u] = "exit" => pc[u] = "exit"
<1>1. pc' = pc \/ \E label \in Labels \ {"exit"} : pc' = [pc EXCEPT ![t] = label]
  <2>1. CASE GetTracks(t)
    BY <2>1 DEF GetTracks, Suspend, Wake, FeedNothing, Feed, CountServed, LoadEvent, Book, CheckBooked,
                Clone, Return, Goto, Labels
  <2>2. CASE ActivateEvent(t)
    BY <2>2 DEF ActivateEvent, CheckServed, NoMoreTracks, TakeSlot, NoSlot, ClearOld, ClearDispatched,
                TakePending, NoPending, ReturnSlot, Replace, Overtaken, UndoPending, UndoSlot,
                CountActive, FlagServed, FlagHasTracks, Return, Goto, Labels
  <2>3. CASE Transport(t)
    BY <2>3 DEF Transport, AddTrack, StopTrack, CheckLeft, Prioritize, CountPriority, EventTransported,
                CompletedEvent, LockGenerator, GenerateNewEvent, AddEvent, CountStored, ResetServed,
                ResetHasTracks, Resume, Goto, Labels
  <2>4. CASE BackToFeed(t)
    BY <2>4 DEF BackToFeed, Goto, Labels
  <2> QED
    BY <2>1, <2>2, <2>3, <2>4 DEF Work
<1>2. CASE pc' = pc
  BY <1>2 DEF WakeTypeOK
<1>3. ASSUME NEW label \in Labels \ {"exit"}, pc' = [pc EXCEPT ![t] = label]
      PROVE  /\ pc' \in [Workers -> Labels]
             /\ \A u \in Workers : pc'[u] = "exit" => pc[u] = "exit"
  BY <1>3 DEF WakeTypeOK
<1> QED
  BY <1>1, <1>2, <1>3

LEMMA CountedFinite ==
  ASSUME NEW p \in Propagators
  PROVE  IsFiniteSet(Counted(p)) /\ Cardinality(Counted(p)) \in Nat
<1>1. Counted(p) \subseteq WorkersOf(p)
  BY DEF Counted
<1> QED
  BY <1>1, WorkersFinite, FS_Subset, FS_CardinalityType

\* The main threads start with nothing counted.
LEMMA WakeInit == RunInit => WakeInv
<1> SUFFICES ASSUME RunInit PROVE WakeInv
  OBVIOUS
<1>1. WakeTypeOK /\ GoneInv
  BY DEF RunInit, Init, WakeTypeOK, GoneInv, Labels
<1>2. \A p \in Propagators : /\ main[p].ntowait = Cardinality(WorkersOf(p)) /\ main[p].pc = "pop"
                             /\ n_waiting_[p] = 0 /\ counter_[p] = 0
  BY DEF RunInit
<1>3. \A p \in Propagators : Cardinality(Counted(p)) = 0
  <2>1. \A p \in Propagators : Counted(p) = {}
    BY DEF RunInit, Counted, WorkersOf
  <2> QED
    BY <2>1, FS_EmptySet
<1>4. CounterInv
  BY <1>2, <1>3, WorkersFinite DEF CounterInv
<1> QED
  BY <1>1, <1>2, <1>4 DEF WakeInv, Announced, Woken

\* A worker that is at work changes nothing of this.
LEMMA WakeWork ==
  ASSUME DoneInv, WakeInv, NEW t \in Workers, Work(t), UNCHANGED <<leaving, done>>
  PROVE  WakeInv'
<1>1. pc' \in [Workers -> Labels] /\ \A u \in Workers : pc'[u] = "exit" => pc[u] = "exit"
  BY WorkStays DEF WakeInv
<1>2. WakeTypeOK' /\ GoneInv'
  BY <1>1 DEF WakeInv, WakeTypeOK, GoneInv, done
<1>3. Announced' /\ CounterInv' /\ Woken'
  BY DEF WakeInv, Announced, CounterInv, Woken, Counted, WorkersOf, done
<1> QED
  BY <1>2, <1>3 DEF WakeInv

\* A worker that leaves: it counts its signal, and then looks whether it has
\* to notify; between the two the main thread may go to sleep.
LEMMA WakeLeaving ==
  ASSUME DoneInv, WakeInv, NEW t \in Workers,
         Enqueue(t) \/ Count(t) \/ LoadWaiting(t) \/ NotifyOne(t) \/ Leave(t)
  PROVE  WakeInv'
<1> DEFINE p0 == Propagator[t]
<1>0. /\ p0 \in Propagators /\ t \in WorkersOf(p0)
      /\ \A p \in Propagators : t \in WorkersOf(p) => p = p0
      /\ \A p \in Propagators : WorkersOf(p) \subseteq Workers
      /\ leaving \in [Workers -> Phases]
      /\ main \in [Propagators -> [pc : MainLabels, ntowait : Nat]]
  BY DEF Propagators, WorkersOf, DoneInv, DoneTypeOK
<1>1. CASE Enqueue(t)
  <2>1. /\ leaving[t] = "no" /\ leaving' = [leaving EXCEPT ![t] = "count"]
        /\ UNCHANGED <<pc, counter_, n_waiting_, main, missed>> /\ pc[t] = "feed"
    BY <1>1 DEF Enqueue, Left, vars
  <2>2. \A u \in Workers : leaving'[u] = IF u = t THEN "count" ELSE leaving[u]
    BY <1>0, <2>1
  <2>3. \A p \in Propagators : Counted(p)' = Counted(p)
    BY <1>0, <2>1, <2>2 DEF Counted, WorkersOf
  <2>4. Woken'
    BY <1>0, <2>1, <2>2 DEF WakeInv, Woken, WorkersOf
  <2> QED
    BY <2>1, <2>2, <2>3, <2>4 DEF WakeInv, WakeTypeOK, Announced, CounterInv, GoneInv, WorkersOf
<1>2. CASE Count(t)
  <2>1. /\ leaving[t] = "count" /\ leaving' = [leaving EXCEPT ![t] = "load"]
        /\ counter_' = [counter_ EXCEPT ![p0] = @ + 1]
        /\ UNCHANGED <<pc, n_waiting_, main, missed>>
    BY <1>2 DEF Count, Left, vars
  <2>2. /\ \A u \in Workers : leaving'[u] = IF u = t THEN "load" ELSE leaving[u]
        /\ \A p \in Propagators : counter_'[p] = IF p = p0 THEN counter_[p] + 1 ELSE counter_[p]
    BY <1>0, <2>1 DEF WakeInv, WakeTypeOK
  <2>3. /\ Counted(p0)' = Counted(p0) \union {t} /\ t \notin Counted(p0)
        /\ \A p \in Propagators : p # p0 => Counted(p)' = Counted(p)
    BY <1>0, <2>1, <2>2 DEF Counted, WorkersOf
  <2>4. Cardinality(Counted(p0)') = Cardinality(Counted(p0)) + 1
    BY <1>0, <2>3, CountedFinite, FS_AddElement
  <2>5. CounterInv'
    <3> SUFFICES ASSUME NEW p \in Propagators
                 PROVE  counter_'[p] + Cardinality(WorkersOf(p)) + (IF main[p].pc = "return" THEN 1 ELSE 0)
                          = Cardinality(Counted(p)') + main[p].ntowait
      BY <2>1 DEF CounterInv, WorkersOf
    <3>1. counter_[p] \in Int /\ main[p].ntowait \in Nat
      BY <1>0 DEF WakeInv, WakeTypeOK
    <3>2. counter_[p] + Cardinality(WorkersOf(p)) + (IF main[p].pc = "return" THEN 1 ELSE 0)
            = Cardinality(Counted(p)) + main[p].ntowait
      BY DEF WakeInv, CounterInv
    <3> QED
      BY <2>2, <2>3, <2>4, <3>1, <3>2, WorkersFinite, CountedFinite
  <2>6. Woken'
    <3> SUFFICES ASSUME NEW p \in Propagators, main[p].pc \in {"wait", "asleep"}, p \notin missed,
                        counter_'[p] > 0
                 PROVE  \E u \in WorkersOf(p) : leaving'[u] \in {"load", "notify"}
      BY <2>1 DEF Woken, WorkersOf
    <3>1. CASE p = p0
      BY <1>0, <2>2, <3>1
    <3>2. CASE p # p0
      BY <1>0, <2>2, <3>2 DEF WakeInv, Woken
    <3> QED
      BY <3>1, <3>2
  <2>7. WakeTypeOK'
    BY <1>0, <2>1 DEF WakeInv, WakeTypeOK
  <2> QED
    BY <2>1, <2>2, <2>5, <2>6, <2>7 DEF WakeInv, Announced, GoneInv
<1>3. CASE LoadWaiting(t)
  <2>1. /\ leaving[t] = "load"
        /\ leaving' = [leaving EXCEPT ![t] = IF n_waiting_[p0] = 0 THEN "start" ELSE "notify"]
        /\ UNCHANGED <<pc, counter_, n_waiting_, main, missed>>
    BY <1>3 DEF LoadWaiting, Left, vars, done
  <2>2. \A u \in Workers :
          leaving'[u] = IF u = t THEN (IF n_waiting_[p0] = 0 THEN "start" ELSE "notify") ELSE leaving[u]
    BY <1>0, <2>1
  <2>3. \A p \in Propagators : Counted(p)' = Counted(p)
    BY <1>0, <2>1, <2>2 DEF Counted, WorkersOf
  <2>4. Woken'
    <3> SUFFICES ASSUME NEW p \in Propagators, main[p].pc \in {"wait", "asleep"}, p \notin missed,
                        counter_[p] > 0
                 PROVE  \E u \in WorkersOf(p) : leaving'[u] \in {"load", "notify"}
      BY <2>1 DEF Woken, WorkersOf
    <3>1. n_waiting_[p] = 1
      BY DEF WakeInv, Announced
    <3>2. PICK u \in WorkersOf(p) : leaving[u] \in {"load", "notify"}
      BY DEF WakeInv, Woken
    <3>3. leaving'[u] \in {"load", "notify"}
      BY <1>0, <2>2, <3>1, <3>2
    <3> QED
      BY <3>3
  <2> QED
    BY <2>1, <2>2, <2>3, <2>4 DEF WakeInv, WakeTypeOK, Announced, CounterInv, GoneInv, WorkersOf
<1>4. CASE NotifyOne(t)
  <2>1. /\ leaving[t] = "notify" /\ leaving' = [leaving EXCEPT ![t] = "start"]
        /\ main' = [main EXCEPT ![p0].pc = IF @ = "asleep" THEN "look" ELSE @]
        /\ missed' = missed \union (IF main[p0].pc = "wait" THEN {p0} ELSE {})
        /\ UNCHANGED <<pc, counter_, n_waiting_>>
    BY <1>4 DEF NotifyOne, Left, vars
  <2>2. /\ \A u \in Workers : leaving'[u] = IF u = t THEN "start" ELSE leaving[u]
        /\ \A p \in Propagators : p # p0 => main'[p] = main[p]
        /\ main'[p0].ntowait = main[p0].ntowait
        /\ main'[p0].pc = IF main[p0].pc = "asleep" THEN "look" ELSE main[p0].pc
    BY <1>0, <2>1
  <2>3. \A p \in Propagators : Counted(p)' = Counted(p)
    BY <1>0, <2>1, <2>2 DEF Counted, WorkersOf
  <2>4. Woken'
    <3> SUFFICES ASSUME NEW p \in Propagators, main'[p].pc \in {"wait", "asleep"}, p \notin missed',
                        counter_[p] > 0
                 PROVE  \E u \in WorkersOf(p) : leaving'[u] \in {"load", "notify"}
      BY <2>1 DEF Woken, WorkersOf
    <3>1. p # p0
      BY <2>1, <2>2
    <3>2. main[p].pc \in {"wait", "asleep"} /\ p \notin missed
      BY <2>1, <2>2, <3>1
    <3>3. PICK u \in WorkersOf(p) : leaving[u] \in {"load", "notify"}
      BY <3>2 DEF WakeInv, Woken
    <3> QED
      BY <1>0, <2>2, <3>1, <3>3
  <2>5. \A p \in Propagators : /\ main'[p].ntowait = main[p].ntowait
                               /\ main'[p].pc = "return" <=> main[p].pc = "return"
    BY <2>2
  <2>6. CounterInv'
    BY <2>1, <2>3, <2>5 DEF WakeInv, CounterInv, WorkersOf
  <2>7. Announced'
    BY <2>1, <2>2 DEF WakeInv, Announced
  <2> QED
    BY <2>1, <2>2, <2>4, <2>6, <2>7 DEF WakeInv, WakeTypeOK, GoneInv
<1>5. CASE Leave(t)
  <2>1. leaving[t] = "start" /\ pc' = [pc EXCEPT ![t] = "exit"] /\ UNCHANGED <<leaving, done>>
    BY <1>5 DEF Leave, Exit, Goto
  <2>2. WakeTypeOK' /\ GoneInv'
    BY <2>1 DEF WakeInv, WakeTypeOK, GoneInv, done, Labels
  <2> QED
    BY <2>1, <2>2 DEF WakeInv, Announced, CounterInv, Woken, Counted, WorkersOf, done
<1> QED
  BY <1>1, <1>2, <1>3, <1>4, <1>5

\* A step of the main thread.
LEMMA WakeMain ==
  ASSUME DoneInv, WakeInv, NEW p0 \in Propagators, WaitWorkers(p0)
  PROVE  WakeInv'
<1>0. /\ UNCHANGED <<leaving, pc>> /\ GoneInv'
      /\ \A p \in Propagators : Counted(p)' = Counted(p)
      /\ main \in [Propagators -> [pc : MainLabels, ntowait : Nat]]
      /\ WakeTypeOK /\ Announced /\ CounterInv /\ Woken
  BY DEF WaitWorkers, vars, WakeInv, GoneInv, Counted, WorkersOf, DoneInv, DoneTypeOK
\* Of the other propagators nothing changes.
<1>1. ASSUME UNCHANGED counter_ \/ counter_' = [counter_ EXCEPT ![p0] = @ - 1],
             UNCHANGED n_waiting_ \/ n_waiting_' = [n_waiting_ EXCEPT ![p0] = @ + 1]
               \/ (n_waiting_' = [n_waiting_ EXCEPT ![p0] = @ - 1] /\ n_waiting_[p0] = 1),
             \A p \in Propagators : p # p0 => main'[p] = main[p],
             missed' \in {missed, missed \ {p0}},
             main'[p0].pc \in {"look", "wait", "asleep", "spin", "return"} => n_waiting_'[p0] = 1,
             main'[p0].pc \in {"pop", "enter"} => n_waiting_'[p0] = 0,
             main'[p0].pc = "uncount" => n_waiting_'[p0] \in {0, 1},
             counter_'[p0] + Cardinality(WorkersOf(p0)) + (IF main'[p0].pc = "return" THEN 1 ELSE 0)
               = Cardinality(Counted(p0)) + main'[p0].ntowait,
             main'[p0].pc \in {"wait", "asleep"} =>
               /\ missed' = missed
               /\ counter_'[p0] <= 0 \/ (main[p0].pc = "wait" /\ counter_'[p0] = counter_[p0])
      PROVE  WakeInv'
  <2>1. /\ \A p \in Propagators : p # p0 => counter_'[p] = counter_[p] /\ n_waiting_'[p] = n_waiting_[p]
        /\ counter_' \in [Propagators -> Int] /\ n_waiting_' \in [Propagators -> Nat]
    BY <1>0, <1>1 DEF WakeTypeOK
  <2>2. WakeTypeOK'
    BY <1>0, <2>1 DEF WakeTypeOK
  <2>3. Announced'
    BY <1>0, <1>1, <2>1 DEF Announced
  <2>4. CounterInv'
    <3> SUFFICES ASSUME NEW p \in Propagators
                 PROVE  counter_'[p] + Cardinality(WorkersOf(p)) + (IF main'[p].pc = "return" THEN 1 ELSE 0)
                          = Cardinality(Counted(p)) + main'[p].ntowait
      BY <1>0 DEF CounterInv, WorkersOf
    <3> QED
      BY <1>0, <1>1, <2>1 DEF CounterInv
  <2>5. Woken'
    <3> SUFFICES ASSUME NEW p \in Propagators, main'[p].pc \in {"wait", "asleep"}, p \notin missed',
                        counter_'[p] > 0
                 PROVE  \E u \in WorkersOf(p) : leaving[u] \in {"load", "notify"}
      BY <1>0 DEF Woken, WorkersOf
    <3>1. CASE p = p0
      <4>1. main[p].pc = "wait" /\ counter_[p] > 0 /\ p \notin missed
        <5>1. ~ (counter_'[p] <= 0)
          BY <1>0, <2>1
        <5> QED
          BY <1>1, <3>1, <5>1
      <4> QED
        BY <1>0, <4>1 DEF Woken
    <3>2. CASE p # p0
      BY <1>0, <1>1, <2>1, <3>2 DEF Woken
    <3> QED
      BY <3>1, <3>2
  <2> QED
    BY <1>0, <2>2, <2>3, <2>4, <2>5 DEF WakeInv
<1>2. /\ counter_[p0] \in Int /\ n_waiting_[p0] \in Nat
      /\ main[p0] \in [pc : MainLabels, ntowait : Nat]
      /\ counter_[p0] + Cardinality(WorkersOf(p0)) + (IF main[p0].pc = "return" THEN 1 ELSE 0)
           = Cardinality(Counted(p0)) + main[p0].ntowait
      /\ main[p0].pc \in {"look", "wait", "asleep", "spin", "return"} => n_waiting_[p0] = 1
      /\ main[p0].pc \in {"pop", "enter"} => n_waiting_[p0] = 0
      /\ main[p0].pc = "uncount" => n_waiting_[p0] \in {0, 1}
  BY <1>0 DEF WakeTypeOK, CounterInv, Announced
<1>3. ASSUME NEW label \in MainLabels, main' = [main EXCEPT ![p0].pc = label]
      PROVE  /\ main'[p0].pc = label /\ main'[p0].ntowait = main[p0].ntowait
             /\ \A p \in Propagators : p # p0 => main'[p] = main[p]
  BY <1>0, <1>3
<1>4. CASE Pop(p0)
  <2>1. /\ main[p0].pc \in {"pop", "spin"} /\ main' = [main EXCEPT ![p0].pc = "uncount"]
        /\ UNCHANGED <<counter_, n_waiting_, missed>>
    BY <1>4 DEF Pop, At, GoOn
  <2> QED
    BY <1>1, <1>2, <1>3, <2>1 DEF MainLabels
<1>5. CASE PopNothing(p0)
  <2>1. /\ main[p0].pc = "pop" /\ main' = [main EXCEPT ![p0].pc = "enter"]
        /\ UNCHANGED <<counter_, n_waiting_, missed>>
    BY <1>5 DEF PopNothing, At, GoOn
  <2> QED
    BY <1>1, <1>2, <1>3, <2>1 DEF MainLabels
<1>6. CASE Enter(p0)
  <2>1. /\ main[p0].pc = "enter" /\ main' = [main EXCEPT ![p0].pc = "look"]
        /\ UNCHANGED counter_ /\ missed' = missed \ {p0}
        /\ n_waiting_' = [n_waiting_ EXCEPT ![p0] = @ + 1] /\ n_waiting_'[p0] = 1
    BY <1>0, <1>2, <1>6 DEF Enter, At, GoOn, WakeTypeOK
  <2> QED
    BY <1>1, <1>2, <1>3, <2>1 DEF MainLabels
<1>7. CASE Look(p0)
  <2>1. /\ main[p0].pc = "look"
        /\ main' = [main EXCEPT ![p0].pc = IF counter_[p0] = 0 THEN "wait" ELSE "spin"]
        /\ UNCHANGED <<counter_, n_waiting_, missed>>
    BY <1>7 DEF Look, At, GoOn
  <2>2. CASE counter_[p0] = 0
    BY <1>1, <1>2, <1>3, <2>1, <2>2 DEF MainLabels
  <2>3. CASE counter_[p0] # 0
    BY <1>1, <1>2, <1>3, <2>1, <2>3 DEF MainLabels
  <2> QED
    BY <2>2, <2>3
<1>8. CASE Wait(p0)
  <2>1. /\ main[p0].pc = "wait" /\ main' = [main EXCEPT ![p0].pc = "asleep"]
        /\ UNCHANGED <<counter_, n_waiting_, missed>>
    BY <1>8 DEF Wait, At, GoOn
  <2> QED
    BY <1>1, <1>2, <1>3, <2>1 DEF MainLabels
<1>9. CASE Uncount(p0) /\ n_waiting_[p0] # 0
  <2>1. /\ main[p0].pc = "uncount" /\ main' = [main EXCEPT ![p0].pc = "return"]
        /\ UNCHANGED <<n_waiting_, missed>> /\ n_waiting_[p0] = 1
        /\ counter_' = [counter_ EXCEPT ![p0] = @ - 1] /\ counter_'[p0] = counter_[p0] - 1
    BY <1>0, <1>2, <1>9 DEF Uncount, At, GoOn, WakeTypeOK
  <2> QED
    BY <1>1, <1>2, <1>3, <2>1, WorkersFinite, CountedFinite DEF MainLabels
<1>10. CASE (Uncount(p0) /\ n_waiting_[p0] = 0) \/ ReturnPopped(p0)
  <2>1. Popped(p0) /\ UNCHANGED missed /\ main[p0].pc \in {"uncount", "return"}
    BY <1>10 DEF Uncount, ReturnPopped, At
  <2>2. /\ main'[p0].ntowait = main[p0].ntowait - 1 /\ main'[p0].pc \in {"join", "pop"}
        /\ \A p \in Propagators : p # p0 => main'[p] = main[p]
    BY <1>0, <2>1 DEF Popped
  <2>3. CASE Uncount(p0) /\ n_waiting_[p0] = 0
    <3>1. /\ counter_' = [counter_ EXCEPT ![p0] = @ - 1] /\ counter_'[p0] = counter_[p0] - 1
          /\ UNCHANGED n_waiting_ /\ main[p0].pc = "uncount"
      BY <1>0, <2>3 DEF Uncount, At, WakeTypeOK
    <3> QED
      BY <1>1, <1>2, <2>1, <2>2, <2>3, <3>1, WorkersFinite, CountedFinite
  <2>4. CASE ReturnPopped(p0)
    <3>1. /\ UNCHANGED counter_ /\ main[p0].pc = "return" /\ n_waiting_[p0] = 1
          /\ n_waiting_' = [n_waiting_ EXCEPT ![p0] = @ - 1] /\ n_waiting_'[p0] = 0
      BY <1>0, <1>2, <2>4 DEF ReturnPopped, At, WakeTypeOK
    <3> QED
      BY <1>1, <1>2, <2>1, <2>2, <3>1, WorkersFinite, CountedFinite
  <2> QED
    BY <1>10, <2>3, <2>4
<1>11. CASE JoinThreads(p0)
  <2>1. /\ main[p0].pc = "join" /\ main' = [main EXCEPT ![p0].pc = "done"]
        /\ UNCHANGED <<counter_, n_waiting_, missed>>
    BY <1>11 DEF JoinThreads, At, GoOn
  <2> QED
    BY <1>1, <1>2, <1>3, <2>1 DEF MainLabels
<1> QED
  BY <1>4, <1>5, <1>6, <1>7, <1>8, <1>9, <1>10, <1>11 DEF WaitWorkers

\* Every step keeps it.
LEMMA WakeNext == DoneInv /\ WakeInv /\ [RunNext]_<<vars, leaving, done>> => WakeInv'
<1> SUFFICES ASSUME DoneInv, WakeInv, [RunNext]_<<vars, leaving, done>> PROVE WakeInv'
  OBVIOUS
<1>1. CASE UNCHANGED <<vars, leaving, done>>
  BY <1>1 DEF WakeInv, WakeTypeOK, Announced, CounterInv, Woken, GoneInv, Counted, WorkersOf, vars, done
<1>2. ASSUME NEW t \in Workers, RunStep(t)
      PROVE  WakeInv'
  BY <1>2, WakeWork, WakeLeaving DEF RunStep
<1>3. ASSUME NEW p \in Propagators, WaitWorkers(p)
      PROVE  WakeInv'
  BY <1>3, WakeMain
<1> QED
  BY <1>1, <1>2, <1>3 DEF RunNext, RunFinished

\* After the last worker has gone every signal is counted and notified.
LEMMA InvWakeUpMissed == DoneInv /\ WakeInv => WakeUpMissed
<1> SUFFICES ASSUME DoneInv, WakeInv, NEW p \in Propagators, main[p].pc = "asleep",
                    \A t \in WorkersOf(p) : pc[t] = "exit", p \notin missed
             PROVE  FALSE
  BY DEF WakeUpMissed, At
<1>1. \A t \in WorkersOf(p) : leaving[t] = "start"
  BY DEF WakeInv, GoneInv, WorkersOf
<1>2. Counted(p) = WorkersOf(p)
  BY <1>1 DEF Counted
<1>3. main[p].ntowait \in Nat /\ main[p].ntowait # 0
  BY DEF DoneInv, DoneTypeOK
<1>4. counter_[p] \in Int /\ counter_[p] = main[p].ntowait
  <2>1. counter_[p] \in Int
    BY DEF WakeInv, WakeTypeOK
  <2>2. counter_[p] + Cardinality(WorkersOf(p)) + 0 = Cardinality(WorkersOf(p)) + main[p].ntowait
    BY <1>2 DEF WakeInv, CounterInv
  <2> QED
    BY <1>3, <2>1, <2>2, WorkersFinite
<1>5. counter_[p] > 0
  BY <1>3, <1>4
<1> QED
  BY <1>1, <1>5 DEF WakeInv, Woken

\* For any number of workers: a main thread that is left asleep when its
\* workers are gone got a notification between its look at the counter and its
\* wait.  There is no other way to lose the wake-up, although push counts,
\* looks and notifies in three steps without the mutex.
THEOREM RunWakeUpMissed == RunSpec => []WakeUpMissed
<1> QED
  BY DoneInitInv, RunNextInv, WakeInit, WakeNext, InvWakeUpMissed, PTL DEF RunSpec

=============================================================================
