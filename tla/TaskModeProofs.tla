--------------------------- MODULE TaskModeProofs ---------------------------
(***************************************************************************)
(* A task data object has one owner, and a task returns when its events    *)
(* are transported and leaves no stack, for any number of tasks, events    *)
(* and task data, whatever the tasks share, steal and finish for others.   *)
(***************************************************************************)
EXTENDS TaskMode, QueueLemmas

------------------------------------------------------------------------------
(* The inductive invariant                                                 *)

Locals == [pc : Pcs, td : TaskData \union {Null}, flush : BOOLEAN, toadd : SUBSET Events,
           ev : Events \union Tasks \union {Null}]

TypeInv ==
  /\ fQueue \in Seq(TaskData)
  /\ fActiveTasks \in [Slots -> TaskData \union {Null}]
  /\ stack \in [TaskData -> SUBSET Tracks] /\ staged \in [TaskData -> SUBSET Tracks]
  /\ fQshare \in [TaskData -> SUBSET Tracks]
  /\ todo \subseteq Tracks /\ fDoneEvents \subseteq Events
  /\ fEventSets \in Seq(Tasks) /\ fEventSetsLock \in Tasks \union {Null}
  /\ fEventNumber \in [Events -> Events \union {Null}]
  /\ marked \subseteq Events /\ early \subseteq Events /\ fDone \in [Tasks -> BOOLEAN]
  /\ tk \in [Tasks -> Locals]

\* Between Book and Release a task has a task data; it is in a slot only while
\* the task is not on its way out.
PoolInv ==
  /\ IsInjective(fQueue)
  /\ \A d \in TaskData : d \in Range(fQueue) <=> \A t \in Tasks : tk[t].td # d
  /\ \A t, u \in Tasks : tk[t].td = tk[u].td /\ tk[t].td # Null => t = u
  /\ \A t \in Tasks : tk[t].td = Null <=> tk[t].pc \in {"book", "out"}
  /\ \A s \in Slots : fActiveTasks[s] # Null =>
       \E t \in Tasks : tk[t].td = fActiveTasks[s] /\ tk[t].pc # "release"

\* Where a task may have tracks on its stack; an object in the pool has none.
InLoop == {"enter", "inject", "loop", "notify", "erase"}
StackInv ==
  /\ \A d \in Range(fQueue) : stack[d] = {}
  /\ \A t \in Tasks : tk[t].td # Null /\ tk[t].pc \notin InLoop => stack[tk[t].td] = {}

\* What a mark means: an event whose number is recorded is marked when it is
\* transported, any other was marked early.
MarkInv ==
  /\ \A t \in Tasks :
       /\ tk[t].toadd \subseteq EventsOf[t]
       /\ \A m \in EventsOf[t] \ tk[t].toadd : fEventNumber[m] = m
       /\ tk[t].pc = "number" => tk[t].ev \in tk[t].toadd
       /\ tk[t].pc = "notify" => tk[t].ev \in fDoneEvents
       /\ tk[t].pc = "erase" => tk[t].ev \in Tasks
       /\ fDone[t] => EventsOf[t] \subseteq marked
  /\ marked \subseteq fDoneEvents \union early

IInv == TypeInv /\ PoolInv /\ StackInv /\ MarkInv

------------------------------------------------------------------------------
(* What a step does to the locals                                          *)

\* The fields of the locals after a step of their task.
LEMMA DoLocals ==
  ASSUME TypeInv, NEW t \in Tasks, NEW c, Do(t, c)
  PROVE  /\ \A u \in Tasks : u # t => tk'[u] = tk[u]
         /\ tk'[t].pc = IF "pc" \in DOMAIN c THEN c["pc"] ELSE tk[t].pc
         /\ tk'[t].td = IF "td" \in DOMAIN c THEN c["td"] ELSE tk[t].td
         /\ tk'[t].flush = IF "flush" \in DOMAIN c THEN c["flush"] ELSE tk[t].flush
         /\ tk'[t].toadd = IF "toadd" \in DOMAIN c THEN c["toadd"] ELSE tk[t].toadd
         /\ tk'[t].ev = IF "ev" \in DOMAIN c THEN c["ev"] ELSE tk[t].ev
<1> DEFINE new == [f \in DOMAIN tk[t] |-> IF f \in DOMAIN c THEN c[f] ELSE tk[t][f]]
<1>1. /\ tk \in [Tasks -> Locals] /\ tk[t] \in Locals
      /\ tk'[t] = new
      /\ \A u \in Tasks : u # t => tk'[u] = tk[u]
  BY DEF TypeInv, Do
<1>2. DOMAIN tk[t] = {"pc", "td", "flush", "toadd", "ev"}
  BY <1>1 DEF Locals
<1>3. /\ new.pc = IF "pc" \in DOMAIN c THEN c["pc"] ELSE tk[t].pc
      /\ new.td = IF "td" \in DOMAIN c THEN c["td"] ELSE tk[t].td
      /\ new.flush = IF "flush" \in DOMAIN c THEN c["flush"] ELSE tk[t].flush
      /\ new.toadd = IF "toadd" \in DOMAIN c THEN c["toadd"] ELSE tk[t].toadd
      /\ new.ev = IF "ev" \in DOMAIN c THEN c["ev"] ELSE tk[t].ev
  BY <1>2
<1> QED
  BY <1>1, <1>3

\* The locals have their type when the new values have.
LEMMA DoTyped ==
  ASSUME TypeInv, NEW t \in Tasks, NEW c, Do(t, c),
         "pc" \in DOMAIN c => c["pc"] \in Pcs,
         "td" \in DOMAIN c => c["td"] \in TaskData \union {Null},
         "flush" \in DOMAIN c => c["flush"] \in BOOLEAN,
         "toadd" \in DOMAIN c => c["toadd"] \in SUBSET Events,
         "ev" \in DOMAIN c => c["ev"] \in Events \union Tasks \union {Null}
  PROVE  tk' \in [Tasks -> Locals]
<1> DEFINE new == [f \in DOMAIN tk[t] |-> IF f \in DOMAIN c THEN c[f] ELSE tk[t][f]]
<1>1. /\ tk \in [Tasks -> Locals] /\ tk[t] \in Locals
      /\ tk' = [tk EXCEPT ![t] = new]
  BY DEF TypeInv, Do
<1>2. DOMAIN tk[t] = {"pc", "td", "flush", "toadd", "ev"}
  BY <1>1 DEF Locals
<1>3. new = [pc |-> IF "pc" \in DOMAIN c THEN c["pc"] ELSE tk[t].pc,
             td |-> IF "td" \in DOMAIN c THEN c["td"] ELSE tk[t].td,
             flush |-> IF "flush" \in DOMAIN c THEN c["flush"] ELSE tk[t].flush,
             toadd |-> IF "toadd" \in DOMAIN c THEN c["toadd"] ELSE tk[t].toadd,
             ev |-> IF "ev" \in DOMAIN c THEN c["ev"] ELSE tk[t].ev]
  BY <1>2
<1>4. /\ tk[t].pc \in Pcs /\ tk[t].td \in TaskData \union {Null} /\ tk[t].flush \in BOOLEAN
      /\ tk[t].toadd \in SUBSET Events /\ tk[t].ev \in Events \union Tasks \union {Null}
  BY <1>1 DEF Locals
<1>5. new \in Locals
  BY <1>3, <1>4 DEF Locals
<1> QED
  BY <1>1, <1>5

------------------------------------------------------------------------------
(* Types                                                                   *)

LEMMA TypeInit ==
  ASSUME Init
  PROVE  TypeInv /\ IsInjective(fQueue) /\ Range(fQueue) = TaskData
<1>1. /\ IsFiniteSet(TaskData) /\ Null \notin Events \union TaskData /\ Garbage \subseteq Events \union {Null}
  BY TaskAssumption
<1> DEFINE n == Cardinality(TaskData)
<1>2. n \in Nat
  BY <1>1, FS_CardinalityType
<1>3. \E f \in [1 .. n -> TaskData] : IsInjective(f) /\ Range(f) = TaskData
  <2>1. PICK f \in Bijection(1 .. n, TaskData) : TRUE
    BY <1>1, FS_CardinalityType DEF ExistsBijection
  <2>2. f \in [1 .. n -> TaskData] /\ IsInjective(f) /\ Range(f) = TaskData
    BY <2>1 DEF Bijection, Injection, Surjection, IsInjective, Range
  <2> QED
    BY <2>2
<1>4. fQueue \in [1 .. n -> TaskData] /\ IsInjective(fQueue)
  BY <1>3 DEF Init, SetToSeq
<1>5. Range(fQueue) = TaskData
  <2>1. fQueue \in Injection(1 .. n, TaskData)
    BY <1>4 DEF Injection, IsInjective
  <2>2. IsFiniteSet(1 .. n) /\ Cardinality(1 .. n) = n
    BY <1>2, FS_Interval
  <2>3. fQueue \in Surjection(1 .. n, TaskData)
    BY <1>1, <2>1, <2>2, FS_Injection
  <2> QED
    BY <1>4, <2>3 DEF Surjection, Range
<1>6. fQueue \in Seq(TaskData)
  BY <1>2, <1>4
<1>7. /\ fActiveTasks \in [Slots -> TaskData \union {Null}]
      /\ stack \in [TaskData -> SUBSET Tracks] /\ staged \in [TaskData -> SUBSET Tracks]
      /\ fQshare \in [TaskData -> SUBSET Tracks]
      /\ todo \subseteq Tracks /\ fDoneEvents \subseteq Events
      /\ fEventSets \in Seq(Tasks) /\ fEventSetsLock \in Tasks \union {Null}
      /\ fEventNumber \in [Events -> Events \union {Null}]
      /\ marked \subseteq Events /\ early \subseteq Events /\ fDone \in [Tasks -> BOOLEAN]
  BY <1>1 DEF Init
<1>8. tk \in [Tasks -> Locals]
  <2>1. ASSUME NEW t \in Tasks PROVE EventsOf[t] \in SUBSET Events
    BY DEF Events
  <2> QED
    BY <2>1 DEF Init, Locals, Pcs
<1> QED
  BY <1>4, <1>5, <1>6, <1>7, <1>8 DEF TypeInv

\* Taking one element out of a sequence.
LEMMA RemoveTyped ==
  ASSUME NEW S, NEW q \in Seq(S), NEW i \in DOMAIN q
  PROVE  RemoveAt(q, i) \in Seq(S)
<1>1. i \in 1 .. Len(q) /\ Len(q) \in Nat /\ \A j \in 1 .. Len(q) : q[j] \in S
  OBVIOUS
<1>2. SubSeq(q, 1, i - 1) \in Seq(S)
  BY <1>1
<1>3. SubSeq(q, i + 1, Len(q)) \in Seq(S)
  BY <1>1
<1> QED
  BY <1>2, <1>3 DEF RemoveAt

\* The event of a track, and the locals of a task.
LEMMA Typed ==
  ASSUME TypeInv, NEW t \in Tasks
  PROVE  /\ tk[t].pc \in Pcs /\ tk[t].td \in TaskData \union {Null} /\ tk[t].flush \in BOOLEAN
         /\ tk[t].toadd \in SUBSET Events /\ tk[t].ev \in Events \union Tasks \union {Null}
         /\ EventsOf[t] \subseteq Events
         /\ \A e \in Events : TracksOf[e] \subseteq Tracks
         /\ \A x \in Tracks : EventOf(x) \in Events /\ x \in TracksOf[EventOf(x)]
<1>1. tk[t] \in Locals
  BY DEF TypeInv
<1>2. EventsOf[t] \subseteq Events /\ \A e \in Events : TracksOf[e] \subseteq Tracks
  BY DEF Events, Tracks
<1>3. ASSUME NEW x \in Tracks PROVE EventOf(x) \in Events /\ x \in TracksOf[EventOf(x)]
  BY DEF Tracks, EventOf
<1> QED
  BY <1>1, <1>2, <1>3 DEF Locals

\* A task that is inside has a task data.
LEMMA Owns ==
  ASSUME IInv, NEW t \in Tasks, tk[t].pc \notin {"book", "out"}
  PROVE  tk[t].td \in TaskData /\ tk[t].td # Null
<1> QED
  BY Typed DEF IInv, PoolInv

\* A registered set takes the event: the first that has it.
LEMMA FirstHit ==
  ASSUME TypeInv, NEW e, Hits(e) # {}
  PROVE  LET i == CHOOSE i \in Hits(e) : \A j \in Hits(e) : i <= j
         IN  fEventSets[i] \in Tasks /\ i \in Hits(e)
<1>1. Hits(e) \subseteq Nat
  BY DEF Hits, TypeInv
<1>2. \E i \in Hits(e) : \A j \in Hits(e) : i <= j
  BY <1>1, Least
<1> DEFINE i == CHOOSE i \in Hits(e) : \A j \in Hits(e) : i <= j
<1>3. i \in Hits(e)
  BY <1>2
<1>4. fEventSets[i] \in Tasks
  BY <1>3 DEF Hits, TypeInv
<1> QED
  BY <1>3, <1>4

\* A step of a task has the types.
LEMMA TypeStep ==
  ASSUME IInv, NEW t \in Tasks, Step(t)
  PROVE  TypeInv'
<1>1. /\ TypeInv
      /\ tk[t].pc \in Pcs /\ tk[t].td \in TaskData \union {Null} /\ tk[t].flush \in BOOLEAN
      /\ tk[t].toadd \in SUBSET Events /\ tk[t].ev \in Events \union Tasks \union {Null}
      /\ tk[t].toadd \subseteq EventsOf[t]
      /\ tk[t].pc \notin {"book", "out"} => tk[t].td \in TaskData
  BY Typed, Owns DEF IInv, MarkInv
<1>2. CASE Book(t)
  <2>1. Head(fQueue) \in TaskData /\ Tail(fQueue) \in Seq(TaskData)
    BY <1>1, <1>2, TailOnce DEF Book, IInv, PoolInv, TypeInv
  <2>2. tk' \in [Tasks -> Locals]
    BY <1>1, <1>2, <2>1, DoTyped DEF Book, Pcs
  <2> QED
    BY <1>1, <1>2, <2>1, <2>2 DEF Book, WithoutTaken, TypeInv, tracks, server, sets
<1>3. CASE TakeSlot(t) \/ Leave(t)
  <2>1. tk' \in [Tasks -> Locals]
    BY <1>1, <1>3, DoTyped DEF TakeSlot, Leave, Pcs
  <2>2. fActiveTasks' \in [Slots -> TaskData \union {Null}]
    BY <1>1, <1>3 DEF TakeSlot, Leave, TypeInv
  <2> QED
    BY <1>1, <1>3, <2>1, <2>2 DEF TakeSlot, Leave, TypeInv, tracks, server, sets
<1>4. CASE Release(t)
  <2>1. tk' \in [Tasks -> Locals]
    BY <1>1, <1>4, DoTyped DEF Release, Pcs
  <2>2. fQueue' \in Seq(TaskData)
    BY <1>1, <1>4 DEF Release, TypeInv
  <2> QED
    BY <1>1, <1>4, <2>1, <2>2 DEF Release, TypeInv, tracks, server, sets
<1>5. CASE Register(t)
  <2>1. tk' \in [Tasks -> Locals]
    BY <1>1, <1>5, DoTyped DEF Register, Pcs
  <2>2. fEventSets' \in Seq(Tasks)
    BY <1>1, <1>5 DEF Register, TypeInv
  <2> QED
    BY <1>1, <1>5, <2>1, <2>2 DEF Register, TypeInv, taskdata, tracks, server
<1>6. CASE AddEvent(t)
  <2>1. PICK e \in tk[t].toadd : todo' = todo \union TracksOf[e] /\ Do(t, [pc |-> "number", ev |-> e])
    BY <1>6 DEF AddEvent
  <2>2. tk' \in [Tasks -> Locals]
    BY <1>1, <2>1, DoTyped DEF Pcs
  <2>3. todo' \subseteq Tracks
    BY <1>1, <2>1, Typed DEF TypeInv
  <2> QED
    BY <1>1, <1>6, <2>2, <2>3 DEF AddEvent, TypeInv, taskdata, tracks, sets
<1>7. CASE RecordNumber(t)
  <2>1. tk[t].ev \in Events
    BY <1>1, <1>7 DEF RecordNumber, IInv, MarkInv
  <2>2. tk' \in [Tasks -> Locals]
    BY <1>1, <1>7, DoTyped DEF RecordNumber, Pcs
  <2>3. fEventNumber' \in [Events -> Events \union {Null}]
    BY <1>1, <1>7, <2>1 DEF RecordNumber, TypeInv
  <2> QED
    BY <1>1, <1>7, <2>2, <2>3 DEF RecordNumber, TypeInv, taskdata, tracks, server
<1>8. CASE Loop(t) \/ FeedNothing(t) \/ AfterLoop(t) \/ NotifyNobody(t)
  <2>1. fDone[t] \in BOOLEAN
    BY <1>1 DEF TypeInv
  <2>2. tk' \in [Tasks -> Locals]
    <3>1. CASE Loop(t) \/ NotifyNobody(t)
      BY <1>1, <3>1, DoTyped DEF Loop, NotifyNobody, Pcs
    <3>2. CASE FeedNothing(t)
      BY <1>1, <2>1, <3>2, DoTyped DEF FeedNothing, Pcs
    <3>3. CASE AfterLoop(t)
      BY <1>1, <2>1, <3>3, DoTyped DEF AfterLoop, Pcs
    <3> QED
      BY <1>8, <3>1, <3>2, <3>3
  <2>3. UNCHANGED <<taskdata, tracks, server, sets>>
    BY <1>8 DEF Loop, FeedNothing, AfterLoop, NotifyNobody
  <2> QED
    BY <1>1, <2>2, <2>3 DEF TypeInv, taskdata, tracks, server, sets
<1>9. CASE Serve(t)
  <2>1. fDone[t] \in BOOLEAN
    BY <1>1 DEF TypeInv
  <2>2. tk' \in [Tasks -> Locals]
    BY <1>1, <1>9, <2>1, DoTyped DEF Serve, Pcs
  <2>3. todo' \subseteq Tracks /\ stack' \in [TaskData -> SUBSET Tracks]
    BY <1>1, <1>9 DEF Serve, TypeInv
  <2> QED
    BY <1>1, <1>9, <2>2, <2>3 DEF Serve, TypeInv, taskdata, sets
<1>10. CASE FeedStolen(t) \/ EnterFlush(t)
  <2>1. fDone[t] \in BOOLEAN
    BY <1>1 DEF TypeInv
  <2>2. tk' \in [Tasks -> Locals]
    <3>1. CASE FeedStolen(t)
      BY <1>1, <2>1, <3>1, DoTyped DEF FeedStolen, Pcs
    <3>2. CASE EnterFlush(t)
      BY <1>1, <3>2, DoTyped DEF EnterFlush, Pcs
    <3> QED
      BY <1>10, <3>1, <3>2
  <2>3. Steal(t) \/ UNCHANGED <<taskdata, tracks, server, sets>>
    BY <1>10 DEF FeedStolen, EnterFlush
  <2>4. tk[t].td \in TaskData
    BY <1>1, <1>10 DEF FeedStolen, EnterFlush
  <2>5. ASSUME Steal(t) PROVE staged' \in [TaskData -> SUBSET Tracks] /\ fQshare' \in [TaskData -> SUBSET Tracks]
    <3>1. PICK v \in Stealable(tk[t].td) :
            /\ staged' = [staged EXCEPT ![tk[t].td] = @ \union fQshare[v]]
            /\ fQshare' = [fQshare EXCEPT ![v] = {}]
      BY <2>5 DEF Steal
    <3>2. v \in TaskData
      BY <1>1, <2>4, <3>1 DEF Stealable, Active, TypeInv
    <3> QED
      BY <1>1, <3>1, <3>2 DEF TypeInv
  <2> QED
    BY <1>1, <2>2, <2>3, <2>5 DEF Steal, TypeInv, taskdata, tracks, server, sets
<1>11. CASE Inject(t)
  <2>1. PICK S \in SUBSET stack[tk[t].td] :
          /\ fQshare' = [fQshare EXCEPT ![tk[t].td] = @ \union S]
          /\ staged' = [staged EXCEPT ![tk[t].td] = @ \union (stack[tk[t].td] \ S)]
          /\ stack' = [stack EXCEPT ![tk[t].td] = {}]
          /\ Do(t, [pc |-> IF tk[t].flush \/ stack[tk[t].td] \ S # {} THEN "loop" ELSE "after"])
    BY <1>11 DEF Inject
  <2>2. tk' \in [Tasks -> Locals]
    BY <1>1, <2>1, DoTyped DEF Pcs
  <2>3. tk[t].td \in TaskData
    BY <1>1, <1>11 DEF Inject
  <2>4. /\ fQshare' \in [TaskData -> SUBSET Tracks] /\ staged' \in [TaskData -> SUBSET Tracks]
        /\ stack' \in [TaskData -> SUBSET Tracks]
    BY <1>1, <2>1, <2>3 DEF TypeInv
  <2> QED
    BY <1>1, <1>11, <2>2, <2>4 DEF Inject, TypeInv, taskdata, server, sets
<1>12. CASE Continue(t)
  <2>1. staged' \in [TaskData -> SUBSET Tracks] /\ stack' \in [TaskData -> SUBSET Tracks]
    BY <1>1, <1>12 DEF Continue, TypeInv
  <2> QED
    BY <1>1, <1>12, <2>1 DEF Continue, TypeInv, taskdata, server, sets
<1>13. CASE EndTrack(t)
  <2>1. PICK x \in staged[tk[t].td] :
          /\ staged' = [staged EXCEPT ![tk[t].td] = @ \ {x}]
          /\ \/ /\ fDoneEvents' = fDoneEvents \union {EventOf(x)}
                /\ Do(t, [pc |-> "notify", ev |-> EventOf(x)])
             \/ UNCHANGED <<fDoneEvents, tk>>
    BY <1>13 DEF EndTrack
  <2>2. x \in Tracks
    BY <1>1, <1>13, <2>1 DEF EndTrack, TypeInv
  <2>3. EventOf(x) \in Events
    BY <1>1, <2>2, Typed
  <2>4. staged' \in [TaskData -> SUBSET Tracks] /\ fDoneEvents' \subseteq Events
    BY <1>1, <2>1, <2>3 DEF TypeInv
  <2>5. tk' \in [Tasks -> Locals]
    <3>1. CASE Do(t, [pc |-> "notify", ev |-> EventOf(x)])
      BY <1>1, <2>3, <3>1, DoTyped DEF Pcs
    <3> QED
      BY <1>1, <2>1, <3>1 DEF TypeInv
  <2> QED
    BY <1>1, <1>13, <2>4, <2>5 DEF EndTrack, TypeInv, taskdata, sets
<1>14. CASE EndRound(t)
  <2>1. staged' \in [TaskData -> SUBSET Tracks] /\ stack' \in [TaskData -> SUBSET Tracks]
    BY <1>1, <1>14 DEF EndRound, TypeInv
  <2>2. tk' \in [Tasks -> Locals]
    <3>1. CASE Do(t, [pc |-> "after"])
      BY <1>1, <3>1, DoTyped DEF Pcs
    <3> QED
      BY <1>1, <1>14, <3>1 DEF EndRound, TypeInv
  <2> QED
    BY <1>1, <1>14, <2>1, <2>2 DEF EndRound, TypeInv, taskdata, server, sets
<1>15. CASE MarkDone(t)
  <2> DEFINE set == fEventSets[CHOOSE i \in Hits(tk[t].ev) : \A j \in Hits(tk[t].ev) : i <= j]
  <2>1. set \in Tasks
    <3>1. Hits(tk[t].ev) # {}
      BY <1>15 DEF MarkDone
    <3> QED
      BY <1>1, <3>1, FirstHit
  <2> HIDE DEF set
  <2>2. PICK m \in EventsOf[set] :
          /\ marked' = marked \union {m}
          /\ early' = early \union ({m} \cap tk[set].toadd)
          /\ fDone' = [fDone EXCEPT ![set] = AllMarked(set, marked')]
          /\ \/ fEventSetsLock' = t /\ Do(t, [pc |-> "erase", ev |-> set])
             \/ Do(t, [pc |-> "loop", ev |-> Null]) /\ UNCHANGED fEventSetsLock
    BY <1>15 DEF MarkDone, set
  <2>3. m \in Events
    BY <1>1, <2>1, <2>2, Typed
  <2>4. tk' \in [Tasks -> Locals]
    <3>1. CASE Do(t, [pc |-> "erase", ev |-> set])
      BY <1>1, <2>1, <3>1, DoTyped DEF Pcs
    <3>2. CASE Do(t, [pc |-> "loop", ev |-> Null])
      BY <1>1, <3>2, DoTyped DEF Pcs
    <3> QED
      BY <2>2, <3>1, <3>2
  <2>5. /\ marked' \subseteq Events /\ early' \subseteq Events /\ fDone' \in [Tasks -> BOOLEAN]
        /\ fEventSetsLock' \in Tasks \union {Null}
    <3>1. AllMarked(set, marked') \in BOOLEAN
      BY DEF AllMarked
    <3> QED
      BY <1>1, <2>1, <2>2, <2>3, <3>1 DEF TypeInv
  <2> QED
    BY <1>1, <1>15, <2>4, <2>5 DEF MarkDone, TypeInv, taskdata, tracks, server
<1>16. CASE EraseSet(t)
  <2>1. tk' \in [Tasks -> Locals]
    BY <1>1, <1>16, DoTyped DEF EraseSet, Pcs
  <2>2. fEventSets' \in Seq(Tasks)
    BY <1>1, <1>16, RemoveTyped DEF EraseSet, TypeInv
  <2> QED
    BY <1>1, <1>16, <2>1, <2>2 DEF EraseSet, TypeInv, taskdata, tracks, server
<1> QED
  BY <1>2, <1>3, <1>4, <1>5, <1>6, <1>7, <1>8, <1>9, <1>10, <1>11, <1>12, <1>13, <1>14, <1>15, <1>16 DEF Step

------------------------------------------------------------------------------
(* The owners of task data                                                 *)

\* The steps between TakeSlot and Leave.
Working(t) ==
  \/ Register(t) \/ AddEvent(t) \/ RecordNumber(t)
  \/ Loop(t) \/ Serve(t) \/ FeedStolen(t) \/ FeedNothing(t) \/ EnterFlush(t) \/ Inject(t)
  \/ Continue(t) \/ EndTrack(t) \/ EndRound(t) \/ AfterLoop(t)
  \/ NotifyNobody(t) \/ MarkDone(t) \/ EraseSet(t)

Ways == {"book", "out", "slot", "release"}

\* They keep the task data and the slot.
LEMMA WorkingKeeps ==
  ASSUME IInv, NEW t \in Tasks, Working(t)
  PROVE  /\ UNCHANGED taskdata
         /\ \A u \in Tasks : u # t => tk'[u] = tk[u]
         /\ tk'[t].td = tk[t].td /\ tk[t].pc \notin Ways /\ tk'[t].pc \notin Ways
<1>1. TypeInv
  BY DEF IInv
<1>2. CASE Register(t)
  BY <1>1, <1>2, DoLocals DEF Register, Ways
<1>12. CASE AddEvent(t)
  <2>1. PICK e \in tk[t].toadd : Do(t, [pc |-> "number", ev |-> e])
    BY <1>12 DEF AddEvent
  <2> QED
    BY <1>1, <1>12, <2>1, DoLocals DEF AddEvent, Ways
<1>9. CASE RecordNumber(t)
  BY <1>1, <1>9, DoLocals DEF RecordNumber, Ways
<1>3. CASE Loop(t) \/ Serve(t) \/ NotifyNobody(t) \/ EraseSet(t)
  BY <1>1, <1>3, DoLocals DEF Loop, Serve, NotifyNobody, EraseSet, Ways
<1>4. CASE FeedStolen(t) \/ FeedNothing(t) \/ EnterFlush(t)
  BY <1>1, <1>4, DoLocals DEF FeedStolen, FeedNothing, EnterFlush, Steal, Ways
<1>5. CASE Inject(t)
  BY <1>1, <1>5, DoLocals DEF Inject, Ways
<1>6. CASE Continue(t)
  BY <1>1, <1>6 DEF Continue, Ways
<1>10. CASE EndTrack(t)
  <2>1. \/ UNCHANGED tk
        \/ \E e \in {EventOf(x) : x \in staged[tk[t].td]} : Do(t, [pc |-> "notify", ev |-> e])
    BY <1>10 DEF EndTrack
  <2>2. \A e : Do(t, [pc |-> "notify", ev |-> e]) =>
          /\ \A u \in Tasks : u # t => tk'[u] = tk[u]
          /\ tk'[t].td = tk[t].td /\ tk'[t].pc = "notify"
    BY <1>1, DoLocals
  <2> QED
    BY <1>10, <2>1, <2>2 DEF EndTrack, Ways
<1>11. CASE EndRound(t)
  <2>1. UNCHANGED tk \/ Do(t, [pc |-> "after"])
    BY <1>11 DEF EndRound
  <2>2. Do(t, [pc |-> "after"]) =>
          /\ \A u \in Tasks : u # t => tk'[u] = tk[u]
          /\ tk'[t].td = tk[t].td /\ tk'[t].pc = "after"
    BY <1>1, DoLocals
  <2> QED
    BY <1>11, <2>1, <2>2 DEF EndRound, Ways
<1>7. CASE AfterLoop(t)
  BY <1>1, <1>7, DoLocals DEF AfterLoop, Ways
<1>8. CASE MarkDone(t)
  BY <1>1, <1>8, DoLocals DEF MarkDone, Ways
<1> QED
  BY <1>2, <1>3, <1>4, <1>5, <1>6, <1>7, <1>8, <1>9, <1>10, <1>11, <1>12 DEF Working

LEMMA PoolStep ==
  ASSUME IInv, NEW t \in Tasks, Step(t)
  PROVE  PoolInv'
<1>1. TypeInv /\ PoolInv /\ fQueue \in Seq(TaskData) /\ Null \notin TaskData
  BY TaskAssumption DEF IInv, TypeInv
<1>2. CASE Working(t)
  <2>1. /\ fQueue' = fQueue /\ fActiveTasks' = fActiveTasks
        /\ \A u \in Tasks : u # t => tk'[u] = tk[u]
        /\ tk'[t].td = tk[t].td /\ tk[t].pc \notin Ways /\ tk'[t].pc \notin Ways
    BY <1>2, WorkingKeeps DEF taskdata
  <2>2. /\ \A u \in Tasks : tk'[u].td = tk[u].td
        /\ \A u \in Tasks : tk'[u].pc \in {"book", "out"} <=> tk[u].pc \in {"book", "out"}
        /\ \A u \in Tasks : tk'[u].pc = "release" <=> tk[u].pc = "release"
    BY <2>1 DEF Ways
  <2> QED
    BY <1>1, <2>1, <2>2 DEF PoolInv
<1>3. CASE Book(t)
  <2> DEFINE d == Head(fQueue)
  <2>1. /\ d \in TaskData /\ d \in Range(fQueue) /\ IsInjective(fQueue')
        /\ Range(fQueue') = Range(fQueue) \ {d} /\ fActiveTasks' = fActiveTasks
    BY <1>1, <1>3, TailOnce DEF Book, WithoutTaken, PoolInv
  <2> HIDE DEF d
  <2>2. /\ \A u \in Tasks : u # t => tk'[u] = tk[u]
        /\ tk'[t].pc = "slot" /\ tk'[t].td = d
        /\ tk[t].pc = "book"
    BY <1>1, <1>3, DoLocals DEF Book, d
  <2>3. tk[t].td = Null /\ \A u \in Tasks : tk[u].td # d
    BY <1>1, <2>1, <2>2 DEF PoolInv
  <2>4. \A c \in TaskData : c \in Range(fQueue') <=> \A u \in Tasks : tk'[u].td # c
    BY <1>1, <2>1, <2>2, <2>3 DEF PoolInv
  <2>5. \A u, v \in Tasks : tk'[u].td = tk'[v].td /\ tk'[u].td # Null => u = v
    BY <1>1, <2>2, <2>3 DEF PoolInv
  <2>6. \A u \in Tasks : tk'[u].td = Null <=> tk'[u].pc \in {"book", "out"}
    BY <1>1, <2>1, <2>2 DEF PoolInv
  <2>7. \A s \in Slots : fActiveTasks'[s] # Null =>
          \E u \in Tasks : tk'[u].td = fActiveTasks'[s] /\ tk'[u].pc # "release"
    BY <1>1, <2>1, <2>2, <2>3 DEF PoolInv
  <2> QED
    BY <2>1, <2>4, <2>5, <2>6, <2>7 DEF PoolInv
<1>4. CASE TakeSlot(t)
  <2>1. /\ fQueue' = fQueue
        /\ \A u \in Tasks : u # t => tk'[u] = tk[u]
        /\ tk'[t].td = tk[t].td /\ tk[t].pc = "slot" /\ tk'[t].pc = "register"
    BY <1>1, <1>4, DoLocals DEF TakeSlot
  <2>2. \A s \in Slots : fActiveTasks'[s] \in {fActiveTasks[s], tk[t].td}
    BY <1>1, <1>4 DEF TakeSlot, TypeInv
  <2>3. /\ \A u \in Tasks : tk'[u].td = tk[u].td
        /\ \A u \in Tasks : tk'[u].pc \in {"book", "out"} <=> tk[u].pc \in {"book", "out"}
        /\ \A u \in Tasks : tk'[u].pc = "release" <=> tk[u].pc = "release"
    BY <2>1
  <2>4. \A s \in Slots : fActiveTasks'[s] # Null =>
          \E u \in Tasks : tk'[u].td = fActiveTasks'[s] /\ tk'[u].pc # "release"
    BY <1>1, <2>1, <2>2, <2>3 DEF PoolInv
  <2> QED
    BY <1>1, <2>1, <2>3, <2>4 DEF PoolInv
<1>5. CASE Leave(t)
  <2>1. /\ fQueue' = fQueue
        /\ \A u \in Tasks : u # t => tk'[u] = tk[u]
        /\ tk'[t].td = tk[t].td /\ tk[t].pc = "end" /\ tk'[t].pc = "release"
    BY <1>1, <1>5, DoLocals DEF Leave
  <2>2. \A s \in Slots : fActiveTasks'[s] # Null =>
          fActiveTasks'[s] = fActiveTasks[s] /\ fActiveTasks[s] # tk[t].td
    BY <1>1, <1>5 DEF Leave
  <2>3. /\ \A u \in Tasks : tk'[u].td = tk[u].td
        /\ \A u \in Tasks : tk'[u].pc \in {"book", "out"} <=> tk[u].pc \in {"book", "out"}
    BY <2>1
  <2>4. \A s \in Slots : fActiveTasks'[s] # Null =>
          \E u \in Tasks : tk'[u].td = fActiveTasks'[s] /\ tk'[u].pc # "release"
    BY <1>1, <2>1, <2>2, <2>3 DEF PoolInv
  <2> QED
    BY <1>1, <2>1, <2>3, <2>4 DEF PoolInv
<1>6. CASE Release(t)
  <2> DEFINE d == tk[t].td
  <2>1. /\ \A u \in Tasks : u # t => tk'[u] = tk[u]
        /\ tk'[t].pc = "out" /\ tk'[t].td = Null
        /\ tk[t].pc = "release" /\ fQueue' = Append(fQueue, d) /\ fActiveTasks' = fActiveTasks
    BY <1>1, <1>6, DoLocals DEF Release
  <2>2. d \in TaskData /\ d # Null
    BY <1>1, <2>1, Owns
  <2>3. d \notin Range(fQueue)
    BY <1>1, <2>2 DEF PoolInv
  <2>4. IsInjective(fQueue') /\ Range(fQueue') = Range(fQueue) \union {d}
    BY <1>1, <2>1, <2>2, <2>3, AppendOnce DEF PoolInv
  <2>5. \A c \in TaskData : c \in Range(fQueue') <=> \A u \in Tasks : tk'[u].td # c
    <3>1. \A c \in TaskData \ {d} : c \in Range(fQueue') <=> \A u \in Tasks : tk'[u].td # c
      <4> SUFFICES ASSUME NEW c \in TaskData \ {d}
                   PROVE  c \in Range(fQueue') <=> \A u \in Tasks : tk'[u].td # c
        OBVIOUS
      <4>1. \A u \in Tasks : tk'[u].td = c <=> tk[u].td = c
        BY <1>1, <2>1
      <4>2. c \in Range(fQueue') <=> c \in Range(fQueue)
        BY <2>4
      <4> QED
        BY <1>1, <4>1, <4>2 DEF PoolInv
    <3>2. d \in Range(fQueue') /\ \A u \in Tasks : tk'[u].td # d
      BY <1>1, <2>1, <2>2, <2>4 DEF PoolInv
    <3> QED
      BY <3>1, <3>2
  <2>6. \A u, v \in Tasks : tk'[u].td = tk'[v].td /\ tk'[u].td # Null => u = v
    BY <1>1, <2>1 DEF PoolInv
  <2>7. \A u \in Tasks : tk'[u].td = Null <=> tk'[u].pc \in {"book", "out"}
    BY <1>1, <2>1 DEF PoolInv
  <2>8. \A s \in Slots : fActiveTasks'[s] # Null =>
          \E u \in Tasks : tk'[u].td = fActiveTasks'[s] /\ tk'[u].pc # "release"
    BY <1>1, <2>1 DEF PoolInv
  <2> QED
    BY <2>4, <2>5, <2>6, <2>7, <2>8 DEF PoolInv
<1> QED
  BY <1>2, <1>3, <1>4, <1>5, <1>6 DEF Step, Working

------------------------------------------------------------------------------
(* Stacks                                                                  *)

\* Only the task that has a task data writes its stack.
StackOf(t) == \A d \in TaskData : d # tk[t].td => stack'[d] = stack[d]

\* A step of a working task leaves the stacks of the others alone, and its own
\* is empty when it leaves the stepping loop.
LEMMA WorkingStack ==
  ASSUME IInv, NEW t \in Tasks, Working(t)
  PROVE  /\ StackOf(t)
         /\ tk'[t].pc \in InLoop \/ stack'[tk[t].td] = {}
<1>1. /\ TypeInv /\ tk[t].td \in TaskData
      /\ tk[t].pc \notin InLoop => stack[tk[t].td] = {}
  BY WorkingKeeps, Owns DEF IInv, StackInv, Ways
<1>2. CASE \/ Register(t) \/ Loop(t) \/ FeedNothing(t) \/ NotifyNobody(t) \/ EraseSet(t)
  <2>1. UNCHANGED stack
    BY <1>2 DEF Register, Loop, FeedNothing, NotifyNobody, EraseSet, tracks
  <2>2. tk[t].pc \notin InLoop \/ tk'[t].pc = "loop"
    BY <1>1, <1>2, DoLocals DEF Register, Loop, FeedNothing, NotifyNobody, EraseSet, InLoop
  <2> QED
    BY <1>1, <2>1, <2>2 DEF StackOf, InLoop
<1>3. CASE AddEvent(t) \/ RecordNumber(t) \/ AfterLoop(t)
  <2>1. UNCHANGED stack /\ tk[t].pc \notin InLoop
    BY <1>3 DEF AddEvent, RecordNumber, AfterLoop, tracks, InLoop
  <2> QED
    BY <1>1, <2>1 DEF StackOf
<1>4. CASE Serve(t) \/ FeedStolen(t) \/ EnterFlush(t)
  <2>1. tk'[t].pc \in {"enter", "inject"}
    BY <1>1, <1>4, DoLocals DEF Serve, FeedStolen, EnterFlush
  <2>2. StackOf(t)
    BY <1>1, <1>4 DEF Serve, FeedStolen, EnterFlush, Steal, tracks, StackOf, TypeInv
  <2> QED
    BY <2>1, <2>2 DEF InLoop
<1>5. CASE Inject(t)
  BY <1>1, <1>5 DEF Inject, StackOf, TypeInv
<1>6. CASE Continue(t)
  <2>1. tk' = tk /\ tk[t].pc = "loop"
    BY <1>6 DEF Continue
  <2>2. StackOf(t)
    BY <1>1, <1>6 DEF Continue, StackOf, TypeInv
  <2> QED
    BY <2>1, <2>2 DEF InLoop
<1>7. CASE EndTrack(t)
  <2>1. UNCHANGED stack
    BY <1>7 DEF EndTrack
  <2>2. \/ UNCHANGED tk
        \/ \E e \in {EventOf(x) : x \in staged[tk[t].td]} : Do(t, [pc |-> "notify", ev |-> e])
    BY <1>7 DEF EndTrack
  <2>3. \A e : Do(t, [pc |-> "notify", ev |-> e]) => tk'[t].pc = "notify"
    BY <1>1, DoLocals
  <2>4. tk[t].pc = "loop"
    BY <1>7 DEF EndTrack
  <2>5. tk'[t].pc \in {"loop", "notify"}
    BY <2>2, <2>3, <2>4
  <2> QED
    BY <2>1, <2>5 DEF StackOf, InLoop
<1>8. CASE EndRound(t)
  <2>1. CASE stack[tk[t].td] = {}
    BY <1>1, <1>8, <2>1 DEF EndRound, Refill, StackOf, TypeInv
  <2>2. CASE stack[tk[t].td] # {}
    <3>1. stack' = [stack EXCEPT ![tk[t].td] = {}]
      BY <1>8, <2>2 DEF EndRound, Refill
    <3> QED
      BY <1>1, <3>1 DEF StackOf, TypeInv
  <2> QED
    BY <2>1, <2>2
<1>9. CASE MarkDone(t)
  <2>1. UNCHANGED stack
    BY <1>9 DEF MarkDone, tracks
  <2>2. tk'[t].pc \in {"loop", "erase"}
    BY <1>1, <1>9, DoLocals DEF MarkDone
  <2> QED
    BY <2>1, <2>2 DEF StackOf, InLoop
<1> QED
  BY <1>2, <1>3, <1>4, <1>5, <1>6, <1>7, <1>8, <1>9 DEF Working

LEMMA StackStep ==
  ASSUME IInv, NEW t \in Tasks, Step(t)
  PROVE  StackInv'
<1>1. TypeInv /\ PoolInv /\ StackInv /\ fQueue \in Seq(TaskData) /\ Range(fQueue) \subseteq TaskData
  BY DEF IInv, TypeInv, Range
<1>2. CASE Working(t)
  <2>1. /\ fQueue' = fQueue
        /\ \A u \in Tasks : u # t => tk'[u] = tk[u]
        /\ tk'[t].td = tk[t].td /\ tk[t].pc \notin Ways
        /\ StackOf(t)
        /\ tk'[t].pc \in InLoop \/ stack'[tk[t].td] = {}
    BY <1>2, WorkingKeeps, WorkingStack DEF taskdata
  <2>2. tk[t].td \in TaskData /\ tk[t].td # Null
    BY <2>1, Owns DEF Ways
  <2>3. \A d \in Range(fQueue) : d # tk[t].td
    BY <1>1, <2>2 DEF PoolInv
  <2>4. \A d \in Range(fQueue') : stack'[d] = {}
    BY <1>1, <2>1, <2>3 DEF StackOf, StackInv
  <2>5. \A u \in Tasks : u # t /\ tk[u].td # Null => tk[u].td \in TaskData /\ tk[u].td # tk[t].td
    BY <1>1, <2>2, Typed DEF PoolInv
  <2>6. \A u \in Tasks : tk'[u].td # Null /\ tk'[u].pc \notin InLoop => stack'[tk'[u].td] = {}
    BY <1>1, <2>1, <2>5 DEF StackOf, StackInv
  <2> QED
    BY <2>4, <2>6 DEF StackInv
<1>3. CASE Book(t)
  <2>1. /\ Head(fQueue) \in Range(fQueue) /\ Range(fQueue') \subseteq Range(fQueue) /\ stack' = stack
    BY <1>1, <1>3, TailOnce DEF Book, WithoutTaken, PoolInv, tracks
  <2>2. /\ \A u \in Tasks : u # t => tk'[u] = tk[u]
        /\ tk'[t].td = Head(fQueue)
    BY <1>1, <1>3, DoLocals DEF Book
  <2> QED
    BY <1>1, <2>1, <2>2 DEF StackInv
<1>4. CASE TakeSlot(t) \/ Leave(t)
  <2>1. /\ fQueue' = fQueue /\ stack' = stack
        /\ \A u \in Tasks : u # t => tk'[u] = tk[u]
        /\ tk'[t].td = tk[t].td /\ tk[t].pc \notin InLoop
    BY <1>1, <1>4, DoLocals DEF TakeSlot, Leave, tracks, InLoop
  <2> QED
    BY <1>1, <2>1 DEF StackInv
<1>5. CASE Release(t)
  <2> DEFINE d == tk[t].td
  <2>1. /\ \A u \in Tasks : u # t => tk'[u] = tk[u]
        /\ tk'[t].td = Null /\ tk[t].pc = "release" /\ tk[t].pc \notin InLoop
        /\ fQueue' = Append(fQueue, d) /\ stack' = stack
    BY <1>1, <1>5, DoLocals DEF Release, tracks, InLoop
  <2>2. d \in TaskData /\ d # Null /\ d \notin Range(fQueue)
    BY <1>1, <2>1, Owns DEF PoolInv
  <2>3. Range(fQueue') = Range(fQueue) \union {d}
    BY <1>1, <2>1, <2>2, AppendOnce DEF PoolInv
  <2>4. stack[d] = {}
    BY <1>1, <2>1, <2>2 DEF StackInv
  <2> QED
    BY <1>1, <2>1, <2>3, <2>4 DEF StackInv
<1> QED
  BY <1>2, <1>3, <1>4, <1>5 DEF Step, Working

------------------------------------------------------------------------------
(* Marks                                                                   *)

\* The locals of the sets that matter for the marks are as they were.
SameSets(t) ==
  /\ fEventNumber' = fEventNumber /\ marked' = marked /\ early' = early /\ fDone' = fDone
  /\ tk'[t].toadd = tk[t].toadd
  /\ tk'[t].pc \notin {"number", "notify", "erase"}

LEMMA SameMarks ==
  ASSUME IInv, NEW t \in Tasks, SameSets(t), fDoneEvents' = fDoneEvents,
         \A u \in Tasks : u # t => tk'[u] = tk[u]
  PROVE  MarkInv'
<1> QED
  BY DEF IInv, MarkInv, SameSets

LEMMA MarkStep ==
  ASSUME IInv, NEW t \in Tasks, Step(t)
  PROVE  MarkInv'
<1>1. /\ TypeInv /\ MarkInv
      /\ tk[t].toadd \subseteq EventsOf[t] /\ EventsOf[t] \subseteq Events
  BY Typed DEF IInv, MarkInv
<1>2. CASE \/ Book(t) \/ TakeSlot(t) \/ Leave(t) \/ Release(t) \/ Register(t)
  <2>1. SameSets(t) /\ fDoneEvents' = fDoneEvents /\ \A u \in Tasks : u # t => tk'[u] = tk[u]
    BY <1>1, <1>2, DoLocals DEF Book, TakeSlot, Leave, Release, Register, SameSets, server, sets
  <2> QED
    BY <2>1, SameMarks
<1>3. CASE \/ Loop(t) \/ Serve(t) \/ FeedNothing(t) \/ NotifyNobody(t) \/ EraseSet(t)
  <2>1. SameSets(t) /\ fDoneEvents' = fDoneEvents /\ \A u \in Tasks : u # t => tk'[u] = tk[u]
    BY <1>1, <1>3, DoLocals DEF Loop, Serve, FeedNothing, NotifyNobody, EraseSet, SameSets, server, sets
  <2> QED
    BY <2>1, SameMarks
<1>4. CASE FeedStolen(t) \/ EnterFlush(t)
  <2>1. SameSets(t) /\ fDoneEvents' = fDoneEvents /\ \A u \in Tasks : u # t => tk'[u] = tk[u]
    BY <1>1, <1>4, DoLocals DEF FeedStolen, EnterFlush, Steal, SameSets, server, sets
  <2> QED
    BY <2>1, SameMarks
<1>5. CASE Inject(t)
  <2>1. SameSets(t) /\ fDoneEvents' = fDoneEvents /\ \A u \in Tasks : u # t => tk'[u] = tk[u]
    BY <1>1, <1>5, DoLocals DEF Inject, SameSets, server, sets
  <2> QED
    BY <2>1, SameMarks
<1>6. CASE AfterLoop(t)
  <2>1. SameSets(t) /\ fDoneEvents' = fDoneEvents /\ \A u \in Tasks : u # t => tk'[u] = tk[u]
    BY <1>1, <1>6, DoLocals DEF AfterLoop, SameSets, server, sets
  <2> QED
    BY <2>1, SameMarks
<1>7. CASE Continue(t)
  <2>1. SameSets(t) /\ fDoneEvents' = fDoneEvents /\ tk' = tk
    BY <1>7 DEF Continue, SameSets, server, sets
  <2> QED
    BY <2>1, SameMarks
<1>8. CASE EndRound(t)
  <2>1. UNCHANGED tk \/ Do(t, [pc |-> "after"])
    BY <1>8 DEF EndRound
  <2>2. Do(t, [pc |-> "after"]) =>
          /\ \A u \in Tasks : u # t => tk'[u] = tk[u]
          /\ tk'[t].toadd = tk[t].toadd /\ tk'[t].pc = "after"
    BY <1>1, DoLocals
  <2>3. SameSets(t) /\ fDoneEvents' = fDoneEvents /\ \A u \in Tasks : u # t => tk'[u] = tk[u]
    BY <1>8, <2>1, <2>2 DEF EndRound, SameSets, server, sets
  <2> QED
    BY <2>3, SameMarks
<1>9. CASE AddEvent(t)
  <2>1. PICK e \in tk[t].toadd : Do(t, [pc |-> "number", ev |-> e])
    BY <1>9 DEF AddEvent
  <2>2. /\ \A u \in Tasks : u # t => tk'[u] = tk[u]
        /\ tk'[t].toadd = tk[t].toadd /\ tk'[t].pc = "number" /\ tk'[t].ev = e
    BY <1>1, <2>1, DoLocals
  <2>3. /\ fEventNumber' = fEventNumber /\ marked' = marked /\ early' = early /\ fDone' = fDone
        /\ fDoneEvents' = fDoneEvents
    BY <1>9 DEF AddEvent, sets
  <2> QED
    BY <1>1, <2>2, <2>3 DEF MarkInv
<1>10. CASE RecordNumber(t)
  <2> DEFINE e == tk[t].ev
  <2>1. e \in tk[t].toadd
    BY <1>1, <1>10 DEF RecordNumber, MarkInv
  <2>2. /\ \A u \in Tasks : u # t => tk'[u] = tk[u]
        /\ tk'[t].toadd = tk[t].toadd \ {e} /\ tk'[t].pc \in {"head", "add"}
    BY <1>1, <1>10, DoLocals DEF RecordNumber
  <2>3. /\ fEventNumber' = [fEventNumber EXCEPT ![e] = e]
        /\ marked' = marked /\ early' = early /\ fDone' = fDone /\ fDoneEvents' = fDoneEvents
    BY <1>10 DEF RecordNumber, server
  <2>4. fEventNumber'[e] = e /\ \A m \in Events : m # e => fEventNumber'[m] = fEventNumber[m]
    BY <1>1, <2>1, <2>3 DEF TypeInv
  <2>5. ASSUME NEW u \in Tasks, NEW m \in EventsOf[u] \ tk'[u].toadd PROVE fEventNumber'[m] = m
    <3>1. m \in Events
      BY Typed, <1>1
    <3>2. CASE u = t
      BY <1>1, <2>2, <2>4, <2>5, <3>1, <3>2 DEF MarkInv
    <3>3. CASE u # t
      <4>1. m # e
        BY <1>1, <2>1, <2>5, <3>3, TaskAssumption
      <4> QED
        BY <1>1, <2>2, <2>4, <2>5, <3>1, <3>3, <4>1 DEF MarkInv
    <3> QED
      BY <3>2, <3>3
  <2> QED
    BY <1>1, <2>2, <2>3, <2>5 DEF MarkInv
<1>11. CASE EndTrack(t)
  <2>1. /\ fEventNumber' = fEventNumber /\ marked' = marked /\ early' = early /\ fDone' = fDone
        /\ fDoneEvents \subseteq fDoneEvents' /\ tk[t].pc = "loop"
    BY <1>11 DEF EndTrack, sets
  <2>2. \/ UNCHANGED tk
        \/ \E e \in {EventOf(x) : x \in staged[tk[t].td]} :
             Do(t, [pc |-> "notify", ev |-> e]) /\ e \in fDoneEvents'
    BY <1>11 DEF EndTrack
  <2>3. CASE UNCHANGED tk
    BY <1>1, <2>1, <2>3 DEF MarkInv
  <2>4. ASSUME NEW e, Do(t, [pc |-> "notify", ev |-> e]), e \in fDoneEvents' PROVE MarkInv'
    <3>1. /\ \A u \in Tasks : u # t => tk'[u] = tk[u]
          /\ tk'[t].toadd = tk[t].toadd /\ tk'[t].pc = "notify" /\ tk'[t].ev = e
      BY <1>1, <2>4, DoLocals
    <3> QED
      BY <1>1, <2>1, <2>4, <3>1 DEF MarkInv
  <2> QED
    BY <2>2, <2>3, <2>4
<1>12. CASE MarkDone(t)
  <2> DEFINE set == fEventSets[CHOOSE i \in Hits(tk[t].ev) : \A j \in Hits(tk[t].ev) : i <= j]
  <2>1. set \in Tasks
    <3>1. Hits(tk[t].ev) # {}
      BY <1>12 DEF MarkDone
    <3> QED
      BY <1>1, <3>1, FirstHit
  <2> HIDE DEF set
  <2>2. PICK m \in EventsOf[set] :
          /\ fEventNumber[m] = tk[t].ev
          /\ marked' = marked \union {m}
          /\ early' = early \union ({m} \cap tk[set].toadd)
          /\ fDone' = [fDone EXCEPT ![set] = AllMarked(set, marked')]
          /\ \/ Do(t, [pc |-> "erase", ev |-> set])
             \/ Do(t, [pc |-> "loop", ev |-> Null])
    BY <1>12 DEF MarkDone, set
  <2>3. /\ fEventNumber' = fEventNumber /\ fDoneEvents' = fDoneEvents
        /\ tk[t].ev \in fDoneEvents
    BY <1>1, <1>12 DEF MarkDone, MarkInv, server
  <2>4. /\ \A u \in Tasks : u # t => tk'[u] = tk[u]
        /\ tk'[t].toadd = tk[t].toadd
        /\ \/ tk'[t].pc = "erase" /\ tk'[t].ev = set
           \/ tk'[t].pc = "loop"
    <3>1. CASE Do(t, [pc |-> "erase", ev |-> set])
      BY <1>1, <3>1, DoLocals
    <3>2. CASE Do(t, [pc |-> "loop", ev |-> Null])
      BY <1>1, <3>2, DoLocals
    <3> QED
      BY <2>2, <3>1, <3>2
  <2>5. m \in fDoneEvents \/ m \in early'
    BY <1>1, <2>1, <2>2, <2>3 DEF MarkInv
  <2>6. marked' \subseteq fDoneEvents' \union early'
    BY <1>1, <2>2, <2>3, <2>5 DEF MarkInv
  <2>7. ASSUME NEW u \in Tasks, fDone'[u] PROVE EventsOf[u] \subseteq marked'
    <3>1. CASE u = set
      BY <1>1, <2>1, <2>2, <2>7, <3>1 DEF AllMarked, TypeInv
    <3>2. CASE u # set
      BY <1>1, <2>1, <2>2, <2>7, <3>2 DEF MarkInv, TypeInv
    <3> QED
      BY <3>1, <3>2
  <2> QED
    BY <1>1, <2>1, <2>3, <2>4, <2>6, <2>7 DEF MarkInv
<1> QED
  BY <1>2, <1>3, <1>4, <1>5, <1>6, <1>7, <1>8, <1>9, <1>10, <1>11, <1>12 DEF Step

------------------------------------------------------------------------------
(* The theorems                                                            *)

LEMMA InvInit == Init => IInv
<1> SUFFICES ASSUME Init PROVE IInv
  OBVIOUS
<1>1. TypeInv /\ IsInjective(fQueue) /\ Range(fQueue) = TaskData
  BY TypeInit
<1>2. /\ \A t \in Tasks : /\ tk[t].pc = "book" /\ tk[t].td = Null /\ tk[t].toadd = EventsOf[t]
                          /\ ~ fDone[t]
      /\ fActiveTasks = [s \in Slots |-> Null] /\ stack = [d \in TaskData |-> {}] /\ marked = {}
  BY DEF Init
<1>3. Null \notin TaskData
  BY TaskAssumption
<1>4. PoolInv
  BY <1>1, <1>2, <1>3 DEF PoolInv
<1>5. StackInv
  BY <1>1, <1>2 DEF StackInv
<1>6. MarkInv
  BY <1>2 DEF MarkInv
<1> QED
  BY <1>1, <1>4, <1>5, <1>6 DEF IInv

LEMMA InvStep == IInv /\ [Next]_vars => IInv'
<1> SUFFICES ASSUME IInv, [Next]_vars PROVE IInv'
  OBVIOUS
<1>1. CASE UNCHANGED vars
  <2>1. TypeInv'
    BY <1>1 DEF IInv, TypeInv, vars, taskdata, tracks, server, sets
  <2>2. PoolInv' /\ StackInv' /\ MarkInv'
    BY <1>1 DEF IInv, PoolInv, StackInv, MarkInv, vars, taskdata, tracks, server, sets
  <2> QED
    BY <2>1, <2>2 DEF IInv
<1>2. ASSUME NEW t \in Tasks, Step(t) PROVE IInv'
  BY <1>2, TypeStep, PoolStep, StackStep, MarkStep DEF IInv
<1> QED
  BY <1>1, <1>2 DEF Next

\* The inductive invariant: the owner of each task data, the empty stacks and
\* what the marks of the events mean (TDManager, TransportTracksTask,
\* EventSet::MarkDone).
THEOREM TaskInvariant == Spec => []IInv
<1> QED
  BY InvInit, InvStep, PTL DEF Spec

\* The types; the pool has room for all task data (TDManager::ReleaseTaskData).
THEOREM TaskTypeOK == Spec => []TypeOK
<1>1. IInv => TypeOK
  <2> SUFFICES ASSUME IInv PROVE TypeOK
    OBVIOUS
  <2>1. TypeInv /\ IsInjective(fQueue) /\ fQueue \in Seq(TaskData)
    BY DEF IInv, PoolInv, TypeInv
  <2>2. Len(fQueue) <= Cardinality(TaskData)
    <3>1. Len(fQueue) \in Nat /\ fQueue \in [1 .. Len(fQueue) -> TaskData]
      BY <2>1
    <3>2. fQueue \in Injection(1 .. Len(fQueue), TaskData)
      BY <2>1, <3>1 DEF Injection, IsInjective
    <3>3. Cardinality(1 .. Len(fQueue)) = Len(fQueue)
      BY <3>1, FS_Interval
    <3> QED
      BY <3>2, <3>3, TaskAssumption, FS_Injection
  <2>3. \A t \in Tasks : tk[t].pc \in Pcs /\ tk[t].td \in TaskData \union {Null}
    BY <2>1, Typed
  <2> QED
    BY <2>1, <2>2, <2>3 DEF TypeOK, TypeInv
<1> QED
  BY <1>1, TaskInvariant, PTL

\* A task data is in the pool or has one owner, and thieves find in the slots
\* only those of tasks that work (TDManager::GetTaskData, ReleaseTaskData).
THEOREM TaskDataHasOneOwner == Spec => []TaskDataExclusive
<1>1. IInv => TaskDataExclusive
  <2> SUFFICES ASSUME IInv PROVE TaskDataExclusive
    OBVIOUS
  <2>1. PoolInv /\ fQueue \in Seq(TaskData) /\ Null \notin TaskData
    BY TaskAssumption DEF IInv, TypeInv
  <2>2. ASSUME NEW d \in TaskData
        PROVE  Cardinality({t \in Tasks : tk[t].td = d}) + Cardinality({i \in DOMAIN fQueue : fQueue[i] = d}) = 1
    <3> DEFINE owners == {t \in Tasks : tk[t].td = d}
    <3>1. \A t, u \in owners : t = u
      BY <2>1 DEF PoolInv
    <3>2. IsFiniteSet(owners)
      <4>1. CASE owners = {}
        BY <4>1, FS_EmptySet
      <4>2. CASE owners # {}
        <5>1. PICK t \in owners : TRUE
          BY <4>2
        <5>2. owners = {t}
          BY <3>1, <5>1
        <5> QED
          BY <5>2, FS_Singleton
      <4> QED
        BY <4>1, <4>2
    <3>3. Cardinality(owners) = IF owners = {} THEN 0 ELSE 1
      BY <3>1, <3>2, OneAtMost
    <3>4. Cardinality({i \in DOMAIN fQueue : fQueue[i] = d}) = IF d \in Range(fQueue) THEN 1 ELSE 0
      BY <2>1, OccursOnce DEF PoolInv
    <3>5. d \in Range(fQueue) <=> owners = {}
      BY <2>1 DEF PoolInv
    <3> QED
      BY <3>3, <3>4, <3>5
  <2>3. \A s \in Slots : fActiveTasks[s] # Null => \E t \in Tasks : tk[t].td = fActiveTasks[s]
    BY <2>1 DEF PoolInv
  <2> QED
    BY <2>2, <2>3 DEF TaskDataExclusive
<1> QED
  BY <1>1, TaskInvariant, PTL

\* A set that is done has its events transported, but for those that were
\* marked before their number was recorded (RunSimulationTask,
\* EventSet::AddSetToServer, MarkDone).
THEOREM TaskReturnsWhenTransported == Spec => []ReturnsWhenTransported
<1>1. IInv => ReturnsWhenTransported
  BY DEF IInv, MarkInv, ReturnsWhenTransported
<1> QED
  BY <1>1, TaskInvariant, PTL

\* A task leaves the stepping loop with an empty stack (TransportTracksTask).
THEOREM TaskLeavesNoStack == Spec => []LeavesNoStack
<1>1. IInv => LeavesNoStack
  <2> SUFFICES ASSUME IInv, NEW t \in Tasks, tk[t].pc \in {"end", "release"} PROVE stack[tk[t].td] = {}
    BY DEF LeavesNoStack
  <2>1. tk[t].td # Null
    BY Owns
  <2> QED
    BY <2>1 DEF IInv, StackInv, InLoop
<1> QED
  BY <1>1, TaskInvariant, PTL

=============================================================================
