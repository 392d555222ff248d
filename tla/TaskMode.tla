------------------------------ MODULE TaskMode ------------------------------
(***************************************************************************)
(* The external event loop: user tasks that each bring a set of events and *)
(* transport together what the event server has, until their own set is    *)
(* done (RunManager::RunSimulationTask, WorkloadManager::                  *)
(* TransportTracksTask, EventSet.cxx, TDManager in TaskData.h).            *)
(*                                                                         *)
(* A step of a track ends with the track on the stack or finished: its     *)
(* stages, secondaries and basketizers are Stepping.  The event server is  *)
(* abstracted to the tracks it has not served: a call may get any of them, *)
(* or none at all while there are some.  It does give none for a while     *)
(* (no slot, an event undone by a race, fHasTracks still FALSE) and for    *)
(* good (fHasTracks = FALSE or fEventsServed = TRUE stored over AddEvent's *)
(* stores, GetBsize() = 0 before the buffer was full once).                *)
(***************************************************************************)
EXTENDS Naturals, Sequences, FiniteSets, SequencesExt

CONSTANTS Tasks,
          EventsOf,     \* the event set of each task
          TracksOf,     \* the primaries of each event
          TaskData,     \* the task data objects, as many as fMaxThreads
          Garbage,      \* what a number that is not yet recorded may be
          fNperBasket,  \* the most tracks a call of FillStackBuffer gets
          kShareThreshold,
          Null

Events == UNION {EventsOf[t] : t \in Tasks}
Tracks == UNION {TracksOf[e] : e \in Events}
EventOf(x) == CHOOSE e \in Events : x \in TracksOf[e]
Slots == 1 .. Cardinality(TaskData)

ASSUME TaskAssumption ==
  /\ IsFiniteSet(TaskData)
  /\ \A t, u \in Tasks : t # u => EventsOf[t] \cap EventsOf[u] = {}
  /\ \A e, f \in Events : e # f => TracksOf[e] \cap TracksOf[f] = {}
  /\ \A t \in Tasks : EventsOf[t] # {}
  /\ \A e \in Events : TracksOf[e] # {}
  /\ Null \notin Events \union TaskData /\ Garbage \subseteq Events \union {Null}
  /\ fNperBasket \in Nat \ {0} /\ kShareThreshold \in Nat \ {0}

VARIABLES
  \* TDManager
  fQueue, fActiveTasks,
  \* of each task data: the stack, the first stage buffer, the shared tracks
  stack, staged, fQshare,
  \* the event server: what it may serve, and fDoneEvents
  todo, fDoneEvents,
  \* RunManager::fEventSets and its lock
  fEventSets, fEventSetsLock,
  \* EventSet: the number and the mark of each event, and fDone
  fEventNumber, marked, fDone,
  early,          \* the events that were marked before their number was known
  tk              \* where each task is

taskdata == <<fQueue, fActiveTasks>>
tracks == <<stack, staged, fQshare>>
server == <<todo, fDoneEvents>>
sets == <<fEventSets, fEventSetsLock, fEventNumber, marked, fDone, early>>
vars == <<taskdata, tracks, server, sets, tk>>

Do(t, changes) == tk' = [tk EXCEPT ![t] = [f \in DOMAIN @ |->
                           IF f \in DOMAIN changes THEN changes[f] ELSE @[f]]]

Init ==
  /\ fQueue = SetToSeq(TaskData)
  /\ fActiveTasks = [s \in Slots |-> Null]
  /\ stack = [d \in TaskData |-> {}]
  /\ staged = [d \in TaskData |-> {}]
  /\ fQshare = [d \in TaskData |-> {}]
  /\ todo = {}
  /\ fDoneEvents = {}
  /\ fEventSets = <<>>
  /\ fEventSetsLock = Null
  /\ fEventNumber \in [Events -> Garbage]
  /\ marked = {}
  /\ fDone = [t \in Tasks |-> FALSE]
  /\ early = {}
  /\ tk = [t \in Tasks |-> [pc |-> "book", td |-> Null, flush |-> FALSE,
                            toadd |-> EventsOf[t], ev |-> Null]]

------------------------------------------------------------------------------
(* TDManager                                                               *)

\* Mutant of WithoutTaken: the object stays in the pool.
KeepsTaken == fQueue
\* What is left in the pool after one was taken.
WithoutTaken == Tail(fQueue)

\* GetTaskData: an object of the pool, then a free slot for it.
Book(t) ==
  /\ tk[t].pc = "book"
  /\ fQueue # <<>>
  /\ fQueue' = WithoutTaken
  /\ Do(t, [pc |-> "slot", td |-> Head(fQueue)])
  /\ UNCHANGED <<fActiveTasks, tracks, server, sets>>

TakeSlot(t) ==
  /\ tk[t].pc = "slot"
  /\ \E s \in Slots : /\ fActiveTasks[s] = Null
                      /\ fActiveTasks' = [fActiveTasks EXCEPT ![s] = tk[t].td]
  /\ Do(t, [pc |-> "register"])
  /\ UNCHANGED <<fQueue, tracks, server, sets>>

Active == {fActiveTasks[s] : s \in Slots} \ {Null}

\* StealTracks: what it may find.  Its own shared tracks first, then those of
\* one other active task.
Stealable(d) ==
  IF fQshare[d] # {} THEN {d} ELSE {v \in Active \ {d} : fQshare[v] # {}}

\* ReleaseTaskData: out of the slot, then back to the pool.
Leave(t) ==
  /\ tk[t].pc = "end"
  /\ fActiveTasks' = [s \in Slots |-> IF fActiveTasks[s] = tk[t].td THEN Null ELSE fActiveTasks[s]]
  /\ Do(t, [pc |-> "release"])
  /\ UNCHANGED <<fQueue, tracks, server, sets>>

Release(t) ==
  /\ tk[t].pc = "release"
  /\ fQueue' = Append(fQueue, tk[t].td)
  /\ Do(t, [pc |-> "out", td |-> Null])
  /\ UNCHANGED <<fActiveTasks, tracks, server, sets>>

------------------------------------------------------------------------------
(* AddEventSet: the set is registered, then its events are given to the    *)
(* server one by one; the number of an event is recorded after that.       *)

Register(t) ==
  /\ tk[t].pc = "register"
  /\ fEventSetsLock = Null
  /\ fEventSets' = Append(fEventSets, t)
  /\ Do(t, [pc |-> "add"])
  /\ UNCHANGED <<taskdata, tracks, server, fEventSetsLock, fEventNumber, marked, fDone, early>>

\* EventServer::AddEvent: its tracks can be served from now on.  The counters
\* and flags it sets only tell when the server refuses: see Serve.
AddEvent(t) ==
  /\ tk[t].pc = "add"
  /\ \E e \in tk[t].toadd :
       /\ todo' = todo \union TracksOf[e]
       /\ Do(t, [pc |-> "number", ev |-> e])
  /\ UNCHANGED <<taskdata, tracks, fDoneEvents, sets>>

RecordNumber(t) ==
  LET left == tk[t].toadd \ {tk[t].ev} IN
  /\ tk[t].pc = "number"
  /\ fEventNumber' = [fEventNumber EXCEPT ![tk[t].ev] = tk[t].ev]
  /\ Do(t, [pc |-> IF left = {} THEN "head" ELSE "add", toadd |-> left, ev |-> Null])
  /\ UNCHANGED <<taskdata, tracks, server, fEventSets, fEventSetsLock, marked, fDone, early>>

------------------------------------------------------------------------------
(* TransportTracksTask                                                     *)

\* while (!workload->IsDone())
Loop(t) ==
  /\ tk[t].pc = "head"
  /\ Do(t, [pc |-> IF fDone[t] THEN "end" ELSE "feed"])
  /\ UNCHANGED <<taskdata, tracks, server, sets>>

\* PreloadTracksForStep: from the server, or else stolen.  The server may also
\* give less than was asked for, and nothing (FeedStolen, FeedNothing).
Serve(t) ==
  LET d == tk[t].td IN
  /\ tk[t].pc = "feed"
  /\ \E S \in SUBSET todo :
       /\ S # {} /\ Cardinality(S) <= fNperBasket
       /\ todo' = todo \ S
       /\ stack' = [stack EXCEPT ![d] = @ \union S]
  /\ Do(t, [pc |-> "enter", flush |-> fDone[t]])
  /\ UNCHANGED <<taskdata, staged, fQshare, fDoneEvents, sets>>

Steal(t) ==
  LET d == tk[t].td IN
  /\ \E v \in Stealable(d) :
       /\ staged' = [staged EXCEPT ![d] = @ \union fQshare[v]]
       /\ fQshare' = [fQshare EXCEPT ![v] = {}]
  /\ UNCHANGED <<taskdata, stack, server, sets>>

FeedStolen(t) ==
  /\ tk[t].pc = "feed" /\ fDoneEvents # Events
  /\ Steal(t)
  /\ Do(t, [pc |-> "enter", flush |-> fDone[t]])

\* Nothing was served and nothing stolen; or all events are transported, when
\* it flushes only if its own set is done.
FeedNothing(t) ==
  /\ tk[t].pc = "feed"
  /\ \/ fDoneEvents = Events /\ Do(t, [pc |-> "enter", flush |-> fDone[t]])
     \/ /\ fDoneEvents # Events /\ Stealable(tk[t].td) = {}
        /\ Do(t, [pc |-> "enter", flush |-> TRUE])
  /\ UNCHANGED <<taskdata, tracks, server, sets>>

\* SteppingLoop: in flush mode it steals before it looks at its stack.
EnterFlush(t) ==
  /\ tk[t].pc = "enter" /\ tk[t].flush
  /\ IF Stealable(tk[t].td) = {}
       THEN UNCHANGED <<taskdata, tracks, server, sets>>
       ELSE Steal(t)
  /\ Do(t, [pc |-> "inject"])

\* FlushOneLane: a part of the stack is shared unless in flush mode, the rest
\* goes to the first stage; with nothing on the stack the loop returns.
NtoShare(d) ==
  LET n == Cardinality(stack[d]) \div kShareThreshold IN
  IF n > Cardinality(fQshare[d]) THEN n - Cardinality(fQshare[d]) ELSE 0

Inject(t) ==
  LET d == tk[t].td
      flush == tk[t].flush IN
  /\ tk[t].pc = "inject" \/ (tk[t].pc = "enter" /\ ~ flush)
  /\ \E S \in SUBSET stack[d] :
       /\ Cardinality(S) = IF flush THEN 0 ELSE NtoShare(d)
       /\ fQshare' = [fQshare EXCEPT ![d] = @ \union S]
       /\ staged' = [staged EXCEPT ![d] = @ \union (stack[d] \ S)]
       /\ stack' = [stack EXCEPT ![d] = {}]
       /\ Do(t, [pc |-> IF flush \/ stack[d] \ S # {} THEN "loop" ELSE "after"])
  /\ UNCHANGED <<taskdata, server, sets>>

InFlight == UNION {stack[d] \union staged[d] \union fQshare[d] : d \in TaskData}

\* A step of a track: it goes back to the stack, or it ends; the last track
\* of an event reports it.
Continue(t) ==
  LET d == tk[t].td IN
  /\ tk[t].pc = "loop"
  /\ \E x \in staged[d] :
       /\ staged' = [staged EXCEPT ![d] = @ \ {x}]
       /\ stack' = [stack EXCEPT ![d] = @ \union {x}]
  /\ UNCHANGED <<taskdata, fQshare, server, sets, tk>>

EndTrack(t) ==
  LET d == tk[t].td IN
  /\ tk[t].pc = "loop"
  /\ \E x \in staged[d] :
       LET e == EventOf(x) IN
       /\ staged' = [staged EXCEPT ![d] = @ \ {x}]
       /\ IF (todo \union InFlight) \cap TracksOf[e] = {x}
            THEN /\ fDoneEvents' = fDoneEvents \union {e}
                 /\ Do(t, [pc |-> "notify", ev |-> e])
            ELSE UNCHANGED <<fDoneEvents, tk>>
  /\ UNCHANGED <<taskdata, stack, fQshare, todo, sets>>

\* Mutant of Refill: the loop returns as soon as the stages are empty.
NoRefill(d) == FALSE
\* When the stages are empty the next tracks come from the stack; the loop
\* returns when that is empty, too.
Refill(d) == stack[d] # {}

EndRound(t) ==
  LET d == tk[t].td IN
  /\ tk[t].pc = "loop" /\ staged[d] = {}
  /\ IF Refill(d)
       THEN /\ staged' = [staged EXCEPT ![d] = stack[d]]
            /\ stack' = [stack EXCEPT ![d] = {}]
            /\ UNCHANGED tk
       ELSE /\ Do(t, [pc |-> "after"])
            /\ UNCHANGED <<staged, stack>>
  /\ UNCHANGED <<taskdata, fQshare, server, sets>>

\* if (workload->IsDone()): a last loop in flush mode, unless it was one.
AfterLoop(t) ==
  /\ tk[t].pc = "after"
  /\ Do(t, IF ~ fDone[t] THEN [pc |-> "head"]
           ELSE IF tk[t].flush THEN [pc |-> "end"]
           ELSE [pc |-> "enter", flush |-> TRUE])
  /\ UNCHANGED <<taskdata, tracks, server, sets>>

------------------------------------------------------------------------------
(* NotifyEventSets: the first registered set with a marker of this number  *)
(* takes the event.  fDone is read by the owner without the lock.          *)

Hits(e) == {i \in DOMAIN fEventSets : \E m \in EventsOf[fEventSets[i]] : fEventNumber[m] = e}

\* Mutant of AllMarked: one event is enough.
AnyMarked(set, marks) == marks # {}
\* fNdone reaches fNevents.
AllMarked(set, marks) == EventsOf[set] \subseteq marks

NotifyNobody(t) ==
  /\ tk[t].pc = "notify"
  /\ fEventSetsLock = Null
  /\ Hits(tk[t].ev) = {}
  /\ Do(t, [pc |-> "loop", ev |-> Null])
  /\ UNCHANGED <<taskdata, tracks, server, sets>>

MarkDone(t) ==
  /\ tk[t].pc = "notify"
  /\ fEventSetsLock = Null
  /\ Hits(tk[t].ev) # {}
  /\ LET set == fEventSets[CHOOSE i \in Hits(tk[t].ev) : \A j \in Hits(tk[t].ev) : i <= j] IN
     \E m \in EventsOf[set] :
       /\ fEventNumber[m] = tk[t].ev
       /\ marked' = marked \union {m}
       /\ early' = early \union ({m} \cap tk[set].toadd)
       /\ fDone' = [fDone EXCEPT ![set] = AllMarked(set, marked')]
       /\ IF fDone'[set]
            THEN fEventSetsLock' = t /\ Do(t, [pc |-> "erase", ev |-> set])
            ELSE Do(t, [pc |-> "loop", ev |-> Null]) /\ UNCHANGED fEventSetsLock
  /\ UNCHANGED <<taskdata, tracks, server, fEventSets, fEventNumber>>

EraseSet(t) ==
  /\ tk[t].pc = "erase"
  /\ \E i \in DOMAIN fEventSets :
       fEventSets[i] = tk[t].ev /\ fEventSets' = RemoveAt(fEventSets, i)
  /\ fEventSetsLock' = Null
  /\ Do(t, [pc |-> "loop", ev |-> Null])
  /\ UNCHANGED <<taskdata, tracks, server, fEventNumber, marked, fDone, early>>

------------------------------------------------------------------------------
Step(t) ==
  \/ Book(t) \/ TakeSlot(t) \/ Register(t) \/ AddEvent(t) \/ RecordNumber(t)
  \/ Loop(t) \/ Serve(t) \/ FeedStolen(t) \/ FeedNothing(t) \/ EnterFlush(t) \/ Inject(t)
  \/ Continue(t) \/ EndTrack(t) \/ EndRound(t) \/ AfterLoop(t)
  \/ NotifyNobody(t) \/ MarkDone(t) \/ EraseSet(t)
  \/ Leave(t) \/ Release(t)

Next == \E t \in Tasks : Step(t)

\* The threads run, and no track is transported for ever: it is killed after
\* fNstepsKillThr steps.
Spec ==
  /\ Init /\ [][Next]_vars
  /\ \A t \in Tasks : WF_vars(Step(t))
  /\ SF_vars(\E t \in Tasks : EndTrack(t))

------------------------------------------------------------------------------
(* Properties                                                              *)

Pcs == {"book", "slot", "register", "add", "number", "head", "feed", "enter", "inject",
        "loop", "after", "notify", "erase", "end", "release", "out"}

\* The types of the state; the pool never holds more than its capacity.
TypeOK ==
  /\ fQueue \in Seq(TaskData) /\ Len(fQueue) <= Cardinality(TaskData)
  /\ fActiveTasks \in [Slots -> TaskData \union {Null}]
  /\ {stack, staged, fQshare} \subseteq [TaskData -> SUBSET Tracks]
  /\ todo \subseteq Tracks /\ fDoneEvents \subseteq Events
  /\ fEventSets \in Seq(Tasks) /\ fEventSetsLock \in Tasks \union {Null}
  /\ fEventNumber \in [Events -> Events \union {Null}]
  /\ marked \subseteq Events /\ early \subseteq Events /\ fDone \in [Tasks -> BOOLEAN]
  /\ \A t \in Tasks : tk[t].pc \in Pcs /\ tk[t].td \in TaskData \union {Null}

\* A task data object is in the pool or belongs to one task, and only a task
\* that holds it has it in a slot, where thieves look for it.
TaskDataExclusive ==
  /\ \A d \in TaskData :
       Cardinality({t \in Tasks : tk[t].td = d}) + Cardinality({i \in DOMAIN fQueue : fQueue[i] = d}) = 1
  /\ \A s \in Slots : fActiveTasks[s] # Null => \E t \in Tasks : tk[t].td = fActiveTasks[s]

\* RunSimulationTask returns only when the given workload is completed: all
\* the events of a set that is done are transported, unless a number that was
\* not recorded yet happened to be that of another event.
ReturnsWhenTransported ==
  \A t \in Tasks : fDone[t] => EventsOf[t] \subseteq fDoneEvents \union early

\* A task that returns leaves no track on its stack: at most some it had
\* stolen or shared.
LeavesNoStack ==
  \A t \in Tasks : tk[t].pc \in {"end", "release"} => stack[tk[t].td] = {}

Abandoned(e) ==
  \E i \in DOMAIN fQueue :
    TracksOf[e] \cap (staged[fQueue[i]] \union fQshare[fQueue[i]]) # {}

=============================================================================
