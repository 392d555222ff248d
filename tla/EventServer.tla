----------------------------- MODULE EventServer -----------------------------
(***************************************************************************)
(* The event server of a run (src/run/scheduler/src/EventServer.cxx), the  *)
(* events it serves (src/core/interfaces/src/Event.cxx) and the worker     *)
(* loop that takes primary tracks from it and gives transported tracks     *)
(* back (WorkloadManager.cxx, Propagator.cxx, RunManager.cxx).             *)
(*                                                                         *)
(* Every worker runs concurrently; an action is one access to shared       *)
(* memory.  A mpmc_bounded_queue is a sequence with atomic operations: see *)
(* MpmcQueue for what that leaves out.  What a track does between two      *)
(* accesses to its event is physics and is left out: it may produce        *)
(* secondaries and it is stopped in the end.  Tracks stay with the worker  *)
(* that took them: a worker shares tracks from ten on, see ShareTracks.    *)
(***************************************************************************)
EXTENDS Integers, Sequences, FiniteSets

CONSTANTS Workers,      \* worker threads, all propagators together
          Propagator,   \* the propagator of each worker
          NSlots,       \* fNactiveMax, the number of event slots
          NEvents,      \* fNevents of generator mode: events of the run
          Primaries,    \* number of primaries of each event
          NperBasket,   \* fNperBasket of the configuration
          PriorityThr,  \* fPriorityThr in percent
          MaxTracks,    \* bound: tracks an event may come to have
          Null

Slots == 0 .. NSlots - 1
Events == 0 .. NEvents - 1

ASSUME SizesAssumption ==
  /\ NSlots \in Nat \ {0} /\ NEvents \in Nat \ {0} /\ NSlots <= NEvents
  /\ NperBasket \in Nat \ {0} /\ PriorityThr \in Nat /\ MaxTracks \in Nat
ASSUME WorkersAssumption == IsFiniteSet(Workers) /\ Workers # {}
ASSUME PrimariesAssumption == Primaries \in [Events -> Nat \ {0}]
ASSUME NullAssumption == Null \notin Events

VARIABLES
  \* the server
  fNload, fGenLock, fPendingEvents, fFreeSlots, fEvents, fEvent, fNactive, fNstored,
  fEventsServed, fHasTracks, fInitialPhase, fNserved, fNinitialB,
  \* the events
  fNprimaries, fNtracks, fNdone, fNmax, fNdispatched, fSlot, fPrioritize,
  \* the run manager
  fDoneEvents, fPriorityEvents,
  \* the semaphore of each propagator's workers
  fCanStart,
  \* the workers
  pc, loc, buffer, flushed

queues == <<fPendingEvents, fFreeSlots>>
flags == <<fEventsServed, fHasTracks>>
server == <<fNload, fGenLock, fEvents, fEvent, fNactive, fNstored>>
phase == <<fInitialPhase, fNserved, fNinitialB>>
event == <<fNprimaries, fNtracks, fNdone, fNmax, fNdispatched, fSlot, fPrioritize>>
manager == <<fDoneEvents, fPriorityEvents>>
idle == <<fCanStart, flushed>>
vars == <<queues, flags, server, phase, event, manager, idle, pc, loc, buffer>>

------------------------------------------------------------------------------
(* The initial phase: its parameters are set by the AddEvent that stores   *)
(* the last of the first fNactiveMax events.                               *)

Min2(a, b) == IF a <= b THEN a ELSE b
Max2(a, b) == IF a >= b THEN a ELSE b

NThreads == Cardinality(Workers)
Propagators == {Propagator[t] : t \in Workers}

\* The primaries of the first fNactiveMax events.
fNtracksInit == Cardinality(UNION {{e} \X (0 .. Primaries[e] - 1) : e \in 0 .. NSlots - 1})

fInitialBsize ==
  LET nperthread == Max2(fNtracksInit \div NThreads, 1)
  IN  Min2(NperBasket, Min2(nperthread, fNtracksInit \div NSlots))

fNbasketsInit ==
  fNtracksInit \div fInitialBsize + (IF fNtracksInit % fInitialBsize > 0 THEN 1 ELSE 0)

\* Mutant of fMaxInit: the shares of the threads do not add up.
ShareRoundedDown == fNbasketsInit \div NThreads

fMaxInit ==
  LET share == fNbasketsInit \div NThreads
  IN  share + (IF share % NThreads > 0 THEN 1 ELSE 0)

------------------------------------------------------------------------------
(* The constructor pre-generates events and activates the first one.       *)

NGenerated == Min2(Max2(NSlots, NThreads), NEvents)

\* Locals of a worker: the event it works on, the index it booked, the slot it
\* holds, the event it clears, a counter value it fetched, the tracks it still
\* asks for, and whether this call got one.
NoLocals == [ev |-> Null, itr |-> 0, slot |-> 0, old |-> Null, n |-> 0, room |-> 0, got |-> FALSE]

Goto(t, label) == pc' = [pc EXCEPT ![t] = label]
Keep(t, field, value) == loc' = [loc EXCEPT ![t][field] = value]

Init ==
  /\ fNload = NGenerated
  /\ fGenLock = FALSE
  /\ fPendingEvents = [i \in 1 .. NGenerated - 1 |-> i]
  /\ fFreeSlots = [i \in 1 .. NSlots - 1 |-> i]
  /\ fEvents = [s \in Slots |-> IF s = 0 THEN 0 ELSE Null]
  /\ fEvent = 0
  /\ fNactive = 1
  /\ fNstored = NGenerated
  /\ fEventsServed = (NEvents = 1)
  /\ fHasTracks = TRUE
  /\ fInitialPhase = (NThreads > 1)
  /\ fNserved = 0
  /\ fNinitialB = [t \in Workers |-> 0]
  /\ fNprimaries = [e \in Events |-> IF e < NGenerated THEN Primaries[e] ELSE 0]
  /\ fNtracks = fNprimaries
  /\ fNmax = fNprimaries
  /\ fNdone = [e \in Events |-> 0]
  /\ fNdispatched = [e \in Events |-> 0]
  /\ fSlot = [e \in Events |-> 0]
  /\ fPrioritize = [e \in Events |-> FALSE]
  /\ fDoneEvents = {}
  /\ fPriorityEvents = 0
  /\ pc = [t \in Workers |-> "feed"]
  /\ loc = [t \in Workers |-> NoLocals]
  /\ buffer = [t \in Workers |-> {}]
  /\ fCanStart = [p \in Propagators |-> FALSE]
  /\ flushed = [t \in Workers |-> FALSE]

------------------------------------------------------------------------------
(* PreloadTracksForStep and FillStackBuffer                                *)

\* Back in the worker loop.  Without a new track the stepping loop flushes: it
\* does not come back before every track of the worker was transported.  A
\* worker that flushed and again got nothing is idle.
Return(t, injected) ==
  /\ Goto(t, IF injected THEN "step" ELSE IF flushed[t] THEN "idle" ELSE "flush")
  /\ flushed' = [flushed EXCEPT ![t] = ~ injected]
  /\ loc' = [loc EXCEPT ![t] = NoLocals]

\* Back in the stepping loop, after a track was stopped.
Resume(t) ==
  /\ Goto(t, IF flushed[t] THEN "flush" ELSE "step")
  /\ loc' = [loc EXCEPT ![t] = NoLocals]

\* Mutant of Exit: a worker leaves without StartAll.
ExitSilently(t) ==
  /\ pc[t] = "feed"
  /\ fDoneEvents = Events
  /\ Goto(t, "exit")
  /\ UNCHANGED <<queues, flags, server, phase, event, manager, idle, loc, buffer>>

\* CheckFeederAndExit: TransportCompleted() ends the worker, and StartAll lets
\* one waiting worker of the same propagator go on.  Propagator::StopTransport
\* starts none of the other propagators' workers.
Exit(t) ==
  /\ pc[t] = "feed"
  /\ fDoneEvents = Events
  /\ fCanStart' = [fCanStart EXCEPT ![Propagator[t]] = TRUE]
  /\ Goto(t, "exit")
  /\ UNCHANGED <<queues, flags, server, phase, event, manager, flushed, loc, buffer>>

FeedNothing(t) ==
  /\ pc[t] = "feed"
  /\ fDoneEvents # Events
  /\ \/ ~ fHasTracks
     \/ fInitialPhase /\ fNinitialB[t] >= fMaxInit
  /\ Return(t, FALSE)
  /\ UNCHANGED <<queues, flags, server, phase, event, manager, fCanStart, buffer>>

Feed(t) ==
  /\ pc[t] = "feed"
  /\ fDoneEvents # Events
  /\ fHasTracks
  /\ Keep(t, "room", fInitialBsize)
  /\ \/ /\ fInitialPhase /\ fNinitialB[t] < fMaxInit
        /\ fNinitialB' = [fNinitialB EXCEPT ![t] = @ + 1]
        /\ Goto(t, "f_served")
     \/ /\ ~ fInitialPhase
        /\ Goto(t, "g_load")
        /\ UNCHANGED fNinitialB
  /\ UNCHANGED <<queues, flags, server, fInitialPhase, fNserved, event, manager, idle, buffer>>

\* Nothing to transport: wait if the server still has events, else try again.
Suspend(t) ==
  /\ pc[t] = "idle"
  /\ Goto(t, IF fEventsServed THEN "feed" ELSE "wait")
  /\ UNCHANGED <<queues, flags, server, phase, event, manager, idle, loc, buffer>>

\* condition_locker::Wait returns, and lets nobody else go on.
Wake(t) ==
  /\ pc[t] = "wait"
  /\ fCanStart[Propagator[t]]
  /\ fCanStart' = [fCanStart EXCEPT ![Propagator[t]] = FALSE]
  /\ Goto(t, "feed")
  /\ UNCHANGED <<queues, flags, server, phase, event, manager, flushed, loc, buffer>>

\* The basket that reaches fNbasketsInit ends the initial phase.
CountServed(t) ==
  /\ pc[t] = "f_served"
  /\ fNserved' = fNserved + 1
  /\ fInitialPhase' = (fInitialPhase /\ fNserved + 1 < fNbasketsInit)
  /\ Goto(t, "g_load")
  /\ UNCHANGED <<queues, flags, server, fNinitialB, event, manager, idle, loc, buffer>>

------------------------------------------------------------------------------
(* GetNextTrack                                                            *)

LoadEvent(t) ==
  /\ pc[t] = "g_load"
  /\ Keep(t, "ev", fEvent)
  /\ Goto(t, "g_book")
  /\ UNCHANGED <<queues, flags, server, phase, event, manager, idle, buffer>>

\* Event::DispatchTrack: the index is fetched, then compared to fNprimaries.
\* The labels with b_ are the second call, on the event just activated.  The
\* counter stops at the number of primaries: a higher index is as invalid.
Book(t) ==
  /\ \/ pc[t] = "g_book" /\ Goto(t, "g_valid")
     \/ pc[t] = "b_book" /\ Goto(t, "b_valid")
  /\ Keep(t, "itr", fNdispatched[loc[t].ev])
  /\ fNdispatched' = [fNdispatched EXCEPT ![loc[t].ev] = Min2(@ + 1, Primaries[loc[t].ev])]
  /\ UNCHANGED <<queues, flags, server, phase, fNprimaries, fNtracks, fNdone, fNmax, fSlot,
                 fPrioritize, manager, idle, buffer>>

\* Mutant of Valid: off by one.
ValidOffByOne(t) == loc[t].itr <= fNprimaries[loc[t].ev]

Valid(t) == loc[t].itr < fNprimaries[loc[t].ev]

CheckBooked(t) ==
  /\ \/ /\ pc[t] \in {"g_valid", "b_valid"} /\ Valid(t)
        /\ Goto(t, "g_clone")
        /\ UNCHANGED loc
     \/ /\ pc[t] = "g_valid" /\ ~ Valid(t)
        /\ Goto(t, "a_served")
        /\ Keep(t, "itr", 0)
     \/ /\ pc[t] = "b_valid" /\ ~ Valid(t)
        /\ Goto(t, "g_load")
        /\ loc' = [loc EXCEPT ![t].itr = 0, ![t].ev = Null]
  /\ UNCHANGED <<queues, flags, server, phase, event, manager, idle, buffer>>

\* The copy of the primary carries its event's slot from here on; FillStackBuffer
\* adds it to the worker's buffer and asks for the next one.
Clone(t) ==
  LET e == loc[t].ev IN
  /\ pc[t] = "g_clone"
  /\ buffer' = [buffer EXCEPT ![t] = @ \union {[ev |-> e, slot |-> fSlot[e], id |-> loc[t].itr]}]
  /\ IF loc[t].room > 1
       THEN /\ loc' = [loc EXCEPT ![t] = [NoLocals EXCEPT !.room = loc[t].room - 1, !.got = TRUE]]
            /\ Goto(t, "g_load")
            /\ UNCHANGED flushed
       ELSE Return(t, TRUE)
  /\ UNCHANGED <<queues, flags, server, phase, event, manager, fCanStart>>

------------------------------------------------------------------------------
(* ActivateEvent                                                           *)

CheckServed(t) ==
  /\ pc[t] = "a_served"
  /\ Goto(t, IF fEventsServed THEN "g_nomore" ELSE "a_slot")
  /\ UNCHANGED <<queues, flags, server, phase, event, manager, idle, loc, buffer>>

\* GetNextTrack got kDone.
NoMoreTracks(t) ==
  /\ pc[t] = "g_nomore"
  /\ fHasTracks' = FALSE
  /\ Return(t, loc[t].got)
  /\ UNCHANGED <<queues, fEventsServed, server, phase, event, manager, fCanStart, buffer>>

TakeSlot(t) ==
  /\ pc[t] = "a_slot"
  /\ fFreeSlots # <<>>
  /\ Keep(t, "slot", Head(fFreeSlots))
  /\ fFreeSlots' = Tail(fFreeSlots)
  /\ Goto(t, "a_clear")
  /\ UNCHANGED <<fPendingEvents, flags, server, phase, event, manager, idle, buffer>>

\* kCSlots
NoSlot(t) ==
  /\ pc[t] = "a_slot"
  /\ fFreeSlots = <<>>
  /\ Return(t, loc[t].got)
  /\ UNCHANGED <<queues, flags, server, phase, event, manager, fCanStart, buffer>>

\* Event::Clear of the event that had the slot: fNprimaries goes to 0 before
\* fNdispatched does, so a worker that still holds the event books nothing.
ClearOld(t) ==
  LET s == loc[t].slot IN
  /\ pc[t] = "a_clear"
  /\ IF fEvents[s] = Null
       THEN /\ Goto(t, "a_pending")
            /\ UNCHANGED <<fEvents, fPrioritize, fSlot, fNprimaries, fNtracks, fNdone, fNmax, loc>>
       ELSE LET e == fEvents[s] IN
            /\ fEvents' = [fEvents EXCEPT ![s] = Null]
            /\ fPrioritize' = [fPrioritize EXCEPT ![e] = FALSE]
            /\ fSlot' = [fSlot EXCEPT ![e] = 0]
            /\ fNprimaries' = [fNprimaries EXCEPT ![e] = 0]
            /\ fNtracks' = [fNtracks EXCEPT ![e] = 0]
            /\ fNdone' = [fNdone EXCEPT ![e] = 0]
            /\ fNmax' = [fNmax EXCEPT ![e] = 0]
            /\ Keep(t, "old", e)
            /\ Goto(t, "a_clear2")
  /\ UNCHANGED <<queues, flags, fNload, fGenLock, fEvent, fNactive, fNstored, phase, fNdispatched,
                 manager, idle, buffer>>

ClearDispatched(t) ==
  /\ pc[t] = "a_clear2"
  /\ fNdispatched' = [fNdispatched EXCEPT ![loc[t].old] = 0]
  /\ Keep(t, "old", Null)
  /\ Goto(t, "a_pending")
  /\ UNCHANGED <<queues, flags, server, phase, fNprimaries, fNtracks, fNdone, fNmax, fSlot,
                 fPrioritize, manager, idle, buffer>>

TakePending(t) ==
  LET s == loc[t].slot
      e == Head(fPendingEvents) IN
  /\ pc[t] = "a_pending"
  /\ fPendingEvents # <<>>
  /\ fPendingEvents' = Tail(fPendingEvents)
  /\ fEvents' = [fEvents EXCEPT ![s] = e]
  /\ fSlot' = [fSlot EXCEPT ![e] = s]
  /\ Goto(t, "a_cas")
  /\ UNCHANGED <<fFreeSlots, flags, fNload, fGenLock, fEvent, fNactive, fNstored, phase,
                 fNprimaries, fNtracks, fNdone, fNmax, fNdispatched, fPrioritize, manager, idle, loc, buffer>>

\* kCEvents: the slot goes back.
NoPending(t) ==
  /\ pc[t] = "a_pending"
  /\ fPendingEvents = <<>>
  /\ Goto(t, "a_giveup")
  /\ UNCHANGED <<queues, flags, server, phase, event, manager, idle, loc, buffer>>

\* Mutant of ReturnSlot: the early return forgets the slot.
KeepSlot(t) ==
  /\ pc[t] = "a_giveup"
  /\ Return(t, loc[t].got)
  /\ UNCHANGED <<queues, flags, server, phase, event, manager, fCanStart, buffer>>

ReturnSlot(t) ==
  /\ pc[t] = "a_giveup"
  /\ fFreeSlots' = Append(fFreeSlots, loc[t].slot)
  /\ Return(t, loc[t].got)
  /\ UNCHANGED <<fPendingEvents, flags, server, phase, event, manager, fCanStart, buffer>>

\* fEvent.compare_exchange_strong(event, fEvents[slot])
Replace(t) ==
  /\ pc[t] = "a_cas"
  /\ fEvent = loc[t].ev
  /\ fEvent' = fEvents[loc[t].slot]
  /\ Keep(t, "ev", fEvents[loc[t].slot])
  /\ Goto(t, "a_count")
  /\ UNCHANGED <<queues, flags, fNload, fGenLock, fEvents, fNactive, fNstored, phase, event, manager, idle, buffer>>

\* Someone else was faster: the event and the slot go back, and the worker
\* goes on with the event the other activated.
Overtaken(t) ==
  /\ pc[t] = "a_cas"
  /\ fEvent # loc[t].ev
  /\ Keep(t, "ev", fEvent)
  /\ Goto(t, "a_undo")
  /\ UNCHANGED <<queues, flags, server, phase, event, manager, idle, buffer>>

\* Mutant of UndoPending: the event is not put back.
DropPending(t) ==
  /\ pc[t] = "a_undo"
  /\ Goto(t, "a_undo2")
  /\ UNCHANGED <<queues, flags, server, phase, event, manager, idle, loc, buffer>>

UndoPending(t) ==
  /\ pc[t] = "a_undo"
  /\ fPendingEvents' = Append(fPendingEvents, fEvents[loc[t].slot])
  /\ Goto(t, "a_undo2")
  /\ UNCHANGED <<fFreeSlots, flags, server, phase, event, manager, idle, loc, buffer>>

UndoSlot(t) ==
  /\ pc[t] = "a_undo2"
  /\ fEvents' = [fEvents EXCEPT ![loc[t].slot] = Null]
  /\ fFreeSlots' = Append(fFreeSlots, loc[t].slot)
  /\ Keep(t, "slot", 0)
  /\ Goto(t, "b_book")
  /\ UNCHANGED <<fPendingEvents, flags, fNload, fGenLock, fEvent, fNactive, fNstored, phase, event,
                 manager, idle, buffer>>

CountActive(t) ==
  /\ pc[t] = "a_count"
  /\ fNactive' = fNactive + 1
  /\ loc' = [loc EXCEPT ![t].n = fNactive + 1, ![t].slot = 0]
  /\ Goto(t, "a_flag")
  /\ UNCHANGED <<queues, flags, fNload, fGenLock, fEvents, fEvent, fNstored, phase, event, manager, idle, buffer>>

FlagServed(t) ==
  /\ pc[t] = "a_flag"
  /\ fEventsServed' = (fEventsServed \/ loc[t].n = NEvents)
  /\ Keep(t, "n", 0)
  /\ Goto(t, "a_has")
  /\ UNCHANGED <<queues, fHasTracks, server, phase, event, manager, idle, buffer>>

FlagHasTracks(t) ==
  /\ pc[t] = "a_has"
  /\ fHasTracks' = TRUE
  /\ Goto(t, "b_book")
  /\ UNCHANGED <<queues, fEventsServed, server, phase, event, manager, idle, loc, buffer>>

------------------------------------------------------------------------------
(* Transport: secondaries, StopTrack, EventTransported                     *)

Stepping(t) == pc[t] \in {"step", "flush"}

\* Propagator::AddTrack for a secondary of track k: the event is found by slot.
AddTrack(t, k) ==
  LET e == fEvents[k.slot] IN
  /\ Stepping(t)
  /\ k \in buffer[t]
  /\ fNtracks[e] < MaxTracks
  /\ fNtracks' = [fNtracks EXCEPT ![e] = @ + 1]
  /\ fNmax' = [fNmax EXCEPT ![e] = Max2(@, fNtracks[e] + 1 - fNdone[e])]
  /\ buffer' = [buffer EXCEPT ![t] = @ \union {[k EXCEPT !.id = fNtracks[e]]}]
  /\ UNCHANGED <<queues, flags, server, phase, fNprimaries, fNdone, fNdispatched, fSlot, fPrioritize,
                 manager, idle, pc, loc>>

\* Event::StopTrack, first access: the track is counted as done.
StopTrack(t, k) ==
  LET e == fEvents[k.slot] IN
  /\ Stepping(t)
  /\ k \in buffer[t]
  /\ buffer' = [buffer EXCEPT ![t] = @ \ {k}]
  /\ fNdone' = [fNdone EXCEPT ![e] = @ + 1]
  /\ loc' = [loc EXCEPT ![t].ev = e, ![t].n = fNdone[e] + 1]
  /\ Goto(t, "s_left")
  /\ UNCHANGED <<queues, flags, server, phase, fNprimaries, fNtracks, fNmax, fNdispatched, fSlot,
                 fPrioritize, manager, idle>>

\* Second access: how many tracks are in flight.  The last one ends the event;
\* otherwise the event may have to be prioritized.
\* Mutant of InFlight: fNdone is read again instead of using the fetched value.
InFlightReread(t) == fNtracks[loc[t].ev] - fNdone[loc[t].ev]

InFlight(t) == fNtracks[loc[t].ev] - loc[t].n

\* Mutant of LastTrack: secondaries are forgotten.
LastPrimary(t) == loc[t].n >= fNprimaries[loc[t].ev]

LastTrack(t) == loc[t].n >= fNprimaries[loc[t].ev] /\ InFlight(t) = 0

CheckLeft(t) ==
  LET e    == loc[t].ev
      urge == /\ ~ fPrioritize[e]
              /\ fPriorityEvents < NThreads \div Cardinality(Propagators)
              /\ 100 * InFlight(t) < PriorityThr * fNmax[e]
  IN
  /\ pc[t] = "s_left"
  /\ \/ LastTrack(t) /\ Goto(t, "t_done") /\ UNCHANGED loc
     \/ ~ LastTrack(t) /\ urge /\ Goto(t, "s_urge") /\ UNCHANGED loc
     \/ ~ LastTrack(t) /\ ~ urge /\ Resume(t)
  /\ UNCHANGED <<queues, flags, server, phase, event, manager, idle, buffer>>

Prioritize(t) ==
  /\ pc[t] = "s_urge"
  /\ fPrioritize' = [fPrioritize EXCEPT ![loc[t].ev] = TRUE]
  /\ Goto(t, "s_count")
  /\ UNCHANGED <<queues, flags, server, phase, fNprimaries, fNtracks, fNdone, fNmax, fNdispatched,
                 fSlot, manager, idle, loc, buffer>>

\* Propagator::StopTrack counts the prioritized event.
CountPriority(t) ==
  /\ pc[t] = "s_count"
  /\ fPriorityEvents' = fPriorityEvents + 1
  /\ Resume(t)
  /\ UNCHANGED <<queues, flags, server, phase, event, fDoneEvents, idle, buffer>>

\* Mutant of EventTransported: a prioritized event is assumed.
TransportedPrioritized(t) ==
  /\ pc[t] = "t_done"
  /\ fPriorityEvents' = fPriorityEvents - 1
  /\ fDoneEvents' = fDoneEvents \union {loc[t].ev}
  /\ Goto(t, "t_slot")
  /\ UNCHANGED <<queues, flags, server, phase, event, idle, loc, buffer>>

\* RunManager::EventTransported
EventTransported(t) ==
  /\ pc[t] = "t_done"
  /\ fPriorityEvents' = fPriorityEvents - (IF fPrioritize[loc[t].ev] THEN 1 ELSE 0)
  /\ fDoneEvents' = fDoneEvents \union {loc[t].ev}
  /\ Goto(t, "t_slot")
  /\ UNCHANGED <<queues, flags, server, phase, event, idle, loc, buffer>>

\* CompletedEvent releases the slot first, then generates.
CompletedEvent(t) ==
  /\ pc[t] = "t_slot"
  /\ fFreeSlots' = Append(fFreeSlots, fSlot[loc[t].ev])
  /\ Keep(t, "ev", Null)
  /\ Goto(t, "n_lock")
  /\ UNCHANGED <<fPendingEvents, flags, server, phase, event, manager, idle, buffer>>

------------------------------------------------------------------------------
(* GenerateNewEvent and AddEvent                                           *)

\* CompletedEvent spins while another worker has the generator.
LockGenerator(t) ==
  /\ pc[t] = "n_lock"
  /\ ~ fGenLock
  /\ fGenLock' = TRUE
  /\ Goto(t, "n_load")
  /\ UNCHANGED <<queues, flags, fNload, fEvents, fEvent, fNactive, fNstored, phase, event, manager, idle,
                 loc, buffer>>

\* Under the lock: reserve a number and fill the event; or there is none left.
GenerateNewEvent(t) ==
  LET e == fNload IN
  /\ pc[t] = "n_load"
  /\ fGenLock' = FALSE
  /\ IF e >= NEvents
       THEN /\ Resume(t)
            /\ UNCHANGED <<fNload, fNprimaries, fNtracks, fNmax>>
       ELSE /\ fNload' = e + 1
            /\ fNprimaries' = [fNprimaries EXCEPT ![e] = Primaries[e]]
            /\ fNtracks' = [fNtracks EXCEPT ![e] = Primaries[e]]
            /\ fNmax' = [fNmax EXCEPT ![e] = Primaries[e]]
            /\ Keep(t, "ev", e)
            /\ Goto(t, "n_add")
  /\ UNCHANGED <<queues, flags, fEvents, fEvent, fNactive, fNstored, phase, fNdone, fNdispatched, fSlot,
                 fPrioritize, manager, idle, buffer>>

AddEvent(t) ==
  /\ pc[t] = "n_add"
  /\ fPendingEvents' = Append(fPendingEvents, loc[t].ev)
  /\ Keep(t, "ev", Null)
  /\ Goto(t, "n_stored")
  /\ UNCHANGED <<fFreeSlots, flags, server, phase, event, manager, idle, buffer>>

\* Mutant of CountStored: the caller counts the event again.
CountStoredTwice(t) ==
  /\ pc[t] = "n_stored"
  /\ fNstored' = fNstored + 2
  /\ Goto(t, "n_served")
  /\ UNCHANGED <<queues, flags, fNload, fGenLock, fEvents, fEvent, fNactive, phase, event, manager,
                 idle, loc, buffer>>

CountStored(t) ==
  /\ pc[t] = "n_stored"
  /\ fNstored' = fNstored + 1
  /\ Goto(t, "n_served")
  /\ UNCHANGED <<queues, flags, fNload, fGenLock, fEvents, fEvent, fNactive, phase, event, manager, idle,
                 loc, buffer>>

ResetServed(t) ==
  /\ pc[t] = "n_served"
  /\ fEventsServed' = FALSE
  /\ Goto(t, "n_has")
  /\ UNCHANGED <<queues, fHasTracks, server, phase, event, manager, idle, loc, buffer>>

ResetHasTracks(t) ==
  /\ pc[t] = "n_has"
  /\ fHasTracks' = TRUE
  /\ Resume(t)
  /\ UNCHANGED <<queues, fEventsServed, server, phase, event, manager, idle, buffer>>

\* The stepping loop returns: at any point if it was given new tracks, with
\* nothing left to transport if it was flushing.
BackToFeed(t) ==
  /\ \/ pc[t] = "step"
     \/ pc[t] = "flush" /\ buffer[t] = {}
  /\ Goto(t, "feed")
  /\ UNCHANGED <<queues, flags, server, phase, event, manager, idle, loc, buffer>>

------------------------------------------------------------------------------

GetTracks(t) ==
  \/ Suspend(t) \/ Wake(t)
  \/ FeedNothing(t) \/ Feed(t) \/ CountServed(t)
  \/ LoadEvent(t) \/ Book(t) \/ CheckBooked(t) \/ Clone(t)

ActivateEvent(t) ==
  \/ CheckServed(t) \/ NoMoreTracks(t) \/ TakeSlot(t) \/ NoSlot(t)
  \/ ClearOld(t) \/ ClearDispatched(t) \/ TakePending(t) \/ NoPending(t) \/ ReturnSlot(t)
  \/ Replace(t) \/ Overtaken(t) \/ UndoPending(t) \/ UndoSlot(t)
  \/ CountActive(t) \/ FlagServed(t) \/ FlagHasTracks(t)

Transport(t) ==
  \/ \E k \in buffer[t] : AddTrack(t, k) \/ StopTrack(t, k)
  \/ CheckLeft(t) \/ Prioritize(t) \/ CountPriority(t) \/ EventTransported(t) \/ CompletedEvent(t)
  \/ LockGenerator(t) \/ GenerateNewEvent(t) \/ AddEvent(t) \/ CountStored(t)
  \/ ResetServed(t) \/ ResetHasTracks(t)

Work(t) == GetTracks(t) \/ ActivateEvent(t) \/ Transport(t) \/ BackToFeed(t)

Step(t) == Work(t) \/ Exit(t)

Finished == /\ \A t \in Workers : pc[t] = "exit"
            /\ UNCHANGED vars

Next == (\E t \in Workers : Step(t)) \/ Finished

Spec == Init /\ [][Next]_vars

------------------------------------------------------------------------------
(* Type correctness: every variable and local stays in its range; the       *)
(* counters of the server never pass the number of events of the run.       *)

Labels == {"feed", "f_served", "idle", "wait", "exit", "step", "flush",
           "g_load", "g_book", "g_valid", "g_clone", "g_nomore", "b_book", "b_valid",
           "a_served", "a_slot", "a_clear", "a_clear2", "a_pending", "a_giveup", "a_cas",
           "a_undo", "a_undo2", "a_count", "a_flag", "a_has",
           "s_left", "s_urge", "s_count", "t_done", "t_slot",
           "n_lock", "n_load", "n_add", "n_stored", "n_served", "n_has"}
EventOrNull == Events \union {Null}
Counts == [Events -> Nat]
Tracks == [ev : Events, slot : Slots, id : Nat]
Locals == [ev : EventOrNull, itr : Nat, slot : Slots, old : EventOrNull, n : Nat, room : Nat,
           got : BOOLEAN]

TypeOK ==
  /\ fNload \in 0 .. NEvents /\ fNactive \in 0 .. NEvents /\ fNstored \in 0 .. NEvents
  /\ fPendingEvents \in Seq(Events) /\ fFreeSlots \in Seq(Slots)
  /\ fEvents \in [Slots -> EventOrNull] /\ fEvent \in Events
  /\ {fGenLock, fEventsServed, fHasTracks, fInitialPhase} \subseteq BOOLEAN
  /\ fNserved \in Nat /\ fNinitialB \in [Workers -> Nat]
  /\ {fNprimaries, fNtracks, fNdone, fNmax, fNdispatched} \subseteq Counts
  /\ fSlot \in [Events -> Slots] /\ fPrioritize \in [Events -> BOOLEAN]
  /\ fDoneEvents \subseteq Events /\ fPriorityEvents \in Int
  /\ fCanStart \in [Propagators -> BOOLEAN] /\ flushed \in [Workers -> BOOLEAN]
  /\ pc \in [Workers -> Labels] /\ loc \in [Workers -> Locals]
  /\ \A t \in Workers : buffer[t] \subseteq Tracks

------------------------------------------------------------------------------
(* Where slots, events and tracks are.                                      *)

\* t has taken its slot out of fFreeSlots and not yet published an event in it.
Holds(t, s) ==
  /\ pc[t] \in {"a_clear", "a_clear2", "a_pending", "a_giveup", "a_cas", "a_undo", "a_undo2"}
  /\ loc[t].slot = s

\* The event still needs the slot: until CompletedEvent releases it.
Needed(e) == e \notin fDoneEvents \/ \E t \in Workers : pc[t] = "t_slot" /\ loc[t].ev = e

Occupied(s) ==
  /\ fEvents[s] # Null
  /\ Needed(fEvents[s])
  /\ \A t \in Workers : ~ Holds(t, s)

Occurrences(seq, x) == Cardinality({i \in DOMAIN seq : seq[i] = x})
Ones(P) == IF P THEN 1 ELSE 0

\* No event slot leaks and none is given to two events: every slot is either in
\* fFreeSlots once, or with one worker that activates an event in it, or taken
\* by an event that is not yet completed (ActivateEvent, CompletedEvent).
SlotConservation ==
  \A s \in Slots :
    Occurrences(fFreeSlots, s) + Cardinality({t \in Workers : Holds(t, s)}) + Ones(Occupied(s)) = 1

\* No event is lost or served twice, whatever the losers of the exchange on
\* fEvent put back: a generated event is in one place, namely with the worker
\* that adds it, pending, with the worker that activates it, in a slot, or done.
EventConservation ==
  \A e \in Events :
    LET adding     == {t \in Workers : pc[t] = "n_add" /\ loc[t].ev = e}
        activating == {t \in Workers : pc[t] \in {"a_cas", "a_undo"} /\ fEvents[loc[t].slot] = e}
        slots      == {s \in Slots : Occupied(s) /\ fEvents[s] = e}
    IN  Cardinality(adding) + Occurrences(fPendingEvents, e) + Cardinality(activating)
          + Cardinality(slots) + Ones(~ Needed(e)) = Ones(e < fNload)

InTransport == UNION {buffer[t] : t \in Workers}
Booked(t) == pc[t] = "g_clone" \/ (pc[t] \in {"g_valid", "b_valid"} /\ Valid(t))

\* An event ends when its last track ends and not before: fNtracks - fNdone is
\* the number of its tracks in transport, booked, or still to be dispatched,
\* and a done event has none of them (Event::DispatchTrack, AddTrack, StopTrack).
TrackAccounting ==
  \A e \in Events :
    LET tracks == {k \in InTransport : k.ev = e}
        booked == {t \in Workers : Booked(t) /\ loc[t].ev = e}
        left   == Cardinality(tracks) + Cardinality(booked)
    IN  IF e \in fDoneEvents THEN left = 0
        ELSE fNtracks[e] - fNdone[e] = left + fNprimaries[e] - fNdispatched[e]

\* A track finds its event through its slot number: as long as the track is in
\* transport the slot still has that event (Propagator::AddTrack, StopTrack).
TrackFindsEvent ==
  \A k \in InTransport : fEvents[k.slot] = k.ev /\ fSlot[k.ev] = k.slot

\* RunManager::EventTransported is called once per event: of all the workers that
\* stop tracks of an event, one sees itself to be the last.
EndsOnce ==
  \A t \in Workers : pc[t] = "t_done" =>
    /\ loc[t].ev \notin fDoneEvents
    /\ \A u \in Workers \ {t} : pc[u] = "t_done" => loc[u].ev # loc[t].ev

\* The limit on prioritized events holds: the flag and the counter are written in
\* separate steps, and both late for an event that another worker ends, yet the
\* counter may only be too high, never short of an event that is prioritized,
\* other than by those about to be counted (StopTrack, EventTransported).
PriorityCounted ==
  fPriorityEvents + Cardinality({t \in Workers : pc[t] = "s_count"})
    >= Cardinality({e \in Events \ fDoneEvents : fPrioritize[e]})

\* The workers are never all asleep (or gone) with one of them left asleep:
\* nobody would be there to start it again (condition_locker, TransportTracksV3).
NeverAllAsleep ==
  LET asleep == {t \in Workers : pc[t] = "wait" /\ ~ fCanStart[Propagator[t]]}
      gone   == {t \in Workers : pc[t] = "exit"}
  IN  asleep \union gone = Workers => asleep = {}

\* Every worker ends, and a worker ends only when every event is transported.
AllExit == <>(\A t \in Workers : pc[t] = "exit")
=============================================================================
