-------------------------- MODULE EventServerProofs --------------------------
(***************************************************************************)
(* The event server serves every event once and loses none, for any number *)
(* of workers, slots, events and primaries.  And when its workers may all  *)
(* be asleep.                                                              *)
(***************************************************************************)
EXTENDS EventServer, QueueLemmas

------------------------------------------------------------------------------
(* Where an event is, and where a slot is                                  *)

HoldLabels == {"a_clear", "a_clear2", "a_pending", "a_giveup", "a_cas", "a_undo", "a_undo2"}

\* The labels at which a worker goes on to use its event.
AtEvent == {"g_book", "g_valid", "g_clone", "b_book", "b_valid", "a_served", "a_slot", "g_nomore",
            "a_clear", "a_clear2", "a_pending", "a_giveup", "a_cas", "a_undo", "a_undo2",
            "a_count", "a_flag", "a_has", "s_left", "s_urge", "s_count", "t_done", "t_slot"}

Adding(t, e) == pc[t] = "n_add" /\ loc[t].ev = e
Pending(e) == e \in Range(fPendingEvents)
Activating(t, e) == pc[t] \in {"a_cas", "a_undo"} /\ fEvents[loc[t].slot] = e

\* Generated and not yet activated, or activated: fEvent has been this event.
Waiting(e) == Pending(e) \/ \E t \in Workers : Adding(t, e) \/ Activating(t, e)
Activated(e) == e < fNload /\ ~ Waiting(e)

Free(s) == s \in Range(fFreeSlots)
Vacant(s) == fEvents[s] = Null \/ ~ Needed(fEvents[s])

------------------------------------------------------------------------------
(* The inductive invariant                                                 *)

TypeInv ==
  /\ fNload \in 0 .. NEvents /\ fNactive \in Nat /\ fNstored \in Nat
  /\ fPendingEvents \in Seq(Events) /\ fFreeSlots \in Seq(Slots)
  /\ fEvents \in [Slots -> EventOrNull] /\ fEvent \in Events
  /\ fGenLock \in BOOLEAN /\ fEventsServed \in BOOLEAN /\ fHasTracks \in BOOLEAN
  /\ fInitialPhase \in BOOLEAN
  /\ fNserved \in Nat /\ fNinitialB \in [Workers -> Nat]
  /\ fNprimaries \in Counts /\ fNtracks \in Counts /\ fNdone \in Counts /\ fNmax \in Counts
  /\ fNdispatched \in Counts
  /\ fSlot \in [Events -> Slots] /\ fPrioritize \in [Events -> BOOLEAN]
  /\ fDoneEvents \subseteq Events /\ fPriorityEvents \in Int
  /\ fCanStart \in [Propagators -> BOOLEAN] /\ flushed \in [Workers -> BOOLEAN]
  /\ pc \in [Workers -> Labels] /\ loc \in [Workers -> Locals]
  /\ buffer \in [Workers -> SUBSET Tracks]

\* A slot is free, held by one worker, or taken by an event that knows it.
SlotInv ==
  /\ IsInjective(fFreeSlots)
  /\ \A s \in Slots :
       /\ Free(s) => Vacant(s) /\ \A t \in Workers : ~ Holds(t, s)
       /\ \A t, u \in Workers : Holds(t, s) /\ Holds(u, s) => t = u
       /\ Free(s) \/ (\E t \in Workers : Holds(t, s)) \/ ~ Vacant(s)
       /\ Occupied(s) => fSlot[fEvents[s]] = s

\* What the worker that holds a slot has put into it.
HolderInv ==
  \A t \in Workers :
    /\ pc[t] = "a_clear" => Vacant(loc[t].slot)
    /\ pc[t] \in {"a_clear2", "a_pending", "a_giveup"} => fEvents[loc[t].slot] = Null
    /\ pc[t] \in {"a_cas", "a_undo"} =>
         /\ fEvents[loc[t].slot] \in Events
         /\ fSlot[fEvents[loc[t].slot]] = loc[t].slot

\* A waiting event is in one place.
OnePlace ==
  /\ IsInjective(fPendingEvents)
  /\ \A e \in Events :
       /\ \A t, u \in Workers :
            /\ Adding(t, e) /\ Adding(u, e) => t = u
            /\ Activating(t, e) /\ Activating(u, e) => t = u
            /\ ~ (Adding(t, e) /\ Activating(u, e))
       /\ Pending(e) => \A t \in Workers : ~ Adding(t, e) /\ ~ Activating(t, e)

\* It is not done, and no slot has it.
NotYet ==
  \A e \in Events : Waiting(e) => /\ e < fNload /\ e \notin fDoneEvents
                                 /\ \A s \in Slots : Occupied(s) => fEvents[s] # e

Generated ==
  /\ \A e \in Events : e \in fDoneEvents => e < fNload
  /\ \A s \in Slots : fEvents[s] # Null => fEvents[s] < fNload

\* An activated event has its slot, as long as it needs it.
HasSlot ==
  \A e \in Events : Activated(e) /\ Needed(e) =>
    /\ fEvents[fSlot[e]] = e
    /\ \A t \in Workers : ~ Holds(t, fSlot[e])

PlaceInv == OnePlace /\ NotYet /\ Generated /\ HasSlot

\* The events that workers use are activated.
WorkInv ==
  /\ Activated(fEvent)
  /\ \A t \in Workers : pc[t] \in AtEvent => loc[t].ev \in Events /\ Activated(loc[t].ev)
  /\ \A t \in Workers : pc[t] = "n_add" => loc[t].ev \in Events

Places == SlotInv /\ HolderInv /\ PlaceInv /\ WorkInv

Fresh(e) == fNdone[e] = 0 /\ fNdispatched[e] = 0
Cleared(e) == fNprimaries[e] = 0 /\ fNtracks[e] = 0 /\ fNdone[e] = 0

\* The counters of an event along its life; a done event is cleared when its
\* slot is taken again, fNdispatched last.
CounterInv ==
  \A e \in Events :
    /\ e >= fNload => Cleared(e) /\ Fresh(e)
    /\ Waiting(e) => fNprimaries[e] = Primaries[e] /\ fNtracks[e] = Primaries[e] /\ Fresh(e)
    /\ Activated(e) /\ e \notin fDoneEvents =>
         fNprimaries[e] = Primaries[e] /\ fNtracks[e] >= Primaries[e] /\ fNdispatched[e] <= Primaries[e]
    /\ e \in fDoneEvents =>
         \/ Cleared(e) /\ ~ Needed(e)
         \/ /\ fNprimaries[e] = Primaries[e] /\ fNdispatched[e] = Primaries[e]
            /\ fNtracks[e] = fNdone[e] /\ fNdone[e] > 0

ClearInv ==
  \A t \in Workers : pc[t] = "a_clear2" =>
    /\ loc[t].old \in fDoneEvents
    /\ Cleared(loc[t].old) /\ ~ Needed(loc[t].old)

TracksOf(e) == {k \in InTransport : k.ev = e}
BookedOf(e) == {t \in Workers : Booked(t) /\ loc[t].ev = e}

\* Every track is with one worker, and its index was given out before.
TrackInv ==
  /\ \A t, u \in Workers : t # u => buffer[t] \cap buffer[u] = {}
  /\ \A t \in Workers : \A k \in buffer[t] :
       /\ Activated(k.ev) /\ k.ev \notin fDoneEvents
       /\ k.slot = fSlot[k.ev]
       /\ k.id < fNtracks[k.ev]
       /\ k.id < Primaries[k.ev] => k.id < fNdispatched[k.ev]

\* A booked index is a primary's, and nobody else has it.
BookedInv ==
  \A t \in Workers : Booked(t) =>
    /\ loc[t].ev \notin fDoneEvents
    /\ loc[t].itr < fNdispatched[loc[t].ev]
    /\ loc[t].itr < Primaries[loc[t].ev]
    /\ \A u \in Workers : \A k \in buffer[u] : k.ev = loc[t].ev => k.id # loc[t].itr
    /\ \A u \in Workers \ {t} : Booked(u) /\ loc[u].ev = loc[t].ev => loc[u].itr # loc[t].itr

\* The tracks of an event that is not done are all accounted for.
AccountInv ==
  /\ IsFiniteSet(InTransport)
  /\ \A e \in Events \ fDoneEvents :
       fNtracks[e] - fNdone[e]
         = Cardinality(TracksOf(e)) + Cardinality(BookedOf(e)) + fNprimaries[e] - fNdispatched[e]

\* The counts that the workers of an event got from fNdone differ; the one that
\* got the number of tracks ends the event.
EndInv ==
  \A t \in Workers :
    /\ pc[t] = "s_left" =>
         /\ loc[t].n > 0
         /\ loc[t].ev \notin fDoneEvents => loc[t].n <= fNdone[loc[t].ev]
         /\ loc[t].ev \in fDoneEvents => loc[t].n # fNtracks[loc[t].ev]
    /\ pc[t] = "t_done" =>
         /\ loc[t].ev \notin fDoneEvents
         /\ loc[t].n = fNtracks[loc[t].ev] /\ loc[t].n = fNdone[loc[t].ev]
    /\ \A u \in Workers \ {t} :
         /\ {pc[t], pc[u]} \subseteq {"s_left", "t_done"} /\ loc[t].ev = loc[u].ev => loc[t].n # loc[u].n
         /\ pc[t] = "t_slot" /\ pc[u] = "t_slot" => loc[t].ev # loc[u].ev
    /\ pc[t] = "t_slot" => loc[t].ev \in fDoneEvents

Accounts == CounterInv /\ ClearInv /\ TrackInv /\ BookedInv /\ AccountInv /\ EndInv

Activateds == {e \in Events : Activated(e)}
Storing == {t \in Workers : pc[t] \in {"n_add", "n_stored"}}
Counting == {t \in Workers : pc[t] = "a_count"}

\* fNstored and fNactive are late by the workers about to count.
CountInv ==
  /\ fNstored + Cardinality(Storing) = fNload
  /\ fNactive + Cardinality(Counting) = Cardinality(Activateds)

ServerInv == TypeInv /\ Places /\ Accounts
IInv == ServerInv /\ CountInv /\ PriorityCounted

------------------------------------------------------------------------------
(* Types                                                                   *)

LEMMA EventFacts ==
  /\ NThreads \in Nat \ {0}
  /\ NGenerated \in Nat \ {0} /\ NGenerated <= NEvents /\ NSlots <= NGenerated
  /\ Slots \subseteq Events /\ 0 \in Slots /\ 0 \in Events
  /\ \A e \in Events : e \in Nat /\ e < NEvents /\ Primaries[e] \in Nat \ {0} /\ e # Null
  /\ \A t \in Workers : Propagator[t] \in Propagators
<1>1. NThreads \in Nat \ {0}
  BY WorkersAssumption, FS_CardinalityType, FS_EmptySet DEF NThreads
<1> QED
  BY <1>1, SizesAssumption, PrimariesAssumption, NullAssumption
  DEF NGenerated, Min2, Max2, Slots, Events, Propagators

\* FillStackBuffer asks for a number of tracks: the initial phase divides by the
\* numbers of threads and slots only.
LEMMA RoomIsNat == fInitialBsize \in Nat
<1> DEFINE S == 0 .. NSlots - 1
           P(e) == {e} \X (0 .. Primaries[e] - 1)
           f == [e \in S |-> P(e)]
           T == {P(e) : e \in S}
<1>1. IsFiniteSet(S)
  BY SizesAssumption, FS_Interval
<1>2. f \in Surjection(S, T)
  BY DEF Surjection
<1>3. IsFiniteSet(T)
  <2> HIDE DEF f, T, S
  <2> QED BY <1>1, <1>2, FS_Surjection
<1>4. ASSUME NEW U \in T PROVE IsFiniteSet(U)
  <2>1. PICK e \in S : U = {e} \X (0 .. Primaries[e] - 1)
    OBVIOUS
  <2>2. e \in Events /\ Primaries[e] \in Nat
    BY EventFacts DEF Slots
  <2>3. IsFiniteSet({e})
    BY FS_Singleton
  <2>4. IsFiniteSet(0 .. Primaries[e] - 1)
    <3>1. 0 \in Int /\ Primaries[e] - 1 \in Int
      BY <2>2
    <3> QED
      BY <3>1, FS_Interval
  <2> HIDE DEF S, T
  <2> QED
    BY <2>1, <2>3, <2>4, FS_Product
<1>5. IsFiniteSet(UNION T)
  <2> HIDE DEF T
  <2> QED BY <1>3, <1>4, FS_UNION
<1>6. fNtracksInit \in Nat
  BY <1>5, FS_CardinalityType DEF fNtracksInit
<1>7. /\ fNtracksInit \div NThreads \in Nat
      /\ fNtracksInit \div NSlots \in Nat
  <2>1. ASSUME NEW a \in Nat, NEW b \in Nat \ {0} PROVE a \div b \in Nat
    OBVIOUS
  <2> QED
    BY <1>6, <2>1, EventFacts, SizesAssumption
<1> QED
  BY <1>7, SizesAssumption DEF fInitialBsize, Min2, Max2

\* The state in which the server is constructed.
LEMMA TypeInit == Init => TypeInv
<1> SUFFICES ASSUME Init PROVE TypeInv
  OBVIOUS
<1>1. /\ fPendingEvents \in Seq(Events) /\ fFreeSlots \in Seq(Slots)
  <2>1. \A i \in 1 .. NGenerated - 1 : i \in Events
    BY EventFacts, SizesAssumption DEF Events
  <2>2. \A i \in 1 .. NSlots - 1 : i \in Slots
    BY SizesAssumption DEF Slots
  <2> QED
    BY <2>1, <2>2, EventFacts, SizesAssumption DEF Init
<1>2. /\ fNprimaries \in Counts /\ fNtracks \in Counts /\ fNmax \in Counts
      /\ fNdone \in Counts /\ fNdispatched \in Counts
  BY EventFacts DEF Init, Counts
<1>3. pc \in [Workers -> Labels] /\ loc \in [Workers -> Locals]
  BY EventFacts DEF Init, Labels, Locals, NoLocals, EventOrNull
<1>4. /\ fEvents \in [Slots -> EventOrNull] /\ fEvent \in Events
      /\ fSlot \in [Events -> Slots] /\ fPrioritize \in [Events -> BOOLEAN]
  BY EventFacts DEF Init, EventOrNull
<1>5. fNload \in 0 .. NEvents /\ fNactive \in Nat /\ fNstored \in Nat
  BY EventFacts, SizesAssumption DEF Init
<1>6. /\ fGenLock \in BOOLEAN /\ fEventsServed \in BOOLEAN /\ fHasTracks \in BOOLEAN
      /\ fInitialPhase \in BOOLEAN
  <2>1. ASSUME NEW P \in BOOLEAN, NEW x, x = P PROVE x \in BOOLEAN
    BY <2>1
  <2>2. (NEvents = 1) \in BOOLEAN /\ (NThreads > 1) \in BOOLEAN
    BY SMT
  <2>3. fEventsServed \in BOOLEAN
    BY <2>1, <2>2, Zenon DEF Init
  <2>4. fInitialPhase \in BOOLEAN
    BY <2>1, <2>2, Zenon DEF Init
  <2> QED
    BY <2>3, <2>4, Zenon DEF Init
<1> QED
  BY <1>1, <1>2, <1>3, <1>4, <1>5, <1>6 DEF Init, TypeInv

\* A track in transport finds its event in its slot (the first half of TrackFindsEvent).
LEMMA TrackFound ==
  ASSUME ServerInv, NEW t \in Workers, NEW k \in buffer[t]
  PROVE  /\ k \in Tracks /\ k \in InTransport
         /\ k.ev \in Events /\ k.slot \in Slots /\ k.id \in Nat
         /\ fEvents[k.slot] = k.ev /\ fSlot[k.ev] = k.slot
         /\ Activated(k.ev) /\ k.ev \notin fDoneEvents
         /\ \A u \in Workers : ~ Holds(u, k.slot)
<1>1. k \in Tracks /\ k \in InTransport
  BY DEF ServerInv, TypeInv, InTransport
<1>2. k.ev \in Events /\ k.slot \in Slots /\ k.id \in Nat
  BY <1>1 DEF Tracks
<1>3. Activated(k.ev) /\ k.ev \notin fDoneEvents /\ fSlot[k.ev] = k.slot
  BY DEF ServerInv, Accounts, TrackInv
<1>4. Needed(k.ev)
  BY <1>3 DEF Needed
<1>5. fEvents[fSlot[k.ev]] = k.ev /\ \A u \in Workers : ~ Holds(u, fSlot[k.ev])
  BY <1>2, <1>3, <1>4 DEF ServerInv, Places, PlaceInv, HasSlot
<1> QED
  BY <1>1, <1>2, <1>3, <1>5

\* The locals of a worker.
LEMMA LocalTypes ==
  ASSUME TypeInv, NEW t \in Workers
  PROVE  /\ pc[t] \in Labels
         /\ loc[t].ev \in EventOrNull /\ loc[t].itr \in Nat /\ loc[t].slot \in Slots
         /\ loc[t].old \in EventOrNull /\ loc[t].n \in Nat /\ loc[t].room \in Nat
         /\ loc[t].got \in BOOLEAN
BY DEF TypeInv, Locals

\* Types are kept by the actions that take tracks from the server.
LEMMA TypeGetTracks ==
  ASSUME ServerInv, NEW t \in Workers, GetTracks(t) \/ Exit(t) \/ BackToFeed(t)
  PROVE  TypeInv'
<1>0. TypeInv
  BY DEF ServerInv
<1>a. pc \in [Workers -> Labels] /\ loc \in [Workers -> Locals] /\ flushed \in [Workers -> BOOLEAN]
      /\ buffer \in [Workers -> SUBSET Tracks]
  BY <1>0 DEF TypeInv
<1>b. /\ fNprimaries \in [Events -> Nat] /\ fNtracks \in [Events -> Nat] /\ fNdone \in [Events -> Nat]
      /\ fNmax \in [Events -> Nat] /\ fNdispatched \in [Events -> Nat]
  BY <1>0 DEF TypeInv, Counts
<1>c. NoLocals \in Locals
  BY EventFacts DEF Locals, NoLocals, EventOrNull
<1>1. CASE Suspend(t)
  <2>1. pc' \in [Workers -> Labels]
    BY <1>a, <1>1 DEF Suspend, Goto, Labels
  <2> QED
    BY <1>0, <1>1, <2>1
    DEF Suspend, TypeInv, queues, flags, server, phase, event, manager, idle
<1>2. CASE BackToFeed(t)
  <2>1. pc' \in [Workers -> Labels]
    BY <1>a, <1>2 DEF BackToFeed, Goto, Labels
  <2> QED
    BY <1>0, <1>2, <2>1
    DEF BackToFeed, TypeInv, queues, flags, server, phase, event, manager, idle
<1>3. CASE Exit(t)
  <2>1. pc' \in [Workers -> Labels]
    BY <1>a, <1>3 DEF Exit, Goto, Labels
  <2> QED
    BY <1>0, <1>3, <2>1, EventFacts
    DEF Exit, TypeInv, queues, flags, server, phase, event, manager, idle
<1>4. CASE Wake(t)
  <2>1. pc' \in [Workers -> Labels]
    BY <1>a, <1>4 DEF Wake, Goto, Labels
  <2> QED
    BY <1>0, <1>4, <2>1, EventFacts
    DEF Wake, TypeInv, queues, flags, server, phase, event, manager, idle
<1>5. CASE FeedNothing(t)
  <2>1. pc' \in [Workers -> Labels] /\ loc' \in [Workers -> Locals] /\ flushed' \in [Workers -> BOOLEAN]
    BY <1>a, <1>c, <1>5 DEF FeedNothing, Return, Goto, Labels, idle
  <2> QED
    BY <1>0, <1>5, <2>1
    DEF FeedNothing, TypeInv, queues, flags, server, phase, event, manager, idle
<1>6. CASE Feed(t)
  <2>1. fNinitialB' \in [Workers -> Nat]
    BY <1>0, <1>6 DEF Feed, TypeInv
  <2>2. pc' \in [Workers -> Labels]
    BY <1>a, <1>6 DEF Feed, Goto, Labels
  <2>3. loc' \in [Workers -> Locals]
    BY <1>a, <1>6, RoomIsNat DEF Feed, Keep, Locals, EventOrNull
  <2> QED
    BY <1>0, <1>6, <2>1, <2>2, <2>3
    DEF Feed, TypeInv, queues, flags, server, phase, event, manager, idle
<1>7. CASE CountServed(t)
  <2>1. fInitialPhase' \in BOOLEAN
    BY <1>7, Zenon DEF CountServed
  <2>2. pc' \in [Workers -> Labels]
    BY <1>a, <1>7 DEF CountServed, Goto, Labels
  <2> QED
    BY <1>0, <1>7, <2>1, <2>2
    DEF CountServed, TypeInv, queues, flags, server, phase, event, manager, idle
<1>8. CASE LoadEvent(t)
  <2>1. fEvent \in EventOrNull
    BY <1>0 DEF TypeInv, EventOrNull
  <2>2. pc' \in [Workers -> Labels]
    BY <1>a, <1>8 DEF LoadEvent, Goto, Labels
  <2>3. loc' \in [Workers -> Locals]
    BY <1>a, <1>8, <2>1 DEF LoadEvent, Keep, Locals, EventOrNull
  <2> QED
    BY <1>0, <1>8, <2>1, <2>2, <2>3
    DEF LoadEvent, TypeInv, queues, flags, server, phase, event, manager, idle
<1>9. CASE Book(t)
  <2>1. loc[t].ev \in Events
    BY <1>9 DEF Book, ServerInv, Places, WorkInv, AtEvent
  <2>2. fNdispatched[loc[t].ev] \in Nat /\ fNdispatched' \in Counts
    BY <1>b, <1>9, <2>1, EventFacts DEF Book, Counts, Min2
  <2>3. pc' \in [Workers -> Labels]
    BY <1>a, <1>9 DEF Book, Goto, Labels
  <2>4. loc' \in [Workers -> Locals]
    BY <1>a, <1>9, <2>1, <2>2 DEF Book, Keep, Locals, EventOrNull
  <2> QED
    BY <1>0, <1>9, <2>1, <2>2, <2>3, <2>4
    DEF Book, TypeInv, queues, flags, server, phase, event, manager, idle
<1>10. CASE CheckBooked(t)
  <2>1. pc' \in [Workers -> Labels]
    BY <1>a, <1>10 DEF CheckBooked, Goto, Labels
  <2>2. loc' \in [Workers -> Locals]
    BY <1>a, <1>10 DEF CheckBooked, Keep, Locals, EventOrNull
  <2> QED
    BY <1>0, <1>10, <2>1, <2>2
    DEF CheckBooked, TypeInv, queues, flags, server, phase, event, manager, idle
<1>11. CASE Clone(t)
  <2> DEFINE k == [ev |-> loc[t].ev, slot |-> fSlot[loc[t].ev], id |-> loc[t].itr]
             r == [NoLocals EXCEPT !.room = loc[t].room - 1, !.got = TRUE]
  <2>1. k \in Tracks
    <3>1. loc[t].ev \in Events
      BY <1>11 DEF Clone, ServerInv, Places, WorkInv, AtEvent
    <3>2. fSlot[loc[t].ev] \in Slots /\ loc[t].itr \in Nat
      BY <1>0, <3>1, LocalTypes DEF TypeInv
    <3> QED
      BY <3>1, <3>2 DEF Tracks
  <2>2. buffer' \in [Workers -> SUBSET Tracks]
    BY <1>a, <1>11, <2>1 DEF Clone
  <2>3. pc' \in [Workers -> Labels] /\ loc' \in [Workers -> Locals] /\ flushed' \in [Workers -> BOOLEAN]
    <3>1. CASE loc[t].room > 1
      <4>1. loc[t].room - 1 \in Nat
        BY <1>0, <3>1, LocalTypes
      <4>2. r \in Locals
        BY <4>1, EventFacts DEF Locals, NoLocals, EventOrNull
      <4>3. loc' = [loc EXCEPT ![t] = r] /\ Goto(t, "g_load") /\ flushed' = flushed
        BY <1>11, <3>1 DEF Clone
      <4> QED
        BY <1>a, <4>2, <4>3 DEF Goto, Labels
    <3>2. CASE ~ (loc[t].room > 1)
      BY <1>a, <1>c, <1>11, <3>2 DEF Clone, Return, Goto, Labels
    <3> QED
      BY <3>1, <3>2
  <2> QED
    BY <1>0, <1>11, <2>2, <2>3
    DEF Clone, TypeInv, queues, flags, server, phase, event, manager, idle
<1> QED
  BY <1>1, <1>2, <1>3, <1>4, <1>5, <1>6, <1>7, <1>8, <1>9, <1>10, <1>11
  DEF GetTracks

\* Types are kept by ActivateEvent.
LEMMA TypeActivate ==
  ASSUME ServerInv, NEW t \in Workers, ActivateEvent(t)
  PROVE  TypeInv'
<1>0. TypeInv
  BY DEF ServerInv
<1>a. pc \in [Workers -> Labels] /\ loc \in [Workers -> Locals] /\ flushed \in [Workers -> BOOLEAN]
      /\ buffer \in [Workers -> SUBSET Tracks]
  BY <1>0 DEF TypeInv
<1>b. /\ fNprimaries \in [Events -> Nat] /\ fNtracks \in [Events -> Nat] /\ fNdone \in [Events -> Nat]
      /\ fNmax \in [Events -> Nat] /\ fNdispatched \in [Events -> Nat]
  BY <1>0 DEF TypeInv, Counts
<1>c. NoLocals \in Locals
  BY EventFacts DEF Locals, NoLocals, EventOrNull
<1>1. CASE CheckServed(t)
  <2>1. pc' \in [Workers -> Labels]
    BY <1>a, <1>1 DEF CheckServed, Goto, Labels
  <2> QED
    BY <1>0, <1>1, <2>1
    DEF CheckServed, TypeInv, queues, flags, server, phase, event, manager, idle
<1>2. CASE NoPending(t)
  <2>1. pc' \in [Workers -> Labels]
    BY <1>a, <1>2 DEF NoPending, Goto, Labels
  <2> QED
    BY <1>0, <1>2, <2>1
    DEF NoPending, TypeInv, queues, flags, server, phase, event, manager, idle
<1>3. CASE FlagHasTracks(t)
  <2>1. pc' \in [Workers -> Labels]
    BY <1>a, <1>3 DEF FlagHasTracks, Goto, Labels
  <2> QED
    BY <1>0, <1>3, <2>1
    DEF FlagHasTracks, TypeInv, queues, flags, server, phase, event, manager, idle
<1>4. CASE NoMoreTracks(t)
  <2>1. pc' \in [Workers -> Labels] /\ loc' \in [Workers -> Locals] /\ flushed' \in [Workers -> BOOLEAN]
    BY <1>a, <1>c, <1>4 DEF NoMoreTracks, Return, Goto, Labels, idle
  <2> QED
    BY <1>0, <1>4, <2>1
    DEF NoMoreTracks, TypeInv, queues, flags, server, phase, event, manager, idle
<1>5. CASE NoSlot(t)
  <2>1. pc' \in [Workers -> Labels] /\ loc' \in [Workers -> Locals] /\ flushed' \in [Workers -> BOOLEAN]
    BY <1>a, <1>c, <1>5 DEF NoSlot, Return, Goto, Labels, idle
  <2> QED
    BY <1>0, <1>5, <2>1
    DEF NoSlot, TypeInv, queues, flags, server, phase, event, manager, idle
<1>6. CASE TakeSlot(t)
  <2>1. Head(fFreeSlots) \in Slots /\ Tail(fFreeSlots) \in Seq(Slots)
    BY <1>0, <1>6 DEF TakeSlot, TypeInv
  <2>2. pc' \in [Workers -> Labels]
    BY <1>a, <1>6 DEF TakeSlot, Goto, Labels
  <2>3. loc' \in [Workers -> Locals]
    BY <1>a, <1>6, <2>1 DEF TakeSlot, Keep, Locals, EventOrNull
  <2> QED
    BY <1>0, <1>6, <2>1, <2>2, <2>3
    DEF TakeSlot, TypeInv, queues, flags, server, phase, event, manager, idle
<1>7. CASE ClearOld(t)
  <2>1. pc' \in [Workers -> Labels]
    BY <1>a, <1>7 DEF ClearOld, Goto, Labels
  <2>2. fEvents[loc[t].slot] \in EventOrNull
    BY <1>0, LocalTypes DEF TypeInv
  <2>3. loc' \in [Workers -> Locals]
    BY <1>a, <1>7, <2>2 DEF ClearOld, Keep, Locals
  <2>4. fEvents' \in [Slots -> EventOrNull] /\ fSlot' \in [Events -> Slots] /\ fPrioritize' \in [Events -> BOOLEAN]
    <3>1. fEvents' \in [Slots -> EventOrNull]
      BY <1>0, <1>7 DEF ClearOld, TypeInv, EventOrNull
    <3>2. fSlot' \in [Events -> Slots]
      BY <1>0, <1>7, EventFacts DEF ClearOld, TypeInv
    <3>3. fPrioritize' \in [Events -> BOOLEAN]
      BY <1>0, <1>7 DEF ClearOld, TypeInv
    <3> QED
      BY <3>1, <3>2, <3>3
  <2>5. fNprimaries' \in Counts /\ fNtracks' \in Counts /\ fNdone' \in Counts /\ fNmax' \in Counts
    BY <1>b, <1>7 DEF ClearOld, Counts
  <2> QED
    BY <1>0, <1>7, <2>1, <2>3, <2>4, <2>5
    DEF ClearOld, TypeInv, queues, flags, server, phase, event, manager, idle
<1>8. CASE ClearDispatched(t)
  <2>1. fNdispatched' \in Counts
    BY <1>b, <1>8 DEF ClearDispatched, Counts
  <2>2. pc' \in [Workers -> Labels]
    BY <1>a, <1>8 DEF ClearDispatched, Goto, Labels
  <2>3. loc' \in [Workers -> Locals]
    BY <1>a, <1>8 DEF ClearDispatched, Keep, Locals, EventOrNull
  <2> QED
    BY <1>0, <1>8, <2>1, <2>2, <2>3
    DEF ClearDispatched, TypeInv, queues, flags, server, phase, event, manager, idle
<1>9. CASE TakePending(t)
  <2>1. Head(fPendingEvents) \in Events /\ Tail(fPendingEvents) \in Seq(Events)
    BY <1>0, <1>9 DEF TakePending, TypeInv
  <2>2. loc[t].slot \in Slots
    BY <1>0, LocalTypes
  <2>3. fEvents' \in [Slots -> EventOrNull] /\ fSlot' \in [Events -> Slots]
    BY <1>0, <1>9, <2>1, <2>2 DEF TakePending, TypeInv, EventOrNull
  <2>4. pc' \in [Workers -> Labels]
    BY <1>a, <1>9 DEF TakePending, Goto, Labels
  <2> QED
    BY <1>0, <1>9, <2>1, <2>2, <2>3, <2>4
    DEF TakePending, TypeInv, queues, flags, server, phase, event, manager, idle
<1>10. CASE ReturnSlot(t)
  <2>1. Append(fFreeSlots, loc[t].slot) \in Seq(Slots)
    BY <1>0, LocalTypes DEF TypeInv
  <2>2. pc' \in [Workers -> Labels] /\ loc' \in [Workers -> Locals] /\ flushed' \in [Workers -> BOOLEAN]
    BY <1>a, <1>c, <1>10 DEF ReturnSlot, Return, Goto, Labels, idle
  <2> QED
    BY <1>0, <1>10, <2>1, <2>2
    DEF ReturnSlot, TypeInv, queues, flags, server, phase, event, manager, idle
<1>11. CASE Replace(t)
  <2>1. fEvents[loc[t].slot] \in Events
    BY <1>11 DEF Replace, ServerInv, Places, HolderInv
  <2>2. fEvent \in EventOrNull /\ fEvents[loc[t].slot] \in EventOrNull
    BY <1>0, <2>1 DEF TypeInv, EventOrNull
  <2>3. pc' \in [Workers -> Labels]
    BY <1>a, <1>11 DEF Replace, Goto, Labels
  <2>4. loc' \in [Workers -> Locals]
    BY <1>a, <1>11, <2>1, <2>2 DEF Replace, Keep, Locals, EventOrNull
  <2> QED
    BY <1>0, <1>11, <2>1, <2>2, <2>3, <2>4
    DEF Replace, TypeInv, queues, flags, server, phase, event, manager, idle
<1>12. CASE Overtaken(t)
  <2>1. fEvents[loc[t].slot] \in Events
    BY <1>12 DEF Overtaken, ServerInv, Places, HolderInv
  <2>2. fEvent \in EventOrNull /\ fEvents[loc[t].slot] \in EventOrNull
    BY <1>0, <2>1 DEF TypeInv, EventOrNull
  <2>3. pc' \in [Workers -> Labels]
    BY <1>a, <1>12 DEF Overtaken, Goto, Labels
  <2>4. loc' \in [Workers -> Locals]
    BY <1>a, <1>12, <2>1, <2>2 DEF Overtaken, Keep, Locals, EventOrNull
  <2> QED
    BY <1>0, <1>12, <2>1, <2>2, <2>3, <2>4
    DEF Overtaken, TypeInv, queues, flags, server, phase, event, manager, idle
<1>13. CASE UndoPending(t)
  <2>1. fEvents[loc[t].slot] \in Events
    BY <1>13 DEF UndoPending, ServerInv, Places, HolderInv
  <2>2. Append(fPendingEvents, fEvents[loc[t].slot]) \in Seq(Events)
    BY <1>0, <2>1 DEF TypeInv
  <2>3. pc' \in [Workers -> Labels]
    BY <1>a, <1>13 DEF UndoPending, Goto, Labels
  <2> QED
    BY <1>0, <1>13, <2>1, <2>2, <2>3
    DEF UndoPending, TypeInv, queues, flags, server, phase, event, manager, idle
<1>14. CASE UndoSlot(t)
  <2>1. Append(fFreeSlots, loc[t].slot) \in Seq(Slots)
    BY <1>0, LocalTypes DEF TypeInv
  <2>2. fEvents' \in [Slots -> EventOrNull]
    BY <1>0, <1>14 DEF UndoSlot, TypeInv, EventOrNull
  <2>3. pc' \in [Workers -> Labels]
    BY <1>a, <1>14 DEF UndoSlot, Goto, Labels
  <2>4. loc' \in [Workers -> Locals]
    BY <1>a, <1>14, EventFacts DEF UndoSlot, Keep, Locals, EventOrNull
  <2> QED
    BY <1>0, <1>14, <2>1, <2>2, <2>3, <2>4
    DEF UndoSlot, TypeInv, queues, flags, server, phase, event, manager, idle
<1>15. CASE CountActive(t)
  <2>1. pc' \in [Workers -> Labels]
    BY <1>a, <1>15 DEF CountActive, Goto, Labels
  <2>2. fNactive + 1 \in Nat
    BY <1>0 DEF TypeInv
  <2>3. loc' \in [Workers -> Locals]
    BY <1>a, <1>15, <2>2, EventFacts DEF CountActive, Locals
  <2> QED
    BY <1>0, <1>15, <2>1, <2>2, <2>3
    DEF CountActive, TypeInv, queues, flags, server, phase, event, manager, idle
<1>16. CASE FlagServed(t)
  <2>1. fEventsServed' \in BOOLEAN
    BY <1>0, <1>16, Zenon DEF FlagServed
  <2>2. pc' \in [Workers -> Labels]
    BY <1>a, <1>16 DEF FlagServed, Goto, Labels
  <2>3. loc' \in [Workers -> Locals]
    BY <1>a, <1>16 DEF FlagServed, Keep, Locals, EventOrNull
  <2> QED
    BY <1>0, <1>16, <2>1, <2>2, <2>3
    DEF FlagServed, TypeInv, queues, flags, server, phase, event, manager, idle
<1> QED
  BY <1>1, <1>2, <1>3, <1>4, <1>5, <1>6, <1>7, <1>8, <1>9, <1>10, <1>11, <1>12, <1>13, <1>14, <1>15, <1>16
  DEF ActivateEvent

\* Types are kept by the transport of tracks and by the generator.
LEMMA TypeTransport ==
  ASSUME ServerInv, NEW t \in Workers, Transport(t)
  PROVE  TypeInv'
<1>0. TypeInv
  BY DEF ServerInv
<1>a. pc \in [Workers -> Labels] /\ loc \in [Workers -> Locals] /\ flushed \in [Workers -> BOOLEAN]
      /\ buffer \in [Workers -> SUBSET Tracks]
  BY <1>0 DEF TypeInv
<1>b. /\ fNprimaries \in [Events -> Nat] /\ fNtracks \in [Events -> Nat] /\ fNdone \in [Events -> Nat]
      /\ fNmax \in [Events -> Nat] /\ fNdispatched \in [Events -> Nat]
  BY <1>0 DEF TypeInv, Counts
<1>c. NoLocals \in Locals
  BY EventFacts DEF Locals, NoLocals, EventOrNull
<1>1. ASSUME NEW k \in buffer[t], AddTrack(t, k) PROVE TypeInv'
  <2>1. /\ k.ev \in Events /\ fEvents[k.slot] = k.ev /\ k \in Tracks
    BY TrackFound
  <2>2. fNtracks[k.ev] \in Nat /\ fNmax[k.ev] \in Nat /\ fNdone[k.ev] \in Nat
    BY <1>b, <2>1
  <2>3. [k EXCEPT !.id = fNtracks[k.ev]] \in Tracks
    BY <2>1, <2>2 DEF Tracks
  <2>4. buffer' \in [Workers -> SUBSET Tracks]
    BY <1>a, <1>1, <2>1, <2>3 DEF AddTrack
  <2>5. fNtracks' \in Counts /\ fNmax' \in Counts
    BY <1>b, <1>1, <2>1, <2>2 DEF AddTrack, Counts, Max2
  <2> QED
    BY <1>0, <1>1, <2>4, <2>5
    DEF AddTrack, TypeInv, queues, flags, server, phase, event, manager, idle
<1>2. ASSUME NEW k \in buffer[t], StopTrack(t, k) PROVE TypeInv'
  <2>1. /\ k.ev \in Events /\ fEvents[k.slot] = k.ev
    BY TrackFound
  <2>2. buffer' \in [Workers -> SUBSET Tracks]
    BY <1>a, <1>2, <2>1 DEF StopTrack
  <2>3. fNdone[k.ev] \in Nat /\ fNdone' \in Counts
    BY <1>b, <1>2, <2>1 DEF StopTrack, Counts
  <2> DEFINE r == [loc[t] EXCEPT !.ev = k.ev, !.n = fNdone[k.ev] + 1]
  <2>4. loc' \in [Workers -> Locals]
    <3>1. r \in Locals
      <4>1. loc[t] \in Locals /\ k.ev \in EventOrNull /\ fNdone[k.ev] + 1 \in Nat
        BY <1>a, <2>1, <2>3 DEF EventOrNull
      <4> QED
        BY <4>1 DEF Locals
    <3>2. loc' = [loc EXCEPT ![t] = r]
      BY <1>2, <2>1 DEF StopTrack
    <3> HIDE DEF r
    <3> QED
      BY <1>a, <3>1, <3>2
  <2>5. pc' \in [Workers -> Labels]
    BY <1>a, <1>2 DEF StopTrack, Goto, Labels
  <2> QED
    BY <1>0, <1>2, <2>2, <2>3, <2>4, <2>5
    DEF StopTrack, TypeInv, queues, flags, server, phase, event, manager, idle
<1>3. CASE CheckLeft(t)
  <2>1. CASE Resume(t)
    <3>1. pc' \in [Workers -> Labels] /\ loc' \in [Workers -> Locals]
      BY <1>a, <1>c, <2>1 DEF Resume, Goto, Labels
    <3> QED
      BY <1>0, <1>3, <3>1
      DEF CheckLeft, TypeInv, queues, flags, server, phase, event, manager, idle
  <2>2. CASE (Goto(t, "t_done") \/ Goto(t, "s_urge")) /\ UNCHANGED loc
    <3>1. pc' \in [Workers -> Labels]
      BY <1>a, <2>2 DEF Goto, Labels
    <3> QED
      BY <1>0, <1>3, <2>2, <3>1
      DEF CheckLeft, TypeInv, queues, flags, server, phase, event, manager, idle
  <2> QED
    BY <1>3, <2>1, <2>2 DEF CheckLeft
<1>4. CASE LockGenerator(t)
  <2>1. pc' \in [Workers -> Labels]
    BY <1>a, <1>4 DEF LockGenerator, Goto, Labels
  <2> QED
    BY <1>0, <1>4, <2>1
    DEF LockGenerator, TypeInv, queues, flags, server, phase, event, manager, idle
<1>5. CASE CountStored(t)
  <2>1. pc' \in [Workers -> Labels]
    BY <1>a, <1>5 DEF CountStored, Goto, Labels
  <2> QED
    BY <1>0, <1>5, <2>1
    DEF CountStored, TypeInv, queues, flags, server, phase, event, manager, idle
<1>6. CASE ResetServed(t)
  <2>1. pc' \in [Workers -> Labels]
    BY <1>a, <1>6 DEF ResetServed, Goto, Labels
  <2> QED
    BY <1>0, <1>6, <2>1
    DEF ResetServed, TypeInv, queues, flags, server, phase, event, manager, idle
<1>7. CASE Prioritize(t)
  <2>1. fPrioritize' \in [Events -> BOOLEAN]
    BY <1>0, <1>7 DEF Prioritize, TypeInv
  <2>2. pc' \in [Workers -> Labels]
    BY <1>a, <1>7 DEF Prioritize, Goto, Labels
  <2> QED
    BY <1>0, <1>7, <2>1, <2>2
    DEF Prioritize, TypeInv, queues, flags, server, phase, event, manager, idle
<1>8. CASE CountPriority(t)
  <2>1. pc' \in [Workers -> Labels] /\ loc' \in [Workers -> Locals] /\ flushed' \in [Workers -> BOOLEAN]
    BY <1>a, <1>c, <1>8 DEF CountPriority, Resume, Goto, Labels, idle
  <2> QED
    BY <1>0, <1>8, <2>1
    DEF CountPriority, TypeInv, queues, flags, server, phase, event, manager, idle
<1>9. CASE ResetHasTracks(t)
  <2>1. pc' \in [Workers -> Labels] /\ loc' \in [Workers -> Locals] /\ flushed' \in [Workers -> BOOLEAN]
    BY <1>a, <1>c, <1>9 DEF ResetHasTracks, Resume, Goto, Labels, idle
  <2> QED
    BY <1>0, <1>9, <2>1
    DEF ResetHasTracks, TypeInv, queues, flags, server, phase, event, manager, idle
<1>10. CASE EventTransported(t)
  <2>1. loc[t].ev \in Events
    BY <1>10 DEF EventTransported, ServerInv, Places, WorkInv, AtEvent
  <2>2. pc' \in [Workers -> Labels]
    BY <1>a, <1>10 DEF EventTransported, Goto, Labels
  <2> QED
    BY <1>0, <1>10, <2>1, <2>2
    DEF EventTransported, TypeInv, queues, flags, server, phase, event, manager, idle
<1>11. CASE CompletedEvent(t)
  <2>1. loc[t].ev \in Events
    BY <1>11 DEF CompletedEvent, ServerInv, Places, WorkInv, AtEvent
  <2>2. Append(fFreeSlots, fSlot[loc[t].ev]) \in Seq(Slots)
    BY <1>0, <2>1 DEF TypeInv
  <2>3. pc' \in [Workers -> Labels]
    BY <1>a, <1>11 DEF CompletedEvent, Goto, Labels
  <2>4. loc' \in [Workers -> Locals]
    BY <1>a, <1>11 DEF CompletedEvent, Keep, Locals, EventOrNull
  <2> QED
    BY <1>0, <1>11, <2>1, <2>2, <2>3, <2>4
    DEF CompletedEvent, TypeInv, queues, flags, server, phase, event, manager, idle
<1>12. CASE GenerateNewEvent(t)
  <2>1. CASE fNload >= NEvents
    <3>1. pc' \in [Workers -> Labels] /\ loc' \in [Workers -> Locals]
      BY <1>a, <1>c, <1>12, <2>1 DEF GenerateNewEvent, Resume, Goto, Labels
    <3> QED
      BY <1>0, <1>12, <2>1, <3>1
      DEF GenerateNewEvent, TypeInv, queues, flags, server, phase, event, manager, idle
  <2>2. CASE ~ (fNload >= NEvents)
    <3>1. fNload \in Events /\ fNload \in EventOrNull /\ fNload + 1 \in 0 .. NEvents
      BY <1>0, <2>2, SizesAssumption DEF TypeInv, Events, EventOrNull
    <3>2. pc' \in [Workers -> Labels]
      BY <1>a, <1>12, <2>2 DEF GenerateNewEvent, Goto, Labels
    <3>3. loc' \in [Workers -> Locals]
      BY <1>a, <1>12, <2>2, <3>1 DEF GenerateNewEvent, Keep, Locals
    <3>4. fNprimaries' \in Counts /\ fNtracks' \in Counts /\ fNmax' \in Counts
      BY <1>b, <1>12, <2>2, <3>1, EventFacts DEF GenerateNewEvent, Counts
    <3> QED
      BY <1>0, <1>12, <2>2, <3>1, <3>2, <3>3, <3>4
      DEF GenerateNewEvent, TypeInv, queues, flags, server, phase, event, manager, idle
  <2> QED
    BY <2>1, <2>2
<1>13. CASE AddEvent(t)
  <2>1. loc[t].ev \in Events
    BY <1>13 DEF AddEvent, ServerInv, Places, WorkInv
  <2>2. Append(fPendingEvents, loc[t].ev) \in Seq(Events)
    BY <1>0, <2>1 DEF TypeInv
  <2>3. pc' \in [Workers -> Labels]
    BY <1>a, <1>13 DEF AddEvent, Goto, Labels
  <2>4. loc' \in [Workers -> Locals]
    BY <1>a, <1>13 DEF AddEvent, Keep, Locals, EventOrNull
  <2> QED
    BY <1>0, <1>13, <2>1, <2>2, <2>3, <2>4
    DEF AddEvent, TypeInv, queues, flags, server, phase, event, manager, idle
<1> QED
  BY <1>1, <1>2, <1>3, <1>4, <1>5, <1>6, <1>7, <1>8, <1>9, <1>10, <1>11, <1>12, <1>13
  DEF Transport

\* Types are kept by every step.
LEMMA TypeStep == ASSUME ServerInv, [Next]_vars PROVE TypeInv'
<1>1. ASSUME NEW t \in Workers, Step(t) PROVE TypeInv'
  BY <1>1, TypeGetTracks, TypeActivate, TypeTransport DEF Step, Work
<1>2. CASE UNCHANGED vars
  BY <1>2 DEF ServerInv, TypeInv, vars, queues, flags, server, phase, event, manager, idle
<1> QED
  BY <1>1, <1>2 DEF Next, Finished
------------------------------------------------------------------------------
(* Slots and events keep their places                                      *)

\* A step that moves no slot and no event.
LEMMA PlacesKept ==
  ASSUME ServerInv, NEW t \in Workers,
         UNCHANGED <<fPendingEvents, fFreeSlots, fEvents, fEvent, fSlot, fNload, fDoneEvents>>,
         \A u \in Workers : u # t => pc'[u] = pc[u] /\ loc'[u] = loc[u],
         pc[t] \notin HoldLabels \union {"n_add", "t_slot"},
         pc'[t] \notin HoldLabels \union {"n_add", "t_slot"},
         pc'[t] \in AtEvent => loc'[t].ev \in Events /\ Activated(loc'[t].ev)
  PROVE  /\ Places'
         /\ \A e \in Events : /\ Needed(e)' <=> Needed(e)
                              /\ Waiting(e)' <=> Waiting(e)
<1>0. /\ SlotInv /\ HolderInv /\ WorkInv /\ OnePlace /\ NotYet /\ Generated /\ HasSlot
      /\ fEvents \in [Slots -> EventOrNull] /\ fSlot \in [Events -> Slots] /\ fEvent \in Events
      /\ \A u \in Workers : loc[u].slot \in Slots
  BY LocalTypes DEF ServerInv, Places, PlaceInv, TypeInv
<1>1. /\ \A u \in Workers, s \in Slots : Holds(u, s)' <=> Holds(u, s)
      /\ \A u \in Workers, e \in Events : /\ Adding(u, e)' <=> Adding(u, e)
                                          /\ Activating(u, e)' <=> Activating(u, e)
  BY DEF Holds, Adding, Activating, HoldLabels
<1>2. \A e \in EventOrNull : Needed(e)' <=> Needed(e)
  BY DEF Needed
<1>3. /\ \A e \in Events : Waiting(e)' <=> Waiting(e)
      /\ \A e \in Events : Activated(e)' <=> Activated(e)
      /\ \A e \in Events : Pending(e)' <=> Pending(e)
  BY <1>1 DEF Waiting, Activated, Pending
<1>4. \A s \in Slots : /\ Vacant(s)' <=> Vacant(s)
                       /\ Occupied(s)' <=> Occupied(s)
                       /\ Free(s)' <=> Free(s)
  BY <1>0, <1>1, <1>2 DEF Vacant, Occupied, Free
<1>5. SlotInv'
  BY <1>0, <1>1, <1>4 DEF SlotInv
<1>6. HolderInv'
  BY <1>0, <1>4 DEF HolderInv, HoldLabels
<1>7. PlaceInv'
  BY <1>0, <1>1, <1>2, <1>3, <1>4 DEF PlaceInv, OnePlace, NotYet, Generated, HasSlot, EventOrNull
<1>8. WorkInv'
  BY <1>0, <1>3 DEF WorkInv
<1> QED
  BY <1>2, <1>3, <1>5, <1>6, <1>7, <1>8 DEF Places, EventOrNull

\* A worker that holds a slot goes on with it: ClearOld of an empty slot,
\* ClearDispatched, NoPending, Overtaken.
LEMMA PlacesHolder ==
  ASSUME ServerInv, NEW t \in Workers,
         UNCHANGED <<fPendingEvents, fFreeSlots, fEvents, fEvent, fSlot, fNload, fDoneEvents>>,
         \A u \in Workers : u # t => pc'[u] = pc[u] /\ loc'[u] = loc[u],
         loc'[t].slot = loc[t].slot,
         \/ /\ pc[t] \in {"a_clear", "a_clear2", "a_pending"} /\ pc'[t] \in {"a_pending", "a_giveup"}
            /\ fEvents[loc[t].slot] = Null
         \/ pc[t] = "a_cas" /\ pc'[t] = "a_undo",
         loc'[t].ev \in Events /\ Activated(loc'[t].ev)
  PROVE  /\ Places'
         /\ \A e \in Events : /\ Needed(e)' <=> Needed(e)
                              /\ Waiting(e)' <=> Waiting(e)
<1>0. /\ SlotInv /\ HolderInv /\ WorkInv /\ OnePlace /\ NotYet /\ Generated /\ HasSlot
      /\ fEvents \in [Slots -> EventOrNull] /\ fSlot \in [Events -> Slots] /\ fEvent \in Events
      /\ \A u \in Workers : loc[u].slot \in Slots
  BY LocalTypes DEF ServerInv, Places, PlaceInv, TypeInv
<1>1. /\ \A u \in Workers, s \in Slots : Holds(u, s)' <=> Holds(u, s)
      /\ \A u \in Workers, e \in Events : /\ Adding(u, e)' <=> Adding(u, e)
                                          /\ Activating(u, e)' <=> Activating(u, e)
  BY DEF Holds, Adding, Activating
<1>2. \A e \in EventOrNull : Needed(e)' <=> Needed(e)
  BY DEF Needed
<1>3. /\ \A e \in Events : Waiting(e)' <=> Waiting(e)
      /\ \A e \in Events : Activated(e)' <=> Activated(e)
      /\ \A e \in Events : Pending(e)' <=> Pending(e)
  BY <1>1 DEF Waiting, Activated, Pending
<1>4. \A s \in Slots : /\ Vacant(s)' <=> Vacant(s)
                       /\ Occupied(s)' <=> Occupied(s)
                       /\ Free(s)' <=> Free(s)
  BY <1>0, <1>1, <1>2 DEF Vacant, Occupied, Free
<1>5. SlotInv'
  BY <1>0, <1>1, <1>4 DEF SlotInv
<1>6. HolderInv'
  BY <1>0, <1>4 DEF HolderInv
<1>7. PlaceInv'
  BY <1>0, <1>1, <1>2, <1>3, <1>4 DEF PlaceInv, OnePlace, NotYet, Generated, HasSlot, EventOrNull
<1>8. WorkInv'
  BY <1>0, <1>3 DEF WorkInv
<1> QED
  BY <1>2, <1>3, <1>5, <1>6, <1>7, <1>8 DEF Places, EventOrNull

\* A slot is taken out of fFreeSlots.
LEMMA PlacesTakeSlot ==
  ASSUME ServerInv, NEW t \in Workers, TakeSlot(t)
  PROVE  /\ Places'
         /\ \A e \in Events : /\ Needed(e)' <=> Needed(e)
                              /\ Waiting(e)' <=> Waiting(e)
<1> DEFINE s0 == Head(fFreeSlots)
<1>0. /\ SlotInv /\ HolderInv /\ WorkInv /\ OnePlace /\ NotYet /\ Generated /\ HasSlot
      /\ fFreeSlots \in Seq(Slots) /\ fFreeSlots # <<>> /\ fFreeSlots' = Tail(fFreeSlots)
      /\ pc' = [pc EXCEPT ![t] = "a_clear"] /\ pc[t] = "a_slot" /\ pc \in [Workers -> Labels]
      /\ loc' = [loc EXCEPT ![t].slot = s0] /\ loc \in [Workers -> Locals]
      /\ UNCHANGED <<fPendingEvents, fEvents, fEvent, fSlot, fNload, fDoneEvents>>
      /\ fEvents \in [Slots -> EventOrNull] /\ fSlot \in [Events -> Slots] /\ fEvent \in Events
  BY DEF ServerInv, Places, PlaceInv, TypeInv, TakeSlot, Goto, Keep, server, event, manager
<1>1. /\ s0 \in Slots /\ Free(s0) /\ IsInjective(fFreeSlots')
      /\ \A s \in Slots : Free(s)' <=> Free(s) /\ s # s0
  BY <1>0, TailOnce DEF SlotInv, Free
<1>2. /\ \A u \in Workers : u # t => pc'[u] = pc[u] /\ loc'[u] = loc[u]
      /\ pc'[t] = "a_clear" /\ loc'[t].slot = s0 /\ loc'[t].ev = loc[t].ev
  BY <1>0 DEF Locals
<1> HIDE DEF s0
<1>3. /\ \A u \in Workers, s \in Slots : Holds(u, s)' <=> Holds(u, s) \/ (u = t /\ s = s0)
      /\ \A u \in Workers, e \in Events : /\ Adding(u, e)' <=> Adding(u, e)
                                          /\ Activating(u, e)' <=> Activating(u, e)
  BY <1>0, <1>2 DEF Holds, Adding, Activating
<1>4. \A e \in EventOrNull : Needed(e)' <=> Needed(e)
  BY <1>0, <1>2 DEF Needed
<1>5. /\ \A e \in Events : Waiting(e)' <=> Waiting(e)
      /\ \A e \in Events : Activated(e)' <=> Activated(e)
      /\ \A e \in Events : Pending(e)' <=> Pending(e)
  BY <1>0, <1>3 DEF Waiting, Activated, Pending
<1>6. \A s \in Slots : /\ Vacant(s)' <=> Vacant(s)
                       /\ Occupied(s)' => Occupied(s)
  BY <1>0, <1>3, <1>4 DEF Vacant, Occupied
<1>7. SlotInv'
  BY <1>0, <1>1, <1>3, <1>6 DEF SlotInv
<1>8. HolderInv'
  BY <1>0, <1>1, <1>2, <1>6 DEF HolderInv, SlotInv, Locals
<1>9. PlaceInv'
  <2>1. \A e \in Events : Activated(e) /\ Needed(e) => fSlot[e] # s0
    BY <1>0, <1>1, EventFacts DEF HasSlot, SlotInv, Vacant
  <2> QED
    BY <1>0, <1>3, <1>4, <1>5, <1>6, <2>1 DEF PlaceInv, OnePlace, NotYet, Generated, HasSlot, EventOrNull
<1>10. WorkInv'
  BY <1>0, <1>2, <1>5 DEF WorkInv, AtEvent
<1> QED
  BY <1>4, <1>5, <1>7, <1>8, <1>9, <1>10 DEF Places, EventOrNull

\* The event that had the slot is cleared: it is done, and nobody needs it.
LEMMA PlacesClearOld ==
  ASSUME ServerInv, NEW t \in Workers, ClearOld(t), fEvents[loc[t].slot] # Null
  PROVE  /\ Places'
         /\ \A e \in Events : /\ Needed(e)' <=> Needed(e)
                              /\ Waiting(e)' <=> Waiting(e)
<1>a. loc[t].slot \in Slots /\ fEvents[loc[t].slot] \in Events
  BY LocalTypes DEF ServerInv, TypeInv, EventOrNull
<1>b. PICK s0 \in Slots, e0 \in Events : s0 = loc[t].slot /\ e0 = fEvents[s0]
  BY <1>a
<1>0. /\ SlotInv /\ HolderInv /\ WorkInv /\ OnePlace /\ NotYet /\ Generated /\ HasSlot
      /\ pc' = [pc EXCEPT ![t] = "a_clear2"] /\ pc[t] = "a_clear" /\ pc \in [Workers -> Labels]
      /\ loc' = [loc EXCEPT ![t].old = e0] /\ loc \in [Workers -> Locals]
      /\ fEvents' = [fEvents EXCEPT ![s0] = Null] /\ fSlot' = [fSlot EXCEPT ![e0] = 0]
      /\ UNCHANGED <<fPendingEvents, fFreeSlots, fEvent, fNload, fDoneEvents>>
      /\ fEvents \in [Slots -> EventOrNull] /\ fSlot \in [Events -> Slots] /\ fEvent \in Events
  BY <1>b DEF ServerInv, Places, PlaceInv, TypeInv, ClearOld, Goto, Keep, queues, manager
<1>1. /\ Holds(t, s0) /\ Vacant(s0)
      /\ ~ Needed(e0) /\ e0 \in fDoneEvents /\ ~ Waiting(e0)
  BY <1>b, <1>0, EventFacts DEF HolderInv, Vacant, Needed, NotYet, Holds, EventOrNull, Locals
<1>2. /\ \A u \in Workers : u # t => pc'[u] = pc[u] /\ loc'[u] = loc[u]
      /\ pc'[t] = "a_clear2" /\ loc'[t].slot = s0 /\ loc'[t].ev = loc[t].ev
  BY <1>b, <1>0 DEF Locals
<1>3. /\ fEvents'[s0] = Null /\ \A s \in Slots : s # s0 => fEvents'[s] = fEvents[s]
      /\ \A e \in Events : e # e0 => fSlot'[e] = fSlot[e]
  BY <1>0, <1>1
<1>4. \A u \in Workers : u # t /\ pc[u] \in HoldLabels => loc[u].slot \in Slots /\ loc[u].slot # s0
  BY <1>0, <1>1, <1>a DEF SlotInv, Holds, HoldLabels, Locals
<1>5. /\ \A u \in Workers, s \in Slots : Holds(u, s)' <=> Holds(u, s)
      /\ \A u \in Workers, e \in Events : /\ Adding(u, e)' <=> Adding(u, e)
                                          /\ Activating(u, e)' <=> Activating(u, e)
  <2>1. \A u \in Workers, s \in Slots : Holds(u, s)' <=> Holds(u, s)
    BY <1>0, <1>1, <1>2 DEF Holds
  <2>2. \A u \in Workers, e \in Events : Adding(u, e)' <=> Adding(u, e)
    BY <1>0, <1>2 DEF Adding
  <2>3. \A u \in Workers, e \in Events : Activating(u, e)' <=> Activating(u, e)
    BY <1>0, <1>2, <1>3, <1>4 DEF Activating, HoldLabels
  <2> QED
    BY <2>1, <2>2, <2>3
<1>6. \A e \in EventOrNull : Needed(e)' <=> Needed(e)
  BY <1>0, <1>2 DEF Needed
<1>7. /\ \A e \in Events : Waiting(e)' <=> Waiting(e)
      /\ \A e \in Events : Activated(e)' <=> Activated(e)
      /\ \A e \in Events : Pending(e)' <=> Pending(e)
  BY <1>0, <1>5 DEF Waiting, Activated, Pending
<1>8. \A s \in Slots : /\ Vacant(s)' <=> Vacant(s)
                       /\ Occupied(s)' => Occupied(s) /\ s # s0 /\ fEvents[s] # e0
                       /\ Free(s)' <=> Free(s)
  <2>1. \A s \in Slots : s # s0 => (Vacant(s)' <=> Vacant(s))
    BY <1>0, <1>3, <1>6 DEF Vacant
  <2>2. Vacant(s0)' /\ Vacant(s0)
    BY <1>1, <1>3 DEF Vacant
  <2>3. \A s \in Slots : Occupied(s)' => Occupied(s) /\ s # s0 /\ fEvents[s] # e0
    BY <1>0, <1>1, <1>3, <1>5, <1>6 DEF Occupied
  <2> QED
    BY <1>0, <1>1, <2>1, <2>2, <2>3 DEF Free
<1>9. SlotInv'
  <2>1. ASSUME NEW s \in Slots, Occupied(s)' PROVE fSlot'[fEvents'[s]] = s
    <3>1. Occupied(s) /\ s # s0 /\ fEvents[s] # e0
      BY <1>8, <2>1
    <3>2. fEvents[s] \in Events
      BY <1>0, <3>1 DEF Occupied, EventOrNull
    <3> QED
      BY <1>0, <1>3, <3>1, <3>2 DEF SlotInv
  <2> QED
    BY <1>0, <1>5, <1>8, <2>1 DEF SlotInv
<1>10. HolderInv'
  <2>1. \A u \in Workers : pc[u] \in {"a_cas", "a_undo"} => fEvents[loc[u].slot] # e0
    BY <1>0, <1>1 DEF HolderInv, Waiting, Activating
  <2>2. \A u \in Workers : u # t /\ pc[u] \in HoldLabels => fEvents'[loc[u].slot] = fEvents[loc[u].slot]
    BY <1>3, <1>4
  <2> QED
    <3>1. ASSUME NEW u \in Workers, pc'[u] = "a_clear" PROVE Vacant(loc[u].slot)'
      BY <1>0, <1>2, <1>4, <1>8, <3>1 DEF HolderInv, HoldLabels
    <3>2. ASSUME NEW u \in Workers, pc'[u] \in {"a_clear2", "a_pending", "a_giveup"}
          PROVE  fEvents'[loc'[u].slot] = Null
      BY <1>0, <1>2, <1>3, <2>2, <3>2 DEF HolderInv, HoldLabels
    <3>3. ASSUME NEW u \in Workers, pc'[u] \in {"a_cas", "a_undo"}
          PROVE  /\ fEvents'[loc'[u].slot] \in Events
                 /\ fSlot'[fEvents'[loc'[u].slot]] = loc'[u].slot
      <4>1. u # t /\ pc[u] \in {"a_cas", "a_undo"} /\ loc'[u] = loc[u]
        BY <1>2, <3>3
      <4>2. fEvents[loc[u].slot] \in Events /\ fSlot[fEvents[loc[u].slot]] = loc[u].slot
        BY <1>0, <4>1 DEF HolderInv
      <4>3. fEvents'[loc[u].slot] = fEvents[loc[u].slot] /\ fEvents[loc[u].slot] # e0
        BY <2>1, <2>2, <4>1 DEF HoldLabels
      <4> QED
        BY <1>3, <4>1, <4>2, <4>3
    <3> QED
      BY <3>1, <3>2, <3>3 DEF HolderInv
<1>11. PlaceInv'
  <2>1. \A e \in Events : Activated(e) /\ Needed(e) => fSlot[e] # s0 /\ e # e0
    BY <1>0, <1>1 DEF HasSlot
  <2>2. \A e \in Events : Activated(e) /\ Needed(e) =>
          /\ fSlot'[e] \in Slots /\ fEvents'[fSlot'[e]] = e
          /\ \A u \in Workers : ~ Holds(u, fSlot'[e])
    BY <1>0, <1>3, <2>1 DEF HasSlot
  <2>3. \A s \in Slots : fEvents'[s] # Null => fEvents'[s] < fNload
    BY <1>0, <1>3 DEF Generated
  <2>4. \A s \in Slots : Occupied(s)' => Occupied(s) /\ fEvents'[s] = fEvents[s]
    BY <1>3, <1>8
  <2>5. OnePlace'
    BY <1>0, <1>5, <1>7 DEF OnePlace
  <2>6. NotYet'
    BY <1>0, <1>7, <2>4 DEF NotYet
  <2>7. HasSlot'
    BY <1>0, <1>5, <1>6, <1>7, <2>2 DEF HasSlot, EventOrNull
  <2> QED
    BY <1>0, <2>3, <2>5, <2>6, <2>7 DEF PlaceInv, Generated
<1>12. WorkInv'
  BY <1>0, <1>2, <1>7 DEF WorkInv, AtEvent
<1> QED
  BY <1>6, <1>7, <1>9, <1>10, <1>11, <1>12 DEF Places, EventOrNull

\* A pending event is put into the slot.
LEMMA PlacesTakePending ==
  ASSUME ServerInv, NEW t \in Workers, TakePending(t)
  PROVE  /\ Places'
         /\ \A e \in Events : /\ Needed(e)' <=> Needed(e)
                              /\ Waiting(e)' <=> Waiting(e)
<1>a. /\ loc[t].slot \in Slots
      /\ fPendingEvents \in Seq(Events) /\ fPendingEvents # <<>> /\ fPendingEvents' = Tail(fPendingEvents)
  BY LocalTypes DEF ServerInv, TypeInv, TakePending
<1>b. PICK s0 \in Slots, e0 \in Events : s0 = loc[t].slot /\ e0 = Head(fPendingEvents)
  BY <1>a
<1>0. /\ SlotInv /\ HolderInv /\ WorkInv /\ OnePlace /\ NotYet /\ Generated /\ HasSlot
      /\ pc' = [pc EXCEPT ![t] = "a_cas"] /\ pc[t] = "a_pending" /\ pc \in [Workers -> Labels]
      /\ loc' = loc
      /\ fEvents' = [fEvents EXCEPT ![s0] = e0] /\ fSlot' = [fSlot EXCEPT ![e0] = s0]
      /\ UNCHANGED <<fFreeSlots, fEvent, fNload, fDoneEvents>>
      /\ fEvents \in [Slots -> EventOrNull] /\ fSlot \in [Events -> Slots] /\ fEvent \in Events
      /\ \A u \in Workers : loc[u].slot \in Slots
  BY <1>b, LocalTypes DEF ServerInv, Places, PlaceInv, TypeInv, TakePending, Goto, Keep, manager
<1>1. /\ Holds(t, s0) /\ fEvents[s0] = Null /\ Pending(e0) /\ Waiting(e0)
      /\ IsInjective(fPendingEvents')
      /\ \A e \in Events : Pending(e)' <=> Pending(e) /\ e # e0
  BY <1>a, <1>b, <1>0, TailOnce DEF Holds, HolderInv, OnePlace, Pending, Waiting
<1>2. e0 < fNload /\ e0 \notin fDoneEvents /\ Needed(e0) /\ e0 # Null
  BY <1>0, <1>1, EventFacts DEF NotYet, Needed
<1>3. /\ \A u \in Workers : u # t => pc'[u] = pc[u]
      /\ pc'[t] = "a_cas"
      /\ fEvents'[s0] = e0 /\ \A s \in Slots : s # s0 => fEvents'[s] = fEvents[s]
      /\ fSlot'[e0] = s0 /\ \A e \in Events : e # e0 => fSlot'[e] = fSlot[e]
  BY <1>0
<1>4. \A u \in Workers : u # t /\ pc[u] \in HoldLabels => loc[u].slot # s0
  BY <1>0, <1>1 DEF SlotInv, Holds, HoldLabels
<1>5. /\ \A u \in Workers, s \in Slots : Holds(u, s)' <=> Holds(u, s)
      /\ \A u \in Workers, e \in Events :
           /\ Adding(u, e)' <=> Adding(u, e)
           /\ Activating(u, e)' <=> Activating(u, e) \/ (u = t /\ e = e0)
  <2>1. \A u \in Workers, s \in Slots : Holds(u, s)' <=> Holds(u, s)
    BY <1>0, <1>3 DEF Holds
  <2>2. \A u \in Workers, e \in Events : Adding(u, e)' <=> Adding(u, e)
    BY <1>0, <1>3 DEF Adding
  <2>3. ASSUME NEW u \in Workers, NEW e \in Events, u # t PROVE Activating(u, e)' <=> Activating(u, e)
    BY <1>0, <1>3, <1>4, <2>3 DEF Activating, HoldLabels
  <2>4. ASSUME NEW e \in Events PROVE (Activating(t, e)' <=> e = e0) /\ ~ Activating(t, e)
    BY <1>0, <1>b, <1>3 DEF Activating
  <2> QED
    BY <2>1, <2>2, <2>3, <2>4
<1>6. \A e \in EventOrNull : Needed(e)' <=> Needed(e)
  BY <1>0, <1>3 DEF Needed
<1>7. /\ \A e \in Events : Waiting(e)' <=> Waiting(e)
      /\ \A e \in Events : Activated(e)' <=> Activated(e)
  <2>1. \A e \in Events : Waiting(e)' <=> Waiting(e)
    BY <1>1, <1>5 DEF Waiting
  <2> QED
    BY <1>0, <2>1 DEF Activated
<1>8. \A s \in Slots : /\ Vacant(s)' <=> Vacant(s) /\ s # s0
                       /\ Occupied(s)' => Occupied(s) /\ s # s0 /\ fEvents[s] # e0
                       /\ Free(s)' <=> Free(s)
  <2>1. \A s \in Slots : s # s0 => (Vacant(s)' <=> Vacant(s))
    BY <1>0, <1>3, <1>6 DEF Vacant
  <2>2. ~ Vacant(s0)'
    BY <1>2, <1>3, <1>6 DEF Vacant, EventOrNull
  <2>3. \A s \in Slots : Occupied(s)' => Occupied(s) /\ s # s0
    BY <1>0, <1>1, <1>3, <1>5, <1>6 DEF Occupied
  <2>4. \A s \in Slots : Occupied(s) => fEvents[s] # e0
    BY <1>0, <1>1 DEF NotYet
  <2> QED
    BY <1>0, <2>1, <2>2, <2>3, <2>4 DEF Free
<1>9. SlotInv'
  <2>1. ASSUME NEW s \in Slots, Occupied(s)' PROVE fSlot'[fEvents'[s]] = s
    <3>1. Occupied(s) /\ s # s0 /\ fEvents[s] # e0
      BY <1>8, <2>1
    <3>2. fEvents[s] \in Events
      BY <1>0, <3>1 DEF Occupied, EventOrNull
    <3> QED
      BY <1>0, <1>3, <3>1, <3>2 DEF SlotInv
  <2>2. \A s \in Slots : Free(s) => s # s0
    BY <1>0, <1>1 DEF SlotInv
  <2> QED
    BY <1>0, <1>1, <1>5, <1>8, <2>1, <2>2 DEF SlotInv
<1>10. HolderInv'
  <2>1. \A u \in Workers : pc[u] \in {"a_cas", "a_undo"} => fEvents[loc[u].slot] # e0
    BY <1>0, <1>1 DEF OnePlace, Activating
  <2>2. \A u \in Workers : u # t /\ pc[u] \in HoldLabels => fEvents'[loc[u].slot] = fEvents[loc[u].slot]
    BY <1>0, <1>3, <1>4
  <2>3. ASSUME NEW u \in Workers, pc'[u] = "a_clear" PROVE Vacant(loc[u].slot)'
    BY <1>0, <1>3, <1>4, <1>8, <2>3 DEF HolderInv, HoldLabels
  <2>4. ASSUME NEW u \in Workers, pc'[u] \in {"a_clear2", "a_pending", "a_giveup"}
        PROVE  fEvents'[loc[u].slot] = Null
    BY <1>0, <1>3, <2>2, <2>4 DEF HolderInv, HoldLabels
  <2>5. ASSUME NEW u \in Workers, pc'[u] \in {"a_cas", "a_undo"}
        PROVE  /\ fEvents'[loc[u].slot] \in Events
               /\ fSlot'[fEvents'[loc[u].slot]] = loc[u].slot
    <3>1. CASE u = t
      BY <1>b, <1>3, <3>1
    <3>2. CASE u # t
      <4>1. fEvents[loc[u].slot] \in Events /\ fSlot[fEvents[loc[u].slot]] = loc[u].slot
        BY <1>0, <1>3, <2>5, <3>2 DEF HolderInv
      <4>2. fEvents'[loc[u].slot] = fEvents[loc[u].slot] /\ fEvents[loc[u].slot] # e0
        BY <1>3, <2>1, <2>2, <2>5, <3>2 DEF HoldLabels
      <4> QED
        BY <1>3, <4>1, <4>2
    <3> QED
      BY <3>1, <3>2
  <2> QED
    BY <1>0, <2>3, <2>4, <2>5 DEF HolderInv
<1>11. PlaceInv'
  <2>1. \A e \in Events : Activated(e) /\ Needed(e) =>
          /\ fSlot'[e] \in Slots /\ fEvents'[fSlot'[e]] = e
          /\ \A u \in Workers : ~ Holds(u, fSlot'[e])
    <3>1. \A e \in Events : Activated(e) /\ Needed(e) => fSlot[e] # s0 /\ e # e0
      BY <1>0, <1>1 DEF HasSlot, Activated
    <3> QED
      BY <1>0, <1>3, <3>1 DEF HasSlot
  <2>2. Generated'
    BY <1>0, <1>2, <1>3 DEF Generated
  <2>3. OnePlace'
    BY <1>0, <1>1, <1>5 DEF OnePlace
  <2>4. NotYet'
    BY <1>0, <1>3, <1>7, <1>8 DEF NotYet
  <2>5. HasSlot'
    BY <1>0, <1>5, <1>6, <1>7, <2>1 DEF HasSlot, EventOrNull
  <2> QED
    BY <2>2, <2>3, <2>4, <2>5 DEF PlaceInv
<1>12. WorkInv'
  BY <1>0, <1>3, <1>7 DEF WorkInv, AtEvent
<1> QED
  BY <1>6, <1>7, <1>9, <1>10, <1>11, <1>12 DEF Places, EventOrNull

\* The slot goes back unused.
LEMMA PlacesReturnSlot ==
  ASSUME ServerInv, NEW t \in Workers, ReturnSlot(t)
  PROVE  /\ Places'
         /\ \A e \in Events : /\ Needed(e)' <=> Needed(e)
                              /\ Waiting(e)' <=> Waiting(e)
<1>a. loc[t].slot \in Slots /\ pc[t] = "a_giveup"
  BY LocalTypes DEF ServerInv, ReturnSlot
<1>b. PICK s0 \in Slots : s0 = loc[t].slot
  BY <1>a
<1>0. /\ SlotInv /\ HolderInv /\ WorkInv /\ OnePlace /\ NotYet /\ Generated /\ HasSlot
      /\ pc \in [Workers -> Labels] /\ loc \in [Workers -> Locals]
      /\ fFreeSlots \in Seq(Slots) /\ fFreeSlots' = Append(fFreeSlots, s0)
      /\ UNCHANGED <<fPendingEvents, fEvents, fEvent, fSlot, fNload, fDoneEvents>>
      /\ fEvents \in [Slots -> EventOrNull] /\ fSlot \in [Events -> Slots] /\ fEvent \in Events
      /\ \A u \in Workers : loc[u].slot \in Slots
  BY <1>b, LocalTypes DEF ServerInv, Places, PlaceInv, TypeInv, ReturnSlot, server, event, manager
<1>1. Holds(t, s0) /\ fEvents[s0] = Null /\ Vacant(s0) /\ ~ Free(s0)
  BY <1>a, <1>b, <1>0 DEF Holds, HolderInv, SlotInv, Vacant
<1>2. /\ IsInjective(fFreeSlots')
      /\ \A s \in Slots : Free(s)' <=> Free(s) \/ s = s0
  BY <1>0, <1>1, AppendOnce DEF SlotInv, Free
<1>3. /\ \A u \in Workers : u # t => pc'[u] = pc[u] /\ loc'[u] = loc[u]
      /\ pc'[t] \in {"step", "idle", "flush"}
  BY <1>0 DEF ReturnSlot, Return, Goto
<1>4. /\ \A u \in Workers, s \in Slots : Holds(u, s)' <=> Holds(u, s) /\ u # t
      /\ \A s \in Slots : Holds(t, s) <=> s = s0
      /\ \A u \in Workers, e \in Events : /\ Adding(u, e)' <=> Adding(u, e)
                                          /\ Activating(u, e)' <=> Activating(u, e)
  BY <1>0, <1>a, <1>b, <1>3 DEF Holds, Adding, Activating
<1>5. \A e \in EventOrNull : Needed(e)' <=> Needed(e)
  BY <1>0, <1>a, <1>3 DEF Needed
<1>6. /\ \A e \in Events : Waiting(e)' <=> Waiting(e)
      /\ \A e \in Events : Activated(e)' <=> Activated(e)
      /\ \A e \in Events : Pending(e)' <=> Pending(e)
  BY <1>0, <1>4 DEF Waiting, Activated, Pending
<1>7. \A s \in Slots : /\ Vacant(s)' <=> Vacant(s)
                       /\ Occupied(s)' => Occupied(s)
  <2>1. \A s \in Slots : Vacant(s)' <=> Vacant(s)
    BY <1>0, <1>5 DEF Vacant
  <2>2. \A s \in Slots : Occupied(s)' => Occupied(s)
    BY <1>0, <1>1, <1>4, <1>5 DEF Occupied
  <2> QED
    BY <2>1, <2>2
<1>8. SlotInv'
  BY <1>0, <1>1, <1>2, <1>4, <1>7 DEF SlotInv
<1>9. HolderInv'
  BY <1>0, <1>3, <1>7 DEF HolderInv
<1>10. PlaceInv'
  <2>1. OnePlace'
    BY <1>0, <1>4, <1>6 DEF OnePlace
  <2>2. NotYet' /\ Generated'
    BY <1>0, <1>6, <1>7 DEF NotYet, Generated
  <2>3. HasSlot'
    BY <1>0, <1>4, <1>5, <1>6 DEF HasSlot, EventOrNull
  <2> QED
    BY <2>1, <2>2, <2>3 DEF PlaceInv
<1>11. WorkInv'
  BY <1>0, <1>3, <1>6 DEF WorkInv, AtEvent
<1> QED
  BY <1>5, <1>6, <1>8, <1>9, <1>10, <1>11 DEF Places, EventOrNull

\* The exchange on fEvent succeeds: the event in the slot is activated.
LEMMA PlacesReplace ==
  ASSUME ServerInv, NEW t \in Workers, Replace(t)
  PROVE  /\ Places'
         /\ fEvent' \in Events
         /\ \A e \in Events : /\ Needed(e)' <=> Needed(e)
                              /\ Waiting(e)' <=> Waiting(e) /\ e # fEvent'
         /\ Waiting(fEvent')
<1>a. loc[t].slot \in Slots /\ fEvents[loc[t].slot] \in Events /\ pc[t] = "a_cas"
  BY LocalTypes DEF ServerInv, Replace, Places, HolderInv
<1>b. PICK s0 \in Slots, e0 \in Events : s0 = loc[t].slot /\ e0 = fEvents[s0]
  BY <1>a
<1>0. /\ SlotInv /\ HolderInv /\ WorkInv /\ OnePlace /\ NotYet /\ Generated /\ HasSlot
      /\ pc \in [Workers -> Labels] /\ pc' = [pc EXCEPT ![t] = "a_count"]
      /\ loc \in [Workers -> Locals] /\ loc' = [loc EXCEPT ![t].ev = e0]
      /\ fEvent' = e0
      /\ UNCHANGED <<fPendingEvents, fFreeSlots, fEvents, fSlot, fNload, fDoneEvents>>
      /\ fEvents \in [Slots -> EventOrNull] /\ fSlot \in [Events -> Slots]
      /\ \A u \in Workers : loc[u].slot \in Slots
  BY <1>b, LocalTypes DEF ServerInv, Places, PlaceInv, TypeInv, Replace, Goto, Keep, queues, event, manager
<1>1. /\ Holds(t, s0) /\ Activating(t, e0) /\ Waiting(e0) /\ fSlot[e0] = s0
  BY <1>a, <1>b, <1>0 DEF Holds, HolderInv, Waiting, Activating
<1>2. e0 < fNload /\ e0 \notin fDoneEvents /\ Needed(e0) /\ ~ Pending(e0) /\ ~ Vacant(s0)
  BY <1>b, <1>0, <1>1, EventFacts DEF NotYet, Needed, OnePlace, Vacant
<1>3. /\ \A u \in Workers : u # t => pc'[u] = pc[u] /\ loc'[u] = loc[u]
      /\ pc'[t] = "a_count" /\ loc'[t].ev = e0
  BY <1>0 DEF Locals
<1>4. /\ \A u \in Workers, s \in Slots : Holds(u, s)' <=> Holds(u, s) /\ u # t
      /\ \A s \in Slots : Holds(t, s) <=> s = s0
      /\ \A u \in Workers, e \in Events : /\ Adding(u, e)' <=> Adding(u, e)
                                          /\ Activating(u, e)' <=> Activating(u, e) /\ u # t
      /\ \A e \in Events : Activating(t, e) <=> e = e0
  BY <1>0, <1>a, <1>b, <1>3 DEF Holds, Adding, Activating
<1>5. \A e \in EventOrNull : Needed(e)' <=> Needed(e)
  BY <1>0, <1>a, <1>3 DEF Needed
<1>6. /\ \A e \in Events : Pending(e)' <=> Pending(e)
      /\ \A e \in Events : Waiting(e)' <=> Waiting(e) /\ e # e0
      /\ \A e \in Events : Activated(e)' <=> Activated(e) \/ e = e0
  <2>1. \A e \in Events : Pending(e)' <=> Pending(e)
    BY <1>0 DEF Pending
  <2>2. \A e \in Events : Waiting(e)' <=> Waiting(e) /\ e # e0
    BY <1>0, <1>1, <1>2, <1>4, <2>1 DEF Waiting, OnePlace
  <2> QED
    BY <1>0, <1>2, <2>1, <2>2 DEF Activated
<1>7. \A s \in Slots : /\ Vacant(s)' <=> Vacant(s)
                       /\ Free(s)' <=> Free(s)
                       /\ Occupied(s)' => Occupied(s) \/ s = s0
  <2>1. \A s \in Slots : Vacant(s)' <=> Vacant(s)
    BY <1>0, <1>5 DEF Vacant
  <2>2. \A s \in Slots : Occupied(s)' => Occupied(s) \/ s = s0
    BY <1>0, <1>4, <1>5 DEF Occupied
  <2> QED
    BY <1>0, <2>1, <2>2 DEF Free
<1>8. SlotInv'
  <2>1. ASSUME NEW s \in Slots, Occupied(s)' PROVE fSlot'[fEvents'[s]] = s
    BY <1>b, <1>0, <1>1, <1>7, <2>1 DEF SlotInv
  <2> QED
    BY <1>0, <1>2, <1>4, <1>7, <2>1 DEF SlotInv
<1>9. HolderInv'
  BY <1>0, <1>3, <1>7 DEF HolderInv
<1>10. PlaceInv'
  <2>1. OnePlace'
    BY <1>0, <1>4, <1>6 DEF OnePlace
  <2>2. NotYet'
    BY <1>b, <1>0, <1>6, <1>7 DEF NotYet
  <2>3. Generated'
    BY <1>0 DEF Generated
  <2>4. ASSUME NEW e \in Events, Activated(e) \/ e = e0, Needed(e)
        PROVE  fEvents[fSlot[e]] = e /\ \A u \in Workers : u # t => ~ Holds(u, fSlot[e])
    BY <1>b, <1>0, <1>1, <2>4 DEF HasSlot, SlotInv
  <2>5. HasSlot'
    BY <1>0, <1>4, <1>5, <1>6, <2>4 DEF HasSlot, EventOrNull
  <2> QED
    BY <2>1, <2>2, <2>3, <2>5 DEF PlaceInv
<1>11. WorkInv'
  BY <1>0, <1>3, <1>6 DEF WorkInv, AtEvent
<1> QED
  BY <1>b, <1>0, <1>1, <1>5, <1>6, <1>8, <1>9, <1>10, <1>11 DEF Places, EventOrNull

\* The loser of the exchange puts its event back into fPendingEvents.
LEMMA PlacesUndoPending ==
  ASSUME ServerInv, NEW t \in Workers, UndoPending(t)
  PROVE  /\ Places'
         /\ \A e \in Events : /\ Needed(e)' <=> Needed(e)
                              /\ Waiting(e)' <=> Waiting(e)
<1>a. loc[t].slot \in Slots /\ fEvents[loc[t].slot] \in Events /\ pc[t] = "a_undo"
  BY LocalTypes DEF ServerInv, UndoPending, Places, HolderInv
<1>b. PICK s0 \in Slots, e0 \in Events : s0 = loc[t].slot /\ e0 = fEvents[s0]
  BY <1>a
<1>0. /\ SlotInv /\ HolderInv /\ WorkInv /\ OnePlace /\ NotYet /\ Generated /\ HasSlot
      /\ pc \in [Workers -> Labels] /\ pc' = [pc EXCEPT ![t] = "a_undo2"]
      /\ loc' = loc
      /\ fPendingEvents \in Seq(Events) /\ fPendingEvents' = Append(fPendingEvents, e0)
      /\ UNCHANGED <<fEvent, fFreeSlots, fEvents, fSlot, fNload, fDoneEvents>>
      /\ fEvents \in [Slots -> EventOrNull] /\ fSlot \in [Events -> Slots] /\ fEvent \in Events
      /\ \A u \in Workers : loc[u].slot \in Slots
  BY <1>b, LocalTypes DEF ServerInv, Places, PlaceInv, TypeInv, UndoPending, Goto, server, event, manager
<1>1. Activating(t, e0) /\ ~ Pending(e0)
  BY <1>a, <1>b, <1>0 DEF Activating, OnePlace
<1>2. /\ IsInjective(fPendingEvents')
      /\ \A e \in Events : Pending(e)' <=> Pending(e) \/ e = e0
  BY <1>0, <1>1, AppendOnce DEF OnePlace, Pending
<1>3. (\A u \in Workers : u # t => pc'[u] = pc[u]) /\ pc'[t] = "a_undo2"
  BY <1>0
<1>4. /\ \A u \in Workers, s \in Slots : Holds(u, s)' <=> Holds(u, s)
      /\ \A u \in Workers, e \in Events : /\ Adding(u, e)' <=> Adding(u, e)
                                          /\ Activating(u, e)' <=> Activating(u, e) /\ u # t
      /\ \A e \in Events : Activating(t, e) <=> e = e0
  BY <1>0, <1>a, <1>b, <1>3 DEF Holds, Adding, Activating
<1>5. \A e \in EventOrNull : Needed(e)' <=> Needed(e)
  BY <1>0, <1>a, <1>3 DEF Needed
<1>6. /\ \A e \in Events : Waiting(e)' <=> Waiting(e)
      /\ \A e \in Events : Activated(e)' <=> Activated(e)
  <2>1. \A e \in Events : Waiting(e)' <=> Waiting(e)
    BY <1>2, <1>4 DEF Waiting
  <2> QED
    BY <1>0, <2>1 DEF Activated
<1>7. \A s \in Slots : /\ Vacant(s)' <=> Vacant(s)
                       /\ Free(s)' <=> Free(s)
                       /\ Occupied(s)' <=> Occupied(s)
  BY <1>0, <1>4, <1>5 DEF Vacant, Free, Occupied
<1>8. SlotInv'
  BY <1>0, <1>4, <1>7 DEF SlotInv
<1>9. HolderInv'
  BY <1>0, <1>3, <1>7 DEF HolderInv
<1>10. PlaceInv'
  <2>1. OnePlace'
    BY <1>0, <1>1, <1>2, <1>4 DEF OnePlace
  <2>2. NotYet' /\ Generated'
    BY <1>0, <1>6, <1>7 DEF NotYet, Generated
  <2>3. HasSlot'
    BY <1>0, <1>4, <1>5, <1>6 DEF HasSlot, EventOrNull
  <2> QED
    BY <2>1, <2>2, <2>3 DEF PlaceInv
<1>11. WorkInv'
  BY <1>0, <1>a, <1>3, <1>6 DEF WorkInv, AtEvent
<1> QED
  BY <1>5, <1>6, <1>8, <1>9, <1>10, <1>11 DEF Places, EventOrNull

\* The loser of the exchange puts its slot back, emptied.
LEMMA PlacesUndoSlot ==
  ASSUME ServerInv, NEW t \in Workers, UndoSlot(t)
  PROVE  /\ Places'
         /\ \A e \in Events : /\ Needed(e)' <=> Needed(e)
                              /\ Waiting(e)' <=> Waiting(e)
<1>a. loc[t].slot \in Slots /\ pc[t] = "a_undo2"
  BY LocalTypes DEF ServerInv, UndoSlot
<1>b. PICK s0 \in Slots : s0 = loc[t].slot
  BY <1>a
<1>0. /\ SlotInv /\ HolderInv /\ WorkInv /\ OnePlace /\ NotYet /\ Generated /\ HasSlot
      /\ pc \in [Workers -> Labels] /\ pc' = [pc EXCEPT ![t] = "b_book"]
      /\ loc \in [Workers -> Locals] /\ loc' = [loc EXCEPT ![t].slot = 0]
      /\ fFreeSlots \in Seq(Slots) /\ fFreeSlots' = Append(fFreeSlots, s0)
      /\ fEvents' = [fEvents EXCEPT ![s0] = Null]
      /\ UNCHANGED <<fPendingEvents, fEvent, fSlot, fNload, fDoneEvents>>
      /\ fEvents \in [Slots -> EventOrNull] /\ fSlot \in [Events -> Slots] /\ fEvent \in Events
      /\ \A u \in Workers : loc[u].slot \in Slots
  BY <1>b, LocalTypes DEF ServerInv, Places, PlaceInv, TypeInv, UndoSlot, Goto, Keep, event, manager
<1>1. Holds(t, s0) /\ ~ Free(s0)
  BY <1>a, <1>b, <1>0 DEF Holds, SlotInv
<1>2. /\ IsInjective(fFreeSlots')
      /\ \A s \in Slots : Free(s)' <=> Free(s) \/ s = s0
  BY <1>0, <1>1, AppendOnce DEF SlotInv, Free
<1>3. /\ \A u \in Workers : u # t => pc'[u] = pc[u] /\ loc'[u] = loc[u]
      /\ pc'[t] = "b_book" /\ loc'[t].ev = loc[t].ev
      /\ fEvents'[s0] = Null /\ \A s \in Slots : s # s0 => fEvents'[s] = fEvents[s]
  BY <1>0 DEF Locals
<1>4. \A u \in Workers : u # t /\ pc[u] \in HoldLabels => loc[u].slot # s0
  BY <1>0, <1>1 DEF SlotInv, Holds, HoldLabels
<1>5. /\ \A u \in Workers, s \in Slots : Holds(u, s)' <=> Holds(u, s) /\ u # t
      /\ \A s \in Slots : Holds(t, s) <=> s = s0
      /\ \A u \in Workers, e \in Events : /\ Adding(u, e)' <=> Adding(u, e)
                                          /\ Activating(u, e)' <=> Activating(u, e)
  <2>1. /\ \A u \in Workers, s \in Slots : Holds(u, s)' <=> Holds(u, s) /\ u # t
        /\ \A s \in Slots : Holds(t, s) <=> s = s0
        /\ \A u \in Workers, e \in Events : Adding(u, e)' <=> Adding(u, e)
    BY <1>0, <1>a, <1>b, <1>3 DEF Holds, Adding
  <2>2. \A u \in Workers, e \in Events : Activating(u, e)' <=> Activating(u, e)
    BY <1>0, <1>a, <1>3, <1>4 DEF Activating, HoldLabels
  <2> QED
    BY <2>1, <2>2
<1>6. \A e \in EventOrNull : Needed(e)' <=> Needed(e)
  BY <1>0, <1>a, <1>3 DEF Needed
<1>7. /\ \A e \in Events : Waiting(e)' <=> Waiting(e)
      /\ \A e \in Events : Activated(e)' <=> Activated(e)
      /\ \A e \in Events : Pending(e)' <=> Pending(e)
  BY <1>0, <1>5 DEF Waiting, Activated, Pending
<1>8. \A s \in Slots : /\ Vacant(s)' <=> Vacant(s) \/ s = s0
                       /\ Occupied(s)' => Occupied(s) /\ s # s0
  <2>1. \A s \in Slots : Vacant(s)' <=> Vacant(s) \/ s = s0
    BY <1>0, <1>3, <1>6 DEF Vacant
  <2>2. \A s \in Slots : Occupied(s)' => Occupied(s) /\ s # s0
    BY <1>0, <1>3, <1>5, <1>6 DEF Occupied
  <2> QED
    BY <2>1, <2>2
<1>9. SlotInv'
  <2>1. ASSUME NEW s \in Slots, Occupied(s)' PROVE fSlot'[fEvents'[s]] = s
    BY <1>0, <1>3, <1>8, <2>1 DEF SlotInv
  <2>2. ASSUME NEW s \in Slots, Free(s)'
        PROVE  Vacant(s)' /\ \A u \in Workers : ~ Holds(u, s)'
    BY <1>0, <1>1, <1>2, <1>5, <1>8, <2>2 DEF SlotInv
  <2>3. ASSUME NEW s \in Slots
        PROVE  Free(s)' \/ (\E u \in Workers : Holds(u, s)') \/ ~ Vacant(s)'
    BY <1>0, <1>2, <1>5, <1>8 DEF SlotInv
  <2> QED
    BY <1>0, <1>2, <1>5, <2>1, <2>2, <2>3 DEF SlotInv
<1>10. HolderInv'
  <2>1. \A u \in Workers : u # t /\ pc[u] \in HoldLabels => fEvents'[loc[u].slot] = fEvents[loc[u].slot]
    BY <1>0, <1>3, <1>4
  <2> QED
    BY <1>0, <1>3, <1>4, <1>8, <2>1 DEF HolderInv, HoldLabels
<1>11. PlaceInv'
  <2>1. \A e \in Events : Activated(e) /\ Needed(e) =>
          /\ fSlot'[e] \in Slots /\ fEvents'[fSlot'[e]] = e
          /\ \A u \in Workers : ~ Holds(u, fSlot'[e])
    BY <1>0, <1>1, <1>3 DEF HasSlot
  <2>2. Generated'
    BY <1>0, <1>3 DEF Generated
  <2>3. OnePlace'
    BY <1>0, <1>5, <1>7 DEF OnePlace
  <2>4. NotYet'
    BY <1>0, <1>3, <1>7, <1>8 DEF NotYet
  <2>5. HasSlot'
    BY <1>0, <1>5, <1>6, <1>7, <2>1 DEF HasSlot, EventOrNull
  <2> QED
    BY <2>2, <2>3, <2>4, <2>5 DEF PlaceInv
<1>12. WorkInv'
  BY <1>0, <1>a, <1>3, <1>7 DEF WorkInv, AtEvent
<1> QED
  BY <1>6, <1>7, <1>9, <1>10, <1>11, <1>12 DEF Places, EventOrNull

\* The event is done, and needs its slot until CompletedEvent.
LEMMA PlacesTransported ==
  ASSUME ServerInv, NEW t \in Workers, EventTransported(t)
  PROVE  /\ Places'
         /\ \A e \in Events : /\ Needed(e)' <=> Needed(e)
                              /\ Waiting(e)' <=> Waiting(e)
<1>a. loc[t].ev \in Events /\ pc[t] = "t_done" /\ loc[t].ev \notin fDoneEvents /\ Activated(loc[t].ev)
  BY DEF ServerInv, EventTransported, Places, WorkInv, AtEvent, Accounts, EndInv
<1>b. PICK e0 \in Events : e0 = loc[t].ev
  BY <1>a
<1>0. /\ SlotInv /\ HolderInv /\ WorkInv /\ OnePlace /\ NotYet /\ Generated /\ HasSlot
      /\ pc \in [Workers -> Labels] /\ pc' = [pc EXCEPT ![t] = "t_slot"]
      /\ loc' = loc
      /\ fDoneEvents' = fDoneEvents \union {e0}
      /\ UNCHANGED <<fPendingEvents, fEvent, fFreeSlots, fEvents, fSlot, fNload>>
      /\ fEvents \in [Slots -> EventOrNull] /\ fSlot \in [Events -> Slots] /\ fEvent \in Events
      /\ \A u \in Workers : loc[u].slot \in Slots
  BY <1>b, LocalTypes DEF ServerInv, Places, PlaceInv, TypeInv, EventTransported, Goto, queues, server, event
<1>1. /\ \A u \in Workers : u # t => pc'[u] = pc[u]
      /\ pc'[t] = "t_slot"
  BY <1>0
<1>2. /\ \A u \in Workers, s \in Slots : Holds(u, s)' <=> Holds(u, s)
      /\ \A u \in Workers, e \in Events : /\ Adding(u, e)' <=> Adding(u, e)
                                          /\ Activating(u, e)' <=> Activating(u, e)
  BY <1>0, <1>a, <1>1 DEF Holds, Adding, Activating
<1>3. \A e \in EventOrNull : Needed(e)' <=> Needed(e)
  <2>1. Needed(e0) /\ Needed(e0)'
    BY <1>0, <1>a, <1>b, <1>1 DEF Needed
  <2>2. ASSUME NEW e \in EventOrNull, e # e0 PROVE Needed(e)' <=> Needed(e)
    BY <1>0, <1>a, <1>b, <1>1, <2>2 DEF Needed
  <2> QED
    BY <2>1, <2>2
<1>4. /\ \A e \in Events : Waiting(e)' <=> Waiting(e)
      /\ \A e \in Events : Activated(e)' <=> Activated(e)
      /\ \A e \in Events : Pending(e)' <=> Pending(e)
  BY <1>0, <1>2 DEF Waiting, Activated, Pending
<1>5. \A s \in Slots : /\ Vacant(s)' <=> Vacant(s)
                       /\ Free(s)' <=> Free(s)
                       /\ Occupied(s)' <=> Occupied(s)
  BY <1>0, <1>2, <1>3 DEF Vacant, Free, Occupied
<1>6. SlotInv'
  BY <1>0, <1>2, <1>5 DEF SlotInv
<1>7. HolderInv'
  BY <1>0, <1>1, <1>5 DEF HolderInv
<1>8. PlaceInv'
  <2>1. OnePlace'
    BY <1>0, <1>2, <1>4 DEF OnePlace
  <2>2. NotYet' /\ Generated'
    BY <1>0, <1>a, <1>b, <1>4, <1>5 DEF NotYet, Generated, Activated
  <2>3. HasSlot'
    BY <1>0, <1>2, <1>3, <1>4 DEF HasSlot, EventOrNull
  <2> QED
    BY <2>1, <2>2, <2>3 DEF PlaceInv
<1>9. WorkInv'
  BY <1>0, <1>a, <1>1, <1>4 DEF WorkInv, AtEvent
<1> QED
  BY <1>3, <1>4, <1>6, <1>7, <1>8, <1>9 DEF Places, EventOrNull

\* The slot of a done event is free again.
LEMMA PlacesCompleted ==
  ASSUME ServerInv, NEW t \in Workers, CompletedEvent(t)
  PROVE  /\ Places'
         /\ \A e \in Events : /\ Needed(e)' => Needed(e)
                              /\ Waiting(e)' <=> Waiting(e)
<1>a. /\ loc[t].ev \in Events /\ pc[t] = "t_slot" /\ loc[t].ev \in fDoneEvents /\ Activated(loc[t].ev)
      /\ \A u \in Workers : u # t /\ pc[u] = "t_slot" => loc[u].ev # loc[t].ev
  BY DEF ServerInv, CompletedEvent, Places, WorkInv, AtEvent, Accounts, EndInv
<1>b. PICK e0 \in Events, s0 \in Slots : e0 = loc[t].ev /\ s0 = fSlot[e0]
  BY <1>a DEF ServerInv, TypeInv
<1>0. /\ SlotInv /\ HolderInv /\ WorkInv /\ OnePlace /\ NotYet /\ Generated /\ HasSlot
      /\ pc \in [Workers -> Labels] /\ pc' = [pc EXCEPT ![t] = "n_lock"]
      /\ loc \in [Workers -> Locals] /\ loc' = [loc EXCEPT ![t].ev = Null]
      /\ fFreeSlots \in Seq(Slots) /\ fFreeSlots' = Append(fFreeSlots, s0)
      /\ UNCHANGED <<fPendingEvents, fEvent, fEvents, fSlot, fNload, fDoneEvents>>
      /\ fEvents \in [Slots -> EventOrNull] /\ fSlot \in [Events -> Slots] /\ fEvent \in Events
      /\ \A u \in Workers : loc[u].slot \in Slots
  BY <1>b, LocalTypes DEF ServerInv, Places, PlaceInv, TypeInv, CompletedEvent, Goto, Keep, server, event, manager
<1>1. /\ Needed(e0) /\ fEvents[s0] = e0 /\ ~ Vacant(s0) /\ ~ Free(s0)
      /\ \A u \in Workers : ~ Holds(u, s0)
  <2>1. Needed(e0)
    BY <1>a, <1>b DEF Needed
  <2>2. fEvents[s0] = e0 /\ \A u \in Workers : ~ Holds(u, s0)
    BY <1>0, <1>a, <1>b, <2>1 DEF HasSlot
  <2>3. ~ Vacant(s0)
    BY <2>1, <2>2, EventFacts DEF Vacant
  <2> QED
    BY <1>0, <2>1, <2>2, <2>3 DEF SlotInv
<1>2. /\ IsInjective(fFreeSlots')
      /\ \A s \in Slots : Free(s)' <=> Free(s) \/ s = s0
  BY <1>0, <1>1, AppendOnce DEF SlotInv, Free
<1>3. /\ \A u \in Workers : u # t => pc'[u] = pc[u] /\ loc'[u] = loc[u]
      /\ pc'[t] = "n_lock"
  BY <1>0
<1>4. /\ \A u \in Workers, s \in Slots : Holds(u, s)' <=> Holds(u, s)
      /\ \A u \in Workers, e \in Events : /\ Adding(u, e)' <=> Adding(u, e)
                                          /\ Activating(u, e)' <=> Activating(u, e)
  BY <1>0, <1>a, <1>3 DEF Holds, Adding, Activating
<1>5. \A e \in EventOrNull : Needed(e)' <=> Needed(e) /\ e # e0
  <2>1. ~ Needed(e0)'
    BY <1>0, <1>a, <1>b, <1>3 DEF Needed
  <2>2. ASSUME NEW e \in EventOrNull, e # e0 PROVE Needed(e)' <=> Needed(e)
    BY <1>0, <1>a, <1>b, <1>3, <2>2 DEF Needed
  <2> QED
    BY <2>1, <2>2
<1>6. /\ \A e \in Events : Waiting(e)' <=> Waiting(e)
      /\ \A e \in Events : Activated(e)' <=> Activated(e)
      /\ \A e \in Events : Pending(e)' <=> Pending(e)
  BY <1>0, <1>4 DEF Waiting, Activated, Pending
<1>7. \A s \in Slots : /\ Vacant(s) => Vacant(s)'
                       /\ Occupied(s) /\ s # s0 => ~ Vacant(s)'
                       /\ Occupied(s)' => Occupied(s)
  <2>1. ASSUME NEW s \in Slots, s # s0, Occupied(s) PROVE fEvents[s] # e0
    BY <1>0, <1>b, <2>1 DEF SlotInv
  <2>2. \A s \in Slots : Vacant(s) => Vacant(s)'
    BY <1>0, <1>5 DEF Vacant
  <2>3. \A s \in Slots : Occupied(s) /\ s # s0 => ~ Vacant(s)'
    BY <1>0, <1>5, <2>1 DEF Vacant, Occupied
  <2>4. \A s \in Slots : Occupied(s)' => Occupied(s)
    BY <1>0, <1>4, <1>5 DEF Occupied
  <2> QED
    BY <2>2, <2>3, <2>4
<1>8. SlotInv'
  <2>1. ASSUME NEW s \in Slots, Free(s)'
        PROVE  Vacant(s)' /\ \A u \in Workers : ~ Holds(u, s)'
    <3>1. Vacant(s0)'
      BY <1>0, <1>1, <1>5 DEF Vacant
    <3> QED
      BY <1>0, <1>1, <1>2, <1>4, <1>7, <2>1, <3>1 DEF SlotInv
  <2>2. ASSUME NEW s \in Slots
        PROVE  Free(s)' \/ (\E u \in Workers : Holds(u, s)') \/ ~ Vacant(s)'
    <3>1. Free(s) \/ (\E u \in Workers : Holds(u, s)) \/ Occupied(s)
      BY <1>0 DEF SlotInv, Occupied, Vacant
    <3> QED
      BY <1>2, <1>4, <1>7, <3>1
  <2>3. \A s \in Slots : Occupied(s)' => fSlot'[fEvents'[s]] = s
    BY <1>0, <1>7 DEF SlotInv
  <2> QED
    BY <1>0, <1>2, <1>4, <2>1, <2>2, <2>3 DEF SlotInv
<1>9. HolderInv'
  BY <1>0, <1>3, <1>7 DEF HolderInv
<1>10. PlaceInv'
  <2>1. OnePlace'
    BY <1>0, <1>4, <1>6 DEF OnePlace
  <2>2. NotYet' /\ Generated'
    BY <1>0, <1>6, <1>7 DEF NotYet, Generated
  <2>3. HasSlot'
    BY <1>0, <1>4, <1>5, <1>6 DEF HasSlot, EventOrNull
  <2> QED
    BY <2>1, <2>2, <2>3 DEF PlaceInv
<1>11. WorkInv'
  BY <1>0, <1>3, <1>6 DEF WorkInv, AtEvent
<1> QED
  BY <1>5, <1>6, <1>8, <1>9, <1>10, <1>11 DEF Places, EventOrNull

\* A new event is generated: nobody knew its number before.
LEMMA PlacesGenerate ==
  ASSUME ServerInv, NEW t \in Workers, GenerateNewEvent(t), fNload < NEvents
  PROVE  /\ Places'
         /\ fNload \in Events
         /\ \A e \in Events : /\ Needed(e)' <=> Needed(e)
                              /\ Waiting(e)' <=> Waiting(e) \/ e = fNload
         /\ ~ Waiting(fNload)
<1>a. fNload \in Nat /\ fNload \in Events /\ pc[t] = "n_load" /\ ~ (fNload >= NEvents)
  BY SizesAssumption DEF ServerInv, TypeInv, GenerateNewEvent, Events
<1>b. PICK e0 \in Events : e0 = fNload
  BY <1>a
<1>c. /\ pc' = [pc EXCEPT ![t] = "n_add"]
      /\ loc' = [loc EXCEPT ![t].ev = e0]
      /\ fNload' = fNload + 1
      /\ UNCHANGED <<fPendingEvents, fFreeSlots, fEvent, fEvents, fSlot, fDoneEvents>>
  BY <1>a, <1>b DEF GenerateNewEvent, Goto, Keep, queues, manager
<1>0. /\ SlotInv /\ HolderInv /\ WorkInv /\ OnePlace /\ NotYet /\ Generated /\ HasSlot
      /\ pc \in [Workers -> Labels] /\ loc \in [Workers -> Locals] /\ fNload \in Nat
      /\ fEvents \in [Slots -> EventOrNull] /\ fSlot \in [Events -> Slots] /\ fEvent \in Events
      /\ \A u \in Workers : loc[u].slot \in Slots
      /\ pc' = [pc EXCEPT ![t] = "n_add"]
      /\ loc' = [loc EXCEPT ![t].ev = e0]
      /\ fNload' = fNload + 1
      /\ UNCHANGED <<fPendingEvents, fFreeSlots, fEvent, fEvents, fSlot, fDoneEvents>>
  BY <1>a, <1>c, LocalTypes DEF ServerInv, Places, PlaceInv, TypeInv
<1>1. /\ ~ Waiting(e0) /\ e0 \notin fDoneEvents /\ ~ Activated(e0)
      /\ \A s \in Slots : fEvents[s] # e0
      /\ \A e \in Events : e \in Nat
  BY <1>0, <1>b, EventFacts DEF NotYet, Generated, Activated
<1>2. ~ Pending(e0) /\ \A u \in Workers : ~ Adding(u, e0) /\ ~ Activating(u, e0)
  BY <1>1 DEF Waiting
<1>3. /\ \A u \in Workers : u # t => pc'[u] = pc[u] /\ loc'[u] = loc[u]
      /\ pc'[t] = "n_add" /\ loc'[t].ev = e0
  BY <1>0 DEF Locals
<1>4. /\ \A u \in Workers, s \in Slots : Holds(u, s)' <=> Holds(u, s)
      /\ \A u \in Workers, e \in Events :
           /\ Adding(u, e)' <=> Adding(u, e) \/ (u = t /\ e = e0)
           /\ Activating(u, e)' <=> Activating(u, e)
      /\ \A e \in Events : ~ Adding(t, e)
  BY <1>0, <1>a, <1>3 DEF Holds, Adding, Activating
<1>5. \A e \in EventOrNull : Needed(e)' <=> Needed(e)
  BY <1>0, <1>a, <1>3 DEF Needed
<1>6. /\ \A e \in Events : Pending(e)' <=> Pending(e)
      /\ \A e \in Events : Waiting(e)' <=> Waiting(e) \/ e = e0
      /\ \A e \in Events : Activated(e)' <=> Activated(e)
  <2>1. \A e \in Events : Pending(e)' <=> Pending(e)
    BY <1>0 DEF Pending
  <2>2. \A e \in Events : Waiting(e)' <=> Waiting(e) \/ e = e0
    BY <1>4, <2>1 DEF Waiting
  <2>3. \A e \in Events : Activated(e)' <=> Activated(e)
    BY <1>b, <1>0, <1>1, <2>2 DEF Activated
  <2> QED
    BY <2>1, <2>2, <2>3
<1>7. \A s \in Slots : /\ Vacant(s)' <=> Vacant(s)
                       /\ Free(s)' <=> Free(s)
                       /\ Occupied(s)' <=> Occupied(s)
  BY <1>0, <1>4, <1>5 DEF Vacant, Free, Occupied
<1>8. SlotInv'
  BY <1>0, <1>4, <1>7 DEF SlotInv
<1>9. HolderInv'
  BY <1>0, <1>3, <1>7 DEF HolderInv
<1>10. PlaceInv'
  <2>1. OnePlace'
    BY <1>0, <1>2, <1>4, <1>6 DEF OnePlace
  <2>2. NotYet'
    BY <1>b, <1>0, <1>1, <1>6, <1>7 DEF NotYet
  <2>3. Generated'
    <3>1. ASSUME NEW s \in Slots, fEvents[s] # Null PROVE fEvents[s] < fNload + 1
      BY <1>0, <1>1, <3>1 DEF Generated, EventOrNull
    <3> QED
      BY <1>0, <1>1, <3>1 DEF Generated
  <2>4. HasSlot'
    BY <1>0, <1>4, <1>5, <1>6 DEF HasSlot, EventOrNull
  <2> QED
    BY <2>1, <2>2, <2>3, <2>4 DEF PlaceInv
<1>11. WorkInv'
  BY <1>0, <1>3, <1>6 DEF WorkInv, AtEvent
<1> QED
  BY <1>b, <1>1, <1>5, <1>6, <1>8, <1>9, <1>10, <1>11 DEF Places, EventOrNull

\* The new event is pending.
LEMMA PlacesAddEvent ==
  ASSUME ServerInv, NEW t \in Workers, AddEvent(t)
  PROVE  /\ Places'
         /\ \A e \in Events : /\ Needed(e)' <=> Needed(e)
                              /\ Waiting(e)' <=> Waiting(e)
<1>a. loc[t].ev \in Events /\ pc[t] = "n_add"
  BY DEF ServerInv, AddEvent, Places, WorkInv
<1>b. PICK e0 \in Events : e0 = loc[t].ev
  BY <1>a
<1>0. /\ SlotInv /\ HolderInv /\ WorkInv /\ OnePlace /\ NotYet /\ Generated /\ HasSlot
      /\ pc \in [Workers -> Labels] /\ pc' = [pc EXCEPT ![t] = "n_stored"]
      /\ loc \in [Workers -> Locals] /\ loc' = [loc EXCEPT ![t].ev = Null]
      /\ fPendingEvents \in Seq(Events) /\ fPendingEvents' = Append(fPendingEvents, e0)
      /\ UNCHANGED <<fEvent, fFreeSlots, fEvents, fSlot, fNload, fDoneEvents>>
      /\ fEvents \in [Slots -> EventOrNull] /\ fSlot \in [Events -> Slots] /\ fEvent \in Events
      /\ \A u \in Workers : loc[u].slot \in Slots
  BY <1>b, LocalTypes DEF ServerInv, Places, PlaceInv, TypeInv, AddEvent, Goto, Keep, server, event, manager
<1>1. Adding(t, e0) /\ ~ Pending(e0)
  BY <1>a, <1>b, <1>0 DEF Adding, OnePlace
<1>2. /\ IsInjective(fPendingEvents')
      /\ \A e \in Events : Pending(e)' <=> Pending(e) \/ e = e0
  BY <1>0, <1>1, AppendOnce DEF OnePlace, Pending
<1>3. (\A u \in Workers : u # t => pc'[u] = pc[u] /\ loc'[u] = loc[u]) /\ pc'[t] = "n_stored"
  BY <1>0
<1>4. /\ \A u \in Workers, s \in Slots : Holds(u, s)' <=> Holds(u, s)
      /\ \A u \in Workers, e \in Events : /\ Adding(u, e)' <=> Adding(u, e) /\ u # t
                                          /\ Activating(u, e)' <=> Activating(u, e)
      /\ \A e \in Events : Adding(t, e) <=> e = e0
  BY <1>0, <1>a, <1>b, <1>3 DEF Holds, Adding, Activating
<1>5. \A e \in EventOrNull : Needed(e)' <=> Needed(e)
  BY <1>0, <1>a, <1>3 DEF Needed
<1>6. /\ \A e \in Events : Waiting(e)' <=> Waiting(e)
      /\ \A e \in Events : Activated(e)' <=> Activated(e)
  <2>1. \A e \in Events : Waiting(e)' <=> Waiting(e)
    BY <1>2, <1>4 DEF Waiting
  <2> QED
    BY <1>0, <2>1 DEF Activated
<1>7. \A s \in Slots : /\ Vacant(s)' <=> Vacant(s)
                       /\ Free(s)' <=> Free(s)
                       /\ Occupied(s)' <=> Occupied(s)
  BY <1>0, <1>4, <1>5 DEF Vacant, Free, Occupied
<1>8. SlotInv'
  BY <1>0, <1>4, <1>7 DEF SlotInv
<1>9. HolderInv'
  BY <1>0, <1>3, <1>7 DEF HolderInv
<1>10. PlaceInv'
  <2>1. OnePlace'
    BY <1>0, <1>1, <1>2, <1>4 DEF OnePlace
  <2>2. NotYet' /\ Generated'
    BY <1>0, <1>6, <1>7 DEF NotYet, Generated
  <2>3. HasSlot'
    BY <1>0, <1>4, <1>5, <1>6 DEF HasSlot, EventOrNull
  <2> QED
    BY <2>1, <2>2, <2>3 DEF PlaceInv
<1>11. WorkInv'
  BY <1>0, <1>a, <1>3, <1>6 DEF WorkInv, AtEvent
<1> QED
  BY <1>5, <1>6, <1>8, <1>9, <1>10, <1>11 DEF Places, EventOrNull

\* The actions that move no slot and no event: those of a worker that takes
\* tracks, counts, or publishes a flag.
LEMMA PlacesStill ==
  ASSUME ServerInv, NEW t \in Workers,
         \/ GetTracks(t) \/ Exit(t) \/ BackToFeed(t)
         \/ CheckServed(t) \/ NoMoreTracks(t) \/ NoSlot(t)
         \/ CountActive(t) \/ FlagServed(t) \/ FlagHasTracks(t)
         \/ \E k \in buffer[t] : AddTrack(t, k) \/ StopTrack(t, k)
         \/ CheckLeft(t) \/ Prioritize(t) \/ CountPriority(t)
         \/ LockGenerator(t) \/ CountStored(t) \/ ResetServed(t) \/ ResetHasTracks(t)
         \/ GenerateNewEvent(t) /\ ~ (fNload < NEvents)
  PROVE  /\ Places'
         /\ \A e \in Events : /\ Needed(e)' <=> Needed(e)
                              /\ Waiting(e)' <=> Waiting(e)
<1> DEFINE Still == UNCHANGED <<fPendingEvents, fFreeSlots, fEvents, fEvent, fSlot, fNload, fDoneEvents>>
           Alone == \A u \in Workers : u # t => pc'[u] = pc[u] /\ loc'[u] = loc[u]
           Outside == /\ pc[t] \notin HoldLabels \union {"n_add", "t_slot"}
                      /\ pc'[t] \notin HoldLabels \union {"n_add", "t_slot"}
           Works == pc'[t] \in AtEvent => loc'[t].ev \in Events /\ Activated(loc'[t].ev)
<1> SUFFICES Still /\ Alone /\ Outside /\ Works
  BY PlacesKept
<1>0. /\ pc \in [Workers -> Labels] /\ loc \in [Workers -> Locals]
      /\ fEvent \in Events /\ Activated(fEvent)
      /\ pc[t] \in AtEvent => loc[t].ev \in Events /\ Activated(loc[t].ev)
  BY DEF ServerInv, Places, WorkInv, TypeInv
<1>1. ASSUME Suspend(t) PROVE Still /\ Alone /\ Outside /\ Works
  BY <1>0, <1>1 DEF Suspend, Goto, Locals, queues, server, event, manager, HoldLabels, AtEvent
<1>2. ASSUME Wake(t) PROVE Still /\ Alone /\ Outside /\ Works
  BY <1>0, <1>2 DEF Wake, Goto, Locals, queues, server, event, manager, HoldLabels, AtEvent
<1>3. ASSUME FeedNothing(t) PROVE Still /\ Alone /\ Outside /\ Works
  BY <1>0, <1>3 DEF FeedNothing, Return, NoLocals, Goto, Locals, queues, server, event, manager, HoldLabels, AtEvent
<1>4. ASSUME Feed(t) PROVE Still /\ Alone /\ Outside /\ Works
  BY <1>0, <1>4 DEF Feed, Goto, Keep, Locals, queues, server, event, manager, HoldLabels, AtEvent
<1>5. ASSUME CountServed(t) PROVE Still /\ Alone /\ Outside /\ Works
  BY <1>0, <1>5 DEF CountServed, Goto, Locals, queues, server, event, manager, HoldLabels, AtEvent
<1>6. ASSUME LoadEvent(t) PROVE Still /\ Alone /\ Outside /\ Works
  BY <1>0, <1>6 DEF LoadEvent, Goto, Keep, Locals, queues, server, event, manager, HoldLabels, AtEvent
<1>7. ASSUME Book(t) PROVE Still /\ Alone /\ Outside /\ Works
  BY <1>0, <1>7 DEF Book, Goto, Keep, Locals, queues, server, event, manager, HoldLabels, AtEvent
<1>8. ASSUME CheckBooked(t) PROVE Still /\ Alone /\ Outside /\ Works
  BY <1>0, <1>8 DEF CheckBooked, Goto, Keep, Locals, queues, server, event, manager, HoldLabels, AtEvent
<1>9. ASSUME Clone(t) PROVE Still /\ Alone /\ Outside /\ Works
  BY <1>0, <1>9 DEF Clone, Goto, Return, NoLocals, Locals, queues, server, event, manager, HoldLabels, AtEvent
<1>10. ASSUME CheckServed(t) PROVE Still /\ Alone /\ Outside /\ Works
  BY <1>0, <1>10 DEF CheckServed, Goto, Locals, queues, server, event, manager, HoldLabels, AtEvent
<1>11. ASSUME NoMoreTracks(t) PROVE Still /\ Alone /\ Outside /\ Works
  BY <1>0, <1>11 DEF NoMoreTracks, Return, NoLocals, Goto, Locals, queues, server, event, manager, HoldLabels, AtEvent
<1>12. ASSUME NoSlot(t) PROVE Still /\ Alone /\ Outside /\ Works
  BY <1>0, <1>12 DEF NoSlot, Return, NoLocals, Goto, Locals, queues, server, event, manager, HoldLabels, AtEvent
<1>13. ASSUME CountActive(t) PROVE Still /\ Alone /\ Outside /\ Works
  BY <1>0, <1>13 DEF CountActive, Goto, Locals, queues, server, event, manager, HoldLabels, AtEvent
<1>14. ASSUME FlagServed(t) PROVE Still /\ Alone /\ Outside /\ Works
  BY <1>0, <1>14 DEF FlagServed, Goto, Keep, Locals, queues, server, event, manager, HoldLabels, AtEvent
<1>15. ASSUME FlagHasTracks(t) PROVE Still /\ Alone /\ Outside /\ Works
  BY <1>0, <1>15 DEF FlagHasTracks, Goto, Locals, queues, server, event, manager, HoldLabels, AtEvent
<1>16. ASSUME CheckLeft(t) PROVE Still /\ Alone /\ Outside /\ Works
  BY <1>0, <1>16 DEF CheckLeft, Resume, Goto, NoLocals, Locals, queues, server, event, manager, HoldLabels, AtEvent
<1>17. ASSUME Prioritize(t) PROVE Still /\ Alone /\ Outside /\ Works
  BY <1>0, <1>17 DEF Prioritize, Goto, Locals, queues, server, event, manager, HoldLabels, AtEvent
<1>18. ASSUME CountPriority(t) PROVE Still /\ Alone /\ Outside /\ Works
  BY <1>0, <1>18 DEF CountPriority, Resume, Goto, NoLocals, Locals, queues, server, event, manager, HoldLabels, AtEvent
<1>19. ASSUME LockGenerator(t) PROVE Still /\ Alone /\ Outside /\ Works
  BY <1>0, <1>19 DEF LockGenerator, Goto, Locals, queues, server, event, manager, HoldLabels, AtEvent
<1>20. ASSUME CountStored(t) PROVE Still /\ Alone /\ Outside /\ Works
  BY <1>0, <1>20 DEF CountStored, Goto, Locals, queues, server, event, manager, HoldLabels, AtEvent
<1>21. ASSUME ResetServed(t) PROVE Still /\ Alone /\ Outside /\ Works
  BY <1>0, <1>21 DEF ResetServed, Goto, Locals, queues, server, event, manager, HoldLabels, AtEvent
<1>22. ASSUME ResetHasTracks(t) PROVE Still /\ Alone /\ Outside /\ Works
  BY <1>0, <1>22 DEF ResetHasTracks, Resume, Goto, NoLocals, Locals, queues, server, event, manager, HoldLabels, AtEvent
<1>23. ASSUME BackToFeed(t) PROVE Still /\ Alone /\ Outside /\ Works
  BY <1>0, <1>23 DEF BackToFeed, Goto, Locals, queues, server, event, manager, HoldLabels, AtEvent
<1>24. ASSUME Exit(t) PROVE Still /\ Alone /\ Outside /\ Works
  BY <1>0, <1>24 DEF Exit, Goto, Locals, queues, server, event, manager, HoldLabels, AtEvent
<1>25. ASSUME NEW k \in buffer[t], AddTrack(t, k) PROVE Still /\ Alone /\ Outside /\ Works
  BY <1>0, <1>25 DEF AddTrack, Stepping, queues, server, manager, HoldLabels, AtEvent
<1>26. ASSUME NEW k \in buffer[t], StopTrack(t, k) PROVE Still /\ Alone /\ Outside /\ Works
  <2>1. PICK e \in Events : e = fEvents[k.slot] /\ Activated(e)
    BY TrackFound
  <2>2. /\ Stepping(t) /\ pc' = [pc EXCEPT ![t] = "s_left"]
        /\ loc' = [loc EXCEPT ![t].ev = e, ![t].n = fNdone[e] + 1] /\ Still
    BY <1>26, <2>1 DEF StopTrack, Goto, queues, server, manager
  <2>3. loc'[t].ev = e
    BY <1>0, <2>2 DEF Locals
  <2>4. Alone /\ Outside
    BY <1>0, <2>2 DEF Stepping, HoldLabels
  <2> QED
    BY <2>1, <2>2, <2>3, <2>4 DEF Activated, Waiting, Pending, Adding, Activating
<1>27. ASSUME GenerateNewEvent(t), ~ (fNload < NEvents) PROVE Still /\ Alone /\ Outside /\ Works
  <2>1. fNload >= NEvents
    BY <1>27, SizesAssumption DEF ServerInv, TypeInv
  <2> QED
    BY <1>0, <1>27, <2>1 DEF GenerateNewEvent, Resume, Goto, NoLocals, queues, manager, HoldLabels, AtEvent
<1> QED
  BY <1>1, <1>2, <1>3, <1>4, <1>5, <1>6, <1>7, <1>8, <1>9, <1>10, <1>11, <1>12, <1>13, <1>14, <1>15, <1>16, <1>17, <1>18, <1>19, <1>20, <1>21, <1>22, <1>23, <1>24, <1>25, <1>26, <1>27 DEF GetTracks

\* The holder of a slot goes on with it.
LEMMA PlacesStillHolder ==
  ASSUME ServerInv, NEW t \in Workers,
         \/ ClearOld(t) /\ fEvents[loc[t].slot] = Null
         \/ ClearDispatched(t) \/ NoPending(t) \/ Overtaken(t)
  PROVE  /\ Places'
         /\ \A e \in Events : /\ Needed(e)' <=> Needed(e)
                              /\ Waiting(e)' <=> Waiting(e)
<1> DEFINE Still == UNCHANGED <<fPendingEvents, fFreeSlots, fEvents, fEvent, fSlot, fNload, fDoneEvents>>
           Alone == \A u \in Workers : u # t => pc'[u] = pc[u] /\ loc'[u] = loc[u]
           Works == /\ loc'[t].slot = loc[t].slot
                    /\ loc'[t].ev \in Events /\ Activated(loc'[t].ev)
           Goes == \/ /\ pc[t] \in {"a_clear", "a_clear2", "a_pending"} /\ pc'[t] \in {"a_pending", "a_giveup"}
                      /\ fEvents[loc[t].slot] = Null
                   \/ pc[t] = "a_cas" /\ pc'[t] = "a_undo"
<1> SUFFICES Still /\ Alone /\ Works /\ Goes
  BY PlacesHolder
<1>0. /\ pc \in [Workers -> Labels] /\ loc \in [Workers -> Locals]
      /\ fEvent \in Events /\ Activated(fEvent)
      /\ pc[t] \in AtEvent => loc[t].ev \in Events /\ Activated(loc[t].ev)
      /\ pc[t] \in {"a_clear2", "a_pending", "a_giveup"} => fEvents[loc[t].slot] = Null
  BY DEF ServerInv, Places, WorkInv, HolderInv, TypeInv
<1>1. ASSUME ClearOld(t), fEvents[loc[t].slot] = Null PROVE Still /\ Alone /\ Works /\ Goes
  BY <1>0, <1>1 DEF ClearOld, Goto, queues, manager, AtEvent
<1>2. ASSUME ClearDispatched(t) PROVE Still /\ Alone /\ Works /\ Goes
  BY <1>0, <1>2 DEF ClearDispatched, Goto, Keep, Locals, queues, server, manager, AtEvent
<1>3. ASSUME NoPending(t) PROVE Still /\ Alone /\ Works /\ Goes
  BY <1>0, <1>3 DEF NoPending, Goto, queues, server, event, manager, AtEvent
<1>4. ASSUME Overtaken(t) PROVE Still /\ Alone /\ Works /\ Goes
  BY <1>0, <1>4 DEF Overtaken, Goto, Keep, Locals, queues, server, event, manager, AtEvent
<1> QED
  BY <1>1, <1>2, <1>3, <1>4

\* Slots and events keep their places.
LEMMA PlacesStep == ASSUME ServerInv, [Next]_vars PROVE Places'
<1>1. ASSUME NEW t \in Workers, Transport(t) PROVE Places'
  <2>1. CASE GenerateNewEvent(t)
    BY <2>1, PlacesStill, PlacesGenerate
  <2> QED
    BY <1>1, <2>1, PlacesStill, PlacesTransported, PlacesCompleted, PlacesAddEvent DEF Transport
<1>2. ASSUME NEW t \in Workers, ActivateEvent(t) PROVE Places'
  <2>1. CASE ClearOld(t)
    BY <2>1, PlacesStillHolder, PlacesClearOld
  <2>2. CASE TakeSlot(t) \/ TakePending(t) \/ ReturnSlot(t) \/ Replace(t) \/ UndoPending(t) \/ UndoSlot(t)
    BY <2>2, PlacesTakeSlot, PlacesTakePending, PlacesReturnSlot, PlacesReplace, PlacesUndoPending,
       PlacesUndoSlot
  <2> QED
    BY <1>2, <2>1, <2>2, PlacesStill, PlacesStillHolder DEF ActivateEvent
<1>3. ASSUME NEW t \in Workers, Step(t) PROVE Places'
  BY <1>1, <1>2, <1>3, PlacesStill DEF Step, Work
<1>4. CASE UNCHANGED vars
  BY <1>4 DEF ServerInv, Places, SlotInv, HolderInv, PlaceInv, OnePlace, NotYet, Generated, HasSlot, WorkInv,
     Free, Vacant, Occupied, Holds, Needed, Waiting, Activated, Adding, Activating, Pending,
     vars, queues, flags, server, phase, event, manager, idle
<1> QED
  BY <1>3, <1>4 DEF Next, Finished

------------------------------------------------------------------------------
(* Tracks are accounted for, and an event ends once                        *)

\* A step that gives out, starts and stops no track, and ends no event.
LEMMA AccountsKept ==
  ASSUME ServerInv, NEW t \in Workers,
         UNCHANGED <<fNprimaries, fNtracks, fNdone, fNdispatched, fDoneEvents, fNload, buffer>>,
         \A u \in Workers : u # t => pc'[u] = pc[u] /\ loc'[u] = loc[u],
         \A e \in Events : (Needed(e)' => Needed(e)) /\ (Waiting(e)' => Waiting(e)),
         \A e \in Events : Activated(e) /\ e \notin fDoneEvents => fSlot'[e] = fSlot[e],
         Booked(t)' <=> Booked(t),
         Booked(t) => loc'[t] = loc[t],
         pc'[t] \notin {"a_clear2", "s_left", "t_done", "t_slot"}
  PROVE  Accounts'
<1>0. /\ CounterInv /\ ClearInv /\ TrackInv /\ BookedInv /\ AccountInv /\ EndInv
      /\ buffer \in [Workers -> SUBSET Tracks]
  BY DEF ServerInv, Accounts, TypeInv
<1>1. \A e \in Events : /\ Activated(e) => Activated(e)'
                        /\ Activated(e)' => Activated(e) \/ Waiting(e)
  BY DEF Activated
<1>2. \A u \in Workers : /\ Booked(u)' <=> Booked(u)
                         /\ Booked(u) => loc'[u] = loc[u]
  BY DEF Booked, Valid
<1>3. /\ InTransport' = InTransport
      /\ \A e \in Events : TracksOf(e)' = TracksOf(e) /\ BookedOf(e)' = BookedOf(e)
  <2>1. InTransport' = InTransport
    BY DEF InTransport
  <2>2. ASSUME NEW e \in Events PROVE BookedOf(e)' = BookedOf(e)
    BY <1>2 DEF BookedOf
  <2> QED
    BY <2>1, <2>2 DEF TracksOf
<1>4. CounterInv'
  BY <1>0, <1>1, PrimariesAssumption DEF CounterInv, Cleared, Fresh
<1>5. ClearInv'
  BY <1>0 DEF ClearInv, Cleared, Places, ServerInv, PlaceInv, Generated, TypeInv
<1>6. TrackInv'
  BY <1>0, <1>1 DEF TrackInv, Tracks
<1>7. BookedInv'
  BY <1>0, <1>2 DEF BookedInv
<1>8. AccountInv'
  BY <1>0, <1>3 DEF AccountInv
<1>9. EndInv'
  BY <1>0 DEF EndInv
<1> QED
  BY <1>4, <1>5, <1>6, <1>7, <1>8, <1>9 DEF Accounts

\* The actions that give out, start and stop no track, and end no event.
LEMMA AccountsStill ==
  ASSUME ServerInv, NEW t \in Workers,
         \/ Suspend(t) \/ Wake(t) \/ FeedNothing(t) \/ Feed(t) \/ CountServed(t) \/ LoadEvent(t)
         \/ CheckBooked(t) \/ Exit(t) \/ BackToFeed(t)
         \/ CheckServed(t) \/ NoMoreTracks(t) \/ TakeSlot(t) \/ NoSlot(t)
         \/ ClearOld(t) /\ fEvents[loc[t].slot] = Null
         \/ TakePending(t) \/ NoPending(t) \/ ReturnSlot(t)
         \/ Replace(t) \/ Overtaken(t) \/ UndoPending(t) \/ UndoSlot(t)
         \/ CountActive(t) \/ FlagServed(t) \/ FlagHasTracks(t)
         \/ CheckLeft(t) /\ ~ LastTrack(t)
         \/ Prioritize(t) \/ CountPriority(t) \/ CompletedEvent(t)
         \/ GenerateNewEvent(t) /\ ~ (fNload < NEvents)
         \/ LockGenerator(t) \/ AddEvent(t) \/ CountStored(t) \/ ResetServed(t) \/ ResetHasTracks(t)
  PROVE  Accounts'
<1> DEFINE Still == /\ UNCHANGED <<fNprimaries, fNtracks, fNdone, fNdispatched, fDoneEvents, fNload, buffer>>
                    /\ \A e \in Events : Activated(e) /\ e \notin fDoneEvents => fSlot'[e] = fSlot[e]
           Alone == \A u \in Workers : u # t => pc'[u] = pc[u] /\ loc'[u] = loc[u]
           Books == /\ Booked(t)' <=> Booked(t)
                    /\ Booked(t) => loc'[t] = loc[t]
           Ends == pc'[t] \notin {"a_clear2", "s_left", "t_done", "t_slot"}
<1>a. \A e \in Events : (Needed(e)' => Needed(e)) /\ (Waiting(e)' => Waiting(e))
  BY PlacesStill, PlacesStillHolder, PlacesTakeSlot, PlacesTakePending, PlacesReturnSlot, PlacesReplace,
     PlacesUndoPending, PlacesUndoSlot, PlacesCompleted, PlacesAddEvent DEF GetTracks
<1> SUFFICES Still /\ Alone /\ Books /\ Ends
  BY <1>a, AccountsKept
<1>0. pc \in [Workers -> Labels] /\ loc \in [Workers -> Locals]
  BY DEF ServerInv, TypeInv
<1>1. ASSUME Suspend(t) PROVE Still /\ Alone /\ Books /\ Ends
  BY <1>0, <1>1 DEF Suspend, Goto, Booked, Valid, Locals, queues, server, event, manager
<1>2. ASSUME Wake(t) PROVE Still /\ Alone /\ Books /\ Ends
  BY <1>0, <1>2 DEF Wake, Goto, Booked, Valid, Locals, queues, server, event, manager
<1>3. ASSUME FeedNothing(t) PROVE Still /\ Alone /\ Books /\ Ends
  BY <1>0, <1>3 DEF FeedNothing, Return, NoLocals, Goto, Booked, Valid, Locals, queues, server, event, manager
<1>4. ASSUME Feed(t) PROVE Still /\ Alone /\ Books /\ Ends
  BY <1>0, <1>4 DEF Feed, Goto, Keep, Booked, Valid, Locals, queues, server, event, manager
<1>5. ASSUME CountServed(t) PROVE Still /\ Alone /\ Books /\ Ends
  BY <1>0, <1>5 DEF CountServed, Goto, Booked, Valid, Locals, queues, server, event, manager
<1>6. ASSUME LoadEvent(t) PROVE Still /\ Alone /\ Books /\ Ends
  BY <1>0, <1>6 DEF LoadEvent, Goto, Keep, Booked, Valid, Locals, queues, server, event, manager
<1>7. ASSUME CheckBooked(t) PROVE Still /\ Alone /\ Books /\ Ends
  BY <1>0, <1>7 DEF CheckBooked, Goto, Keep, Booked, Valid, Locals, queues, server, event, manager
<1>8. ASSUME CheckServed(t) PROVE Still /\ Alone /\ Books /\ Ends
  BY <1>0, <1>8 DEF CheckServed, Goto, Booked, Valid, Locals, queues, server, event, manager
<1>9. ASSUME NoMoreTracks(t) PROVE Still /\ Alone /\ Books /\ Ends
  BY <1>0, <1>9 DEF NoMoreTracks, Return, NoLocals, Goto, Booked, Valid, Locals, queues, server, event, manager
<1>10. ASSUME TakeSlot(t) PROVE Still /\ Alone /\ Books /\ Ends
  BY <1>0, <1>10 DEF TakeSlot, Goto, Keep, Booked, Valid, Locals, queues, server, event, manager
<1>11. ASSUME NoSlot(t) PROVE Still /\ Alone /\ Books /\ Ends
  BY <1>0, <1>11 DEF NoSlot, Return, NoLocals, Goto, Booked, Valid, Locals, queues, server, event, manager
<1>12. ASSUME NoPending(t) PROVE Still /\ Alone /\ Books /\ Ends
  BY <1>0, <1>12 DEF NoPending, Goto, Booked, Valid, Locals, queues, server, event, manager
<1>13. ASSUME ReturnSlot(t) PROVE Still /\ Alone /\ Books /\ Ends
  BY <1>0, <1>13 DEF ReturnSlot, Return, NoLocals, Goto, Booked, Valid, Locals, queues, server, event, manager
<1>14. ASSUME Replace(t) PROVE Still /\ Alone /\ Books /\ Ends
  BY <1>0, <1>14 DEF Replace, Goto, Keep, Booked, Valid, Locals, queues, server, event, manager
<1>15. ASSUME Overtaken(t) PROVE Still /\ Alone /\ Books /\ Ends
  BY <1>0, <1>15 DEF Overtaken, Goto, Keep, Booked, Valid, Locals, queues, server, event, manager
<1>16. ASSUME UndoPending(t) PROVE Still /\ Alone /\ Books /\ Ends
  BY <1>0, <1>16 DEF UndoPending, Goto, Booked, Valid, Locals, queues, server, event, manager
<1>17. ASSUME UndoSlot(t) PROVE Still /\ Alone /\ Books /\ Ends
  BY <1>0, <1>17 DEF UndoSlot, Goto, Keep, Booked, Valid, Locals, queues, server, event, manager
<1>18. ASSUME CountActive(t) PROVE Still /\ Alone /\ Books /\ Ends
  BY <1>0, <1>18 DEF CountActive, Goto, Booked, Valid, Locals, queues, server, event, manager
<1>19. ASSUME FlagServed(t) PROVE Still /\ Alone /\ Books /\ Ends
  BY <1>0, <1>19 DEF FlagServed, Goto, Keep, Booked, Valid, Locals, queues, server, event, manager
<1>20. ASSUME FlagHasTracks(t) PROVE Still /\ Alone /\ Books /\ Ends
  BY <1>0, <1>20 DEF FlagHasTracks, Goto, Booked, Valid, Locals, queues, server, event, manager
<1>21. ASSUME Prioritize(t) PROVE Still /\ Alone /\ Books /\ Ends
  BY <1>0, <1>21 DEF Prioritize, Goto, Booked, Valid, Locals, queues, server, event, manager
<1>22. ASSUME CountPriority(t) PROVE Still /\ Alone /\ Books /\ Ends
  BY <1>0, <1>22 DEF CountPriority, Resume, Goto, NoLocals, Booked, Valid, Locals, queues, server, event, manager
<1>23. ASSUME CompletedEvent(t) PROVE Still /\ Alone /\ Books /\ Ends
  BY <1>0, <1>23 DEF CompletedEvent, Goto, Keep, Booked, Valid, Locals, queues, server, event, manager
<1>24. ASSUME LockGenerator(t) PROVE Still /\ Alone /\ Books /\ Ends
  BY <1>0, <1>24 DEF LockGenerator, Goto, Booked, Valid, Locals, queues, server, event, manager
<1>25. ASSUME AddEvent(t) PROVE Still /\ Alone /\ Books /\ Ends
  BY <1>0, <1>25 DEF AddEvent, Goto, Keep, Booked, Valid, Locals, queues, server, event, manager
<1>26. ASSUME CountStored(t) PROVE Still /\ Alone /\ Books /\ Ends
  BY <1>0, <1>26 DEF CountStored, Goto, Booked, Valid, Locals, queues, server, event, manager
<1>27. ASSUME ResetServed(t) PROVE Still /\ Alone /\ Books /\ Ends
  BY <1>0, <1>27 DEF ResetServed, Goto, Booked, Valid, Locals, queues, server, event, manager
<1>28. ASSUME ResetHasTracks(t) PROVE Still /\ Alone /\ Books /\ Ends
  BY <1>0, <1>28 DEF ResetHasTracks, Resume, Goto, NoLocals, Booked, Valid, Locals, queues, server, event, manager
<1>29. ASSUME BackToFeed(t) PROVE Still /\ Alone /\ Books /\ Ends
  BY <1>0, <1>29 DEF BackToFeed, Goto, Booked, Valid, Locals, queues, server, event, manager
<1>30. ASSUME Exit(t) PROVE Still /\ Alone /\ Books /\ Ends
  BY <1>0, <1>30 DEF Exit, Goto, Booked, Valid, Locals, queues, server, event, manager
<1>31. ASSUME ClearOld(t), fEvents[loc[t].slot] = Null PROVE Still /\ Alone /\ Books /\ Ends
  BY <1>0, <1>31 DEF ClearOld, Goto, Booked, Valid, queues, manager
<1>32. ASSUME CheckLeft(t), ~ LastTrack(t) PROVE Still /\ Alone /\ Books /\ Ends
  BY <1>0, <1>32 DEF CheckLeft, Resume, Goto, NoLocals, Booked, Valid, server, event, manager
<1>33. ASSUME GenerateNewEvent(t), ~ (fNload < NEvents) PROVE Still /\ Alone /\ Books /\ Ends
  <2>1. fNload >= NEvents
    BY <1>33, SizesAssumption DEF ServerInv, TypeInv
  <2> QED
    BY <1>0, <1>33, <2>1 DEF GenerateNewEvent, Resume, Goto, NoLocals, Booked, Valid, queues, manager
<1>34. ASSUME TakePending(t) PROVE Still /\ Alone /\ Books /\ Ends
  <2>1. /\ fPendingEvents \in Seq(Events) /\ IsInjective(fPendingEvents) /\ fPendingEvents # <<>>
        /\ fSlot \in [Events -> Slots]
    BY <1>34 DEF ServerInv, TypeInv, Places, PlaceInv, OnePlace, TakePending
  <2>2. Head(fPendingEvents) \in Events /\ Pending(Head(fPendingEvents))
    BY <2>1, TailOnce DEF Pending
  <2>3. ~ Activated(Head(fPendingEvents))
    BY <2>2 DEF Activated, Waiting
  <2>4. \A e \in Events : Activated(e) /\ e \notin fDoneEvents => fSlot'[e] = fSlot[e]
    BY <1>34, <2>1, <2>2, <2>3 DEF TakePending
  <2> QED
    BY <1>0, <1>34, <2>4 DEF TakePending, Goto, Booked, Valid, manager
<1> QED
  BY <1>1, <1>2, <1>3, <1>4, <1>5, <1>6, <1>7, <1>8, <1>9, <1>10, <1>11, <1>12, <1>13, <1>14, <1>15, <1>16, <1>17, <1>18, <1>19, <1>20, <1>21, <1>22, <1>23, <1>24, <1>25, <1>26, <1>27, <1>28, <1>29, <1>30, <1>31, <1>32, <1>33, <1>34

\* What is left of an event that is not done: fNdone never passes fNtracks, and
\* when it reaches it nothing of the event is in transport or to be dispatched.
LEMMA WhatIsLeft ==
  ASSUME ServerInv, NEW e \in Events
  PROVE  /\ IsFiniteSet(TracksOf(e)) /\ Cardinality(TracksOf(e)) \in Nat
         /\ IsFiniteSet(BookedOf(e)) /\ Cardinality(BookedOf(e)) \in Nat
         /\ Activated(e) /\ e \notin fDoneEvents =>
              /\ fNdone[e] <= fNtracks[e]
              /\ fNdone[e] = fNtracks[e] =>
                   TracksOf(e) = {} /\ BookedOf(e) = {} /\ fNdispatched[e] = Primaries[e]
<1>1. IsFiniteSet(TracksOf(e)) /\ Cardinality(TracksOf(e)) \in Nat
  BY FS_Subset, FS_CardinalityType DEF ServerInv, Accounts, AccountInv, TracksOf
<1>2. IsFiniteSet(BookedOf(e)) /\ Cardinality(BookedOf(e)) \in Nat
  BY FS_Subset, FS_CardinalityType, WorkersAssumption DEF BookedOf
<1>3. ASSUME Activated(e), e \notin fDoneEvents
      PROVE  /\ fNdone[e] <= fNtracks[e]
             /\ fNdone[e] = fNtracks[e] =>
                  TracksOf(e) = {} /\ BookedOf(e) = {} /\ fNdispatched[e] = Primaries[e]
  <2>1. /\ fNtracks[e] - fNdone[e]
             = Cardinality(TracksOf(e)) + Cardinality(BookedOf(e)) + fNprimaries[e] - fNdispatched[e]
        /\ fNprimaries[e] = Primaries[e] /\ fNdispatched[e] <= Primaries[e]
    BY <1>3 DEF ServerInv, Accounts, AccountInv, CounterInv
  <2>2. fNtracks[e] \in Nat /\ fNdone[e] \in Nat /\ fNdispatched[e] \in Nat /\ Primaries[e] \in Nat
    BY EventFacts DEF ServerInv, TypeInv, Counts
  <2>3. fNdone[e] = fNtracks[e] =>
          /\ Cardinality(TracksOf(e)) = 0 /\ Cardinality(BookedOf(e)) = 0
          /\ fNdispatched[e] = Primaries[e]
    BY <1>1, <1>2, <2>1, <2>2
  <2>4. fNdone[e] <= fNtracks[e]
    BY <1>1, <1>2, <2>1, <2>2
  <2> QED
    BY <1>1, <1>2, <2>3, <2>4, FS_EmptySet
<1> QED
  BY <1>1, <1>2, <1>3

\* An index is booked: it was the first one not given out.
LEMMA AccountsBook ==
  ASSUME ServerInv, NEW t \in Workers, Book(t)
  PROVE  Accounts'
<1>a. loc[t].ev \in Events /\ Activated(loc[t].ev) /\ pc[t] \in {"g_book", "b_book"}
  BY DEF Book, ServerInv, Places, WorkInv, AtEvent
<1>b. PICK e0 \in Events, d \in Nat : e0 = loc[t].ev /\ d = fNdispatched[e0]
  BY <1>a DEF ServerInv, TypeInv, Counts
<1>c. /\ pc \in [Workers -> Labels] /\ loc \in [Workers -> Locals]
      /\ fNdispatched \in [Events -> Nat] /\ Primaries[e0] \in Nat \ {0}
      /\ fNprimaries \in [Events -> Nat]
      /\ pc'[t] \in {"g_valid", "b_valid"} /\ \A u \in Workers : u # t => pc'[u] = pc[u]
      /\ loc' = [loc EXCEPT ![t].itr = d]
      /\ fNdispatched' = [fNdispatched EXCEPT ![e0] = Min2(d + 1, Primaries[e0])]
      /\ UNCHANGED <<fNprimaries, fNtracks, fNdone, fDoneEvents, fNload, fSlot, buffer>>
  BY <1>b, EventFacts DEF Book, Goto, Keep, ServerInv, TypeInv, Counts, server, manager
<1>d. /\ \A u \in Workers : u # t => loc'[u] = loc[u]
      /\ loc'[t].ev = e0 /\ loc'[t].itr = d /\ loc'[t].old = loc[t].old
      /\ \A e \in Events : e # e0 => fNdispatched'[e] = fNdispatched[e]
      /\ fNdispatched'[e0] = Min2(d + 1, Primaries[e0])
  BY <1>b, <1>c DEF Locals
<1>e. \A e \in Events : (Needed(e)' <=> Needed(e)) /\ (Activated(e)' <=> Activated(e))
                        /\ (Waiting(e)' <=> Waiting(e))
  BY <1>c, PlacesStill DEF GetTracks, Activated
<1>0. /\ CounterInv /\ ClearInv /\ TrackInv /\ BookedInv /\ AccountInv /\ EndInv
      /\ buffer \in [Workers -> SUBSET Tracks]
  BY DEF ServerInv, Accounts, TypeInv
<1>1. e0 \notin fDoneEvents =>
        fNprimaries[e0] = Primaries[e0] /\ d <= Primaries[e0]
  BY <1>0, <1>a, <1>b DEF CounterInv
<1>2. /\ ~ Booked(t)
      /\ Booked(t)' <=> e0 \notin fDoneEvents /\ d < Primaries[e0]
      /\ \A u \in Workers : u # t => (Booked(u)' <=> Booked(u))
  <2>1. e0 \in fDoneEvents => ~ (d < fNprimaries[e0])
    BY <1>0, <1>b, <1>c, EventFacts DEF CounterInv, Cleared
  <2>2. Booked(t)' <=> d < fNprimaries[e0]
    BY <1>b, <1>c, <1>d DEF Booked, Valid
  <2>3. Booked(t)' <=> e0 \notin fDoneEvents /\ d < Primaries[e0]
    BY <1>1, <2>1, <2>2
  <2> QED
    BY <1>a, <1>b, <1>c, <1>d, <2>3 DEF Booked, Valid
<1>3. CounterInv'
  <2>1. ASSUME NEW e \in Events, Waiting(e) PROVE e # e0
    BY <1>a, <1>b, <2>1 DEF Activated
  <2>2. e0 < fNload
    BY <1>a, <1>b DEF Activated
  <2>3. e0 \notin fDoneEvents => fNdispatched'[e0] <= Primaries[e0]
    BY <1>c, <1>d DEF Min2
  <2>4. e0 \in fDoneEvents /\ fNdispatched[e0] = Primaries[e0] => fNdispatched'[e0] = Primaries[e0]
    BY <1>b, <1>c, <1>d DEF Min2
  <2>5. fNload \in Nat
    BY DEF ServerInv, TypeInv
  <2> QED
    BY <1>0, <1>c, <1>d, <1>e, <2>1, <2>2, <2>3, <2>4, <2>5, EventFacts DEF CounterInv, Cleared, Fresh
<1>4. ClearInv'
  BY <1>0, <1>c, <1>d, <1>e DEF ClearInv, Cleared, ServerInv, TypeInv
<1>5. TrackInv'
  <2>1. \A e \in Events, i \in Nat : i < Primaries[e] /\ i < fNdispatched[e] => i < fNdispatched'[e]
    BY <1>b, <1>c, <1>d, EventFacts DEF Min2
  <2>2. ASSUME NEW u \in Workers, NEW k \in buffer[u] PROVE k.ev \in Events /\ k.id \in Nat
    BY TrackFound
  <2> QED
    BY <1>0, <1>c, <1>e, <2>1, <2>2 DEF TrackInv
<1>6. BookedInv'
  <2>1. ASSUME NEW u \in Workers, u # t, Booked(u)
        PROVE  /\ loc[u].ev \in Events /\ loc[u].ev \notin fDoneEvents
               /\ loc[u].itr < fNdispatched'[loc[u].ev] /\ loc[u].itr \in Nat
               /\ loc[u].itr < fNdispatched[loc[u].ev]
               /\ loc[u].itr < Primaries[loc[u].ev]
    <3>1. loc[u].ev \in Events /\ loc[u].itr \in Nat
      BY <2>1, LocalTypes DEF ServerInv, Places, WorkInv, Booked, AtEvent
    <3> QED
      BY <1>0, <1>b, <1>c, <1>d, <2>1, <3>1, EventFacts DEF BookedInv, Min2
  <2>2. ASSUME Booked(t)', NEW u \in Workers, NEW k \in buffer[u], k.ev = e0 PROVE k.id # d
    <3>1. k.id \in Nat /\ (k.id < Primaries[e0] => k.id < d)
      BY <1>0, <1>b, <2>2, TrackFound DEF TrackInv
    <3> QED
      BY <1>2, <1>c, <2>2, <3>1
  <2>3. ASSUME Booked(t)', NEW u \in Workers, u # t, Booked(u), loc[u].ev = e0
        PROVE  loc[u].itr # d
    BY <1>b, <2>1, <2>3
  <2>4. Booked(t)' => d < fNdispatched'[e0] /\ d < Primaries[e0] /\ e0 \notin fDoneEvents
    BY <1>2, <1>c, <1>d DEF Min2
  <2> QED
    BY <1>0, <1>2, <1>c, <1>d, <2>1, <2>2, <2>3, <2>4 DEF BookedInv
<1>7. AccountInv'
  <2>1. InTransport' = InTransport /\ \A e \in Events : TracksOf(e)' = TracksOf(e)
    BY <1>c DEF InTransport, TracksOf
  <2>2. \A e \in Events : e # e0 => BookedOf(e)' = BookedOf(e)
    BY <1>2, <1>b, <1>d DEF BookedOf
  <2>3. CASE Booked(t)'
    <3>1. BookedOf(e0)' = BookedOf(e0) \union {t} /\ t \notin BookedOf(e0)
      BY <1>2, <1>b, <1>d, <2>3 DEF BookedOf
    <3>2. Cardinality(BookedOf(e0)') = Cardinality(BookedOf(e0)) + 1
      <4>1. IsFiniteSet(BookedOf(e0))
        BY WhatIsLeft
      <4>2. Cardinality(BookedOf(e0) \union {t}) = Cardinality(BookedOf(e0)) + 1
        BY <3>1, <4>1, FS_AddElement
      <4> QED
        BY <3>1, <4>2
    <3>3. fNdispatched'[e0] = d + 1
      BY <1>2, <1>c, <1>d, <2>3 DEF Min2
    <3>4. e0 \notin fDoneEvents =>
             fNtracks[e0] - fNdone[e0]
               = Cardinality(TracksOf(e0)) + Cardinality(BookedOf(e0)) + fNprimaries[e0] - d
      BY <1>0, <1>b DEF AccountInv
    <3>5. /\ fNprimaries[e0] \in Nat /\ Cardinality(BookedOf(e0)) \in Nat /\ Cardinality(TracksOf(e0)) \in Nat
          /\ fNtracks[e0] \in Nat /\ fNdone[e0] \in Nat
      BY <1>c, WhatIsLeft DEF ServerInv, TypeInv, Counts
    <3>6. e0 \notin fDoneEvents =>
             fNtracks[e0] - fNdone[e0]
               = Cardinality(TracksOf(e0)) + (Cardinality(BookedOf(e0)) + 1) + fNprimaries[e0] - (d + 1)
      BY <3>4, <3>5
    <3> QED
      BY <1>0, <1>c, <1>d, <2>1, <2>2, <3>2, <3>3, <3>6 DEF AccountInv
  <2>4. CASE ~ Booked(t)'
    <3>1. BookedOf(e0)' = BookedOf(e0)
      BY <1>2, <1>b, <1>d, <2>4 DEF BookedOf
    <3>2. e0 \notin fDoneEvents => fNdispatched'[e0] = d
      BY <1>1, <1>2, <1>c, <1>d, <2>4 DEF Min2
    <3> QED
      BY <1>0, <1>b, <1>c, <1>d, <2>1, <2>2, <3>1, <3>2 DEF AccountInv
  <2> QED
    BY <2>3, <2>4
<1>8. EndInv'
  BY <1>0, <1>a, <1>c, <1>d DEF EndInv
<1> QED
  BY <1>3, <1>4, <1>5, <1>6, <1>7, <1>8 DEF Accounts

\* The booked primary becomes a track of the worker.
LEMMA AccountsClone ==
  ASSUME ServerInv, NEW t \in Workers, Clone(t)
  PROVE  Accounts'
<1>a. loc[t].ev \in Events /\ Activated(loc[t].ev) /\ pc[t] = "g_clone" /\ loc[t].itr \in Nat
  BY LocalTypes DEF Clone, ServerInv, Places, WorkInv, AtEvent
<1>b. PICK e0 \in Events, s0 \in Slots, i0 \in Nat : e0 = loc[t].ev /\ s0 = fSlot[e0] /\ i0 = loc[t].itr
  BY <1>a DEF ServerInv, TypeInv
<1> DEFINE k0 == [ev |-> e0, slot |-> s0, id |-> i0]
<1>c. /\ pc \in [Workers -> Labels] /\ loc \in [Workers -> Locals] /\ buffer \in [Workers -> SUBSET Tracks]
      /\ pc'[t] \in {"g_load", "step"}
      /\ \A u \in Workers : u # t => pc'[u] = pc[u] /\ loc'[u] = loc[u]
      /\ buffer' = [buffer EXCEPT ![t] = @ \union {k0}]
      /\ UNCHANGED <<fNprimaries, fNtracks, fNdone, fNdispatched, fDoneEvents, fNload, fSlot>>
  BY <1>b DEF Clone, Return, Goto, ServerInv, TypeInv, server, event, manager
<1>d. /\ k0 \in Tracks /\ k0.ev = e0 /\ k0.slot = s0 /\ k0.id = i0
      /\ \A u \in Workers, k \in Tracks : k \in buffer'[u] <=> k \in buffer[u] \/ (u = t /\ k = k0)
  BY <1>b, <1>c DEF Tracks
<1> HIDE DEF k0
<1>e. \A e \in Events : (Needed(e)' <=> Needed(e)) /\ (Activated(e)' <=> Activated(e))
                        /\ (Waiting(e)' <=> Waiting(e))
  BY <1>c, PlacesStill DEF GetTracks, Activated
<1>0. /\ CounterInv /\ ClearInv /\ TrackInv /\ BookedInv /\ AccountInv /\ EndInv
      /\ fNtracks \in [Events -> Nat]
  BY DEF ServerInv, Accounts, TypeInv, Counts
<1>1. /\ Booked(t) /\ ~ Booked(t)'
      /\ \A u \in Workers : u # t => (Booked(u)' <=> Booked(u))
  BY <1>a, <1>c DEF Booked, Valid
<1>2. /\ e0 \notin fDoneEvents /\ i0 < fNdispatched[e0] /\ i0 < Primaries[e0] /\ i0 < fNtracks[e0]
      /\ \A u \in Workers : \A k \in buffer[u] : k.ev = e0 => k.id # i0
      /\ \A u \in Workers : u # t /\ Booked(u) /\ loc[u].ev = e0 => loc[u].itr # i0
  <2>1. /\ e0 \notin fDoneEvents /\ i0 < fNdispatched[e0] /\ i0 < Primaries[e0]
        /\ \A u \in Workers : \A k \in buffer[u] : k.ev = e0 => k.id # i0
        /\ \A u \in Workers : u # t /\ Booked(u) /\ loc[u].ev = e0 => loc[u].itr # i0
    BY <1>0, <1>1, <1>b DEF BookedInv
  <2>2. i0 < fNtracks[e0]
    BY <1>0, <1>a, <1>b, <2>1, EventFacts DEF CounterInv
  <2> QED
    BY <2>1, <2>2
<1>3. \A u \in Workers : k0 \notin buffer[u]
  BY <1>2, <1>d
<1>4. CounterInv' /\ ClearInv'
  <2>1. CounterInv'
    BY <1>0, <1>c, <1>e DEF CounterInv, Cleared, Fresh
  <2>2. fDoneEvents \subseteq Events
    BY DEF ServerInv, TypeInv
  <2>3. ClearInv'
    BY <1>0, <1>c, <1>e, <2>2 DEF ClearInv, Cleared
  <2> QED
    BY <2>1, <2>3
<1>5. TrackInv'
  <2>1. ASSUME NEW u \in Workers, NEW v \in Workers, u # v PROVE buffer'[u] \cap buffer'[v] = {}
    BY <1>0, <1>3, <1>c, <2>1 DEF TrackInv
  <2>2. ASSUME NEW u \in Workers, NEW k \in buffer'[u]
        PROVE  /\ Activated(k.ev)' /\ k.ev \notin fDoneEvents'
               /\ k.slot = fSlot'[k.ev]
               /\ k.id < fNtracks'[k.ev]
               /\ k.id < Primaries[k.ev] => k.id < fNdispatched'[k.ev]
    <3>1. CASE k \in buffer[u]
      BY <1>0, <1>c, <1>e, <3>1, TrackFound DEF TrackInv
    <3>2. CASE k = k0
      BY <1>2, <1>a, <1>b, <1>c, <1>d, <1>e, <3>2
    <3> QED
      BY <1>c, <2>2, <3>1, <3>2
  <2> QED
    BY <2>1, <2>2 DEF TrackInv
<1>6. BookedInv'
  <2>1. ASSUME NEW u \in Workers, Booked(u)', NEW v \in Workers, NEW k \in buffer'[v], k.ev = loc[u].ev
        PROVE  k.id # loc[u].itr
    <3>1. u # t /\ Booked(u)
      BY <1>1, <2>1
    <3>2. CASE k \in buffer[v]
      BY <1>0, <2>1, <3>1, <3>2 DEF BookedInv
    <3>3. CASE k = k0
      BY <1>2, <1>d, <2>1, <3>1, <3>3
    <3> QED
      BY <1>c, <2>1, <3>2, <3>3
  <2> QED
    BY <1>0, <1>1, <1>c, <2>1 DEF BookedInv
<1>7. AccountInv'
  <2>1. InTransport' = InTransport \union {k0}
    <3>1. /\ \A u \in Workers : buffer'[u] = IF u = t THEN buffer[u] \union {k0} ELSE buffer[u]
      BY <1>c
    <3> QED
      BY <3>1 DEF InTransport
  <2>2. /\ \A e \in Events : e # e0 => TracksOf(e)' = TracksOf(e)
        /\ TracksOf(e0)' = TracksOf(e0) \union {k0} /\ k0 \notin TracksOf(e0)
    BY <1>3, <1>d, <2>1 DEF TracksOf, InTransport
  <2>3. /\ \A e \in Events : e # e0 => BookedOf(e)' = BookedOf(e)
        /\ BookedOf(e0)' = BookedOf(e0) \ {t} /\ t \in BookedOf(e0)
    BY <1>1, <1>b, <1>c DEF BookedOf
  <2>4. IsFiniteSet(InTransport')
    BY <1>0, <2>1, FS_AddElement DEF AccountInv
  <2>5. IsFiniteSet(TracksOf(e0)) /\ IsFiniteSet(BookedOf(e0))
    BY WhatIsLeft
  <2>6. /\ Cardinality(TracksOf(e0) \union {k0}) = Cardinality(TracksOf(e0)) + 1
        /\ Cardinality(BookedOf(e0) \ {t}) = Cardinality(BookedOf(e0)) - 1
    BY <2>2, <2>3, <2>5, FS_AddElement, FS_RemoveElement
  <2>7. /\ Cardinality(TracksOf(e0)') = Cardinality(TracksOf(e0)) + 1
        /\ Cardinality(BookedOf(e0)') = Cardinality(BookedOf(e0)) - 1
    BY <2>2, <2>3, <2>6
  <2>8. Cardinality(TracksOf(e0)) \in Nat /\ Cardinality(BookedOf(e0)) \in Nat
    BY WhatIsLeft
  <2>9. Cardinality(TracksOf(e0)') + Cardinality(BookedOf(e0)')
          = Cardinality(TracksOf(e0)) + Cardinality(BookedOf(e0))
    BY <2>7, <2>8
  <2>10. ASSUME NEW e \in Events, e \notin fDoneEvents
         PROVE  fNtracks[e] - fNdone[e]
                  = Cardinality(TracksOf(e)') + Cardinality(BookedOf(e)') + fNprimaries[e] - fNdispatched[e]
    BY <1>0, <2>2, <2>3, <2>9, <2>10 DEF AccountInv
  <2> QED
    BY <1>c, <2>4, <2>10 DEF AccountInv
<1>8. EndInv'
  BY <1>0, <1>a, <1>c DEF EndInv
<1> QED
  BY <1>4, <1>5, <1>6, <1>7, <1>8 DEF Accounts

\* A secondary is added: its index is the number of tracks so far.
LEMMA AccountsAddTrack ==
  ASSUME ServerInv, NEW t \in Workers, NEW k1 \in buffer[t], AddTrack(t, k1)
  PROVE  Accounts'
<1>a. /\ k1 \in Tracks /\ k1.ev \in Events /\ k1.slot = fSlot[k1.ev] /\ fEvents[k1.slot] = k1.ev
      /\ Activated(k1.ev) /\ k1.ev \notin fDoneEvents /\ k1 \in InTransport
  BY TrackFound
<1>b. PICK e0 \in Events, s0 \in Slots, i0 \in Nat : e0 = k1.ev /\ s0 = fSlot[e0] /\ i0 = fNtracks[e0]
  BY <1>a DEF ServerInv, TypeInv, Counts
<1> DEFINE k0 == [ev |-> e0, slot |-> s0, id |-> i0]
<1>c. /\ pc' = pc /\ loc' = loc /\ buffer \in [Workers -> SUBSET Tracks]
      /\ fNtracks \in [Events -> Nat] /\ fNtracks' = [fNtracks EXCEPT ![e0] = i0 + 1]
      /\ UNCHANGED <<fNprimaries, fNdone, fNdispatched, fDoneEvents, fNload, fSlot>>
  <2>1. fEvents[k1.slot] = e0
    BY <1>a, <1>b
  <2> QED
    BY <1>b, <2>1 DEF AddTrack, ServerInv, TypeInv, Counts, server, manager
<1>f. buffer' = [buffer EXCEPT ![t] = @ \union {k0}]
  <2>1. [k1 EXCEPT !.id = fNtracks[fEvents[k1.slot]]] = k0
    BY <1>a, <1>b DEF Tracks
  <2> QED
    BY <2>1 DEF AddTrack
<1>d. /\ k0 \in Tracks /\ k0.ev = e0 /\ k0.slot = s0 /\ k0.id = i0
      /\ \A u \in Workers, k \in Tracks : k \in buffer'[u] <=> k \in buffer[u] \/ (u = t /\ k = k0)
  BY <1>b, <1>c, <1>f DEF Tracks
<1> HIDE DEF k0
<1>e. \A e \in Events : (Needed(e)' <=> Needed(e)) /\ (Activated(e)' <=> Activated(e))
                        /\ (Waiting(e)' <=> Waiting(e))
  BY <1>c, PlacesStill DEF Activated
<1>0. /\ CounterInv /\ ClearInv /\ TrackInv /\ BookedInv /\ AccountInv /\ EndInv
      /\ e0 \notin fDoneEvents /\ Activated(e0)
  BY <1>a, <1>b DEF ServerInv, Accounts
<1>1. /\ \A u \in Workers : Booked(u)' <=> Booked(u)
      /\ \A e \in Events : BookedOf(e)' = BookedOf(e)
  <2>1. \A u \in Workers : Booked(u)' <=> Booked(u)
    BY <1>c DEF Booked, Valid
  <2> QED
    BY <1>c, <2>1 DEF BookedOf
<1>2. Primaries[e0] \in Nat /\ Primaries[e0] <= i0
  BY <1>0, <1>b, EventFacts DEF CounterInv
<1>3. \A u \in Workers : k0 \notin buffer[u]
  <2>1. ASSUME NEW u \in Workers, k0 \in buffer[u] PROVE FALSE
    BY <1>0, <1>b, <1>d, <2>1 DEF TrackInv
  <2> QED
    BY <2>1
<1>4. CounterInv' /\ ClearInv'
  <2>1. CounterInv'
    <3>1. ~ Waiting(e0) /\ e0 < fNload /\ fNload \in Nat
      BY <1>0 DEF Activated, ServerInv, TypeInv
    <3>2. fNtracks'[e0] >= Primaries[e0]
      BY <1>2, <1>c
    <3>3. \A e \in Events : e # e0 => fNtracks'[e] = fNtracks[e]
      BY <1>c
    <3> QED
      BY <1>0, <1>c, <1>e, <3>1, <3>2, <3>3, EventFacts DEF CounterInv, Cleared, Fresh
  <2>2. fDoneEvents \subseteq Events
    BY DEF ServerInv, TypeInv
  <2>3. ClearInv'
    BY <1>0, <1>c, <1>e, <2>2 DEF ClearInv, Cleared
  <2> QED
    BY <2>1, <2>3
<1>5. TrackInv'
  <2>1. ASSUME NEW u \in Workers, NEW v \in Workers, u # v PROVE buffer'[u] \cap buffer'[v] = {}
    BY <1>0, <1>3, <1>c, <1>f, <2>1 DEF TrackInv
  <2>2. ASSUME NEW u \in Workers, NEW k \in buffer'[u]
        PROVE  /\ Activated(k.ev)' /\ k.ev \notin fDoneEvents'
               /\ k.slot = fSlot'[k.ev]
               /\ k.id < fNtracks'[k.ev]
               /\ k.id < Primaries[k.ev] => k.id < fNdispatched'[k.ev]
    <3>1. CASE k \in buffer[u]
      <4>1. k.ev \in Events /\ k.id \in Nat
        BY <3>1, TrackFound
      <4>2. k.id < fNtracks'[k.ev]
        BY <1>0, <1>b, <1>c, <3>1, <4>1 DEF TrackInv
      <4> QED
        BY <1>0, <1>c, <1>e, <3>1, <4>1, <4>2 DEF TrackInv
    <3>2. CASE k = k0
      BY <1>0, <1>2, <1>b, <1>c, <1>d, <1>e, <3>2
    <3> QED
      BY <1>c, <1>f, <2>2, <3>1, <3>2
  <2> QED
    BY <2>1, <2>2 DEF TrackInv
<1>6. BookedInv'
  <2>1. ASSUME NEW u \in Workers, Booked(u), NEW v \in Workers, NEW k \in buffer'[v], k.ev = loc[u].ev
        PROVE  k.id # loc[u].itr
    <3>1. loc[u].itr \in Nat
      BY LocalTypes DEF ServerInv
    <3>2. CASE k \in buffer[v]
      BY <1>0, <2>1, <3>2 DEF BookedInv
    <3>3. CASE k = k0
      <4>1. loc[u].itr < Primaries[e0]
        BY <1>0, <1>d, <2>1, <3>3 DEF BookedInv
      <4> QED
        BY <1>2, <1>d, <3>1, <3>3, <4>1
    <3> QED
      BY <1>c, <1>f, <2>1, <3>2, <3>3
  <2> QED
    BY <1>0, <1>1, <1>c, <2>1 DEF BookedInv
<1>7. AccountInv'
  <2>1. InTransport' = InTransport \union {k0}
    <3>1. /\ \A u \in Workers : buffer'[u] = IF u = t THEN buffer[u] \union {k0} ELSE buffer[u]
      BY <1>c, <1>f
    <3> QED
      BY <3>1 DEF InTransport
  <2>2. /\ \A e \in Events : e # e0 => TracksOf(e)' = TracksOf(e)
        /\ TracksOf(e0)' = TracksOf(e0) \union {k0} /\ k0 \notin TracksOf(e0)
    BY <1>3, <1>d, <2>1 DEF TracksOf, InTransport
  <2>3. IsFiniteSet(InTransport')
    BY <1>0, <2>1, FS_AddElement DEF AccountInv
  <2>4. IsFiniteSet(TracksOf(e0)) /\ Cardinality(TracksOf(e0)) \in Nat /\ Cardinality(BookedOf(e0)) \in Nat
    BY WhatIsLeft
  <2>5. Cardinality(TracksOf(e0) \union {k0}) = Cardinality(TracksOf(e0)) + 1
    BY <2>2, <2>4, FS_AddElement
  <2>6. Cardinality(TracksOf(e0)') = Cardinality(TracksOf(e0)) + 1
    BY <2>2, <2>5
  <2>7. fNtracks'[e0] - fNdone[e0]
          = Cardinality(TracksOf(e0)') + Cardinality(BookedOf(e0)) + fNprimaries[e0] - fNdispatched[e0]
    <3>1. i0 - fNdone[e0]
            = Cardinality(TracksOf(e0)) + Cardinality(BookedOf(e0)) + fNprimaries[e0] - fNdispatched[e0]
      BY <1>0, <1>b DEF AccountInv
    <3>2. fNdone[e0] \in Nat /\ fNprimaries[e0] \in Nat /\ fNdispatched[e0] \in Nat
      BY DEF ServerInv, TypeInv, Counts
    <3>3. fNtracks'[e0] = i0 + 1
      BY <1>c
    <3> QED
      BY <2>4, <2>6, <3>1, <3>2, <3>3
  <2>8. ASSUME NEW e \in Events, e \notin fDoneEvents
        PROVE  fNtracks'[e] - fNdone[e]
                 = Cardinality(TracksOf(e)') + Cardinality(BookedOf(e)') + fNprimaries[e] - fNdispatched[e]
    BY <1>0, <1>1, <1>c, <2>2, <2>7, <2>8 DEF AccountInv
  <2> QED
    BY <1>c, <2>3, <2>8 DEF AccountInv
<1>8. EndInv'
  <2>1. ASSUME NEW u \in Workers, pc[u] = "t_done" PROVE loc[u].ev \in Events /\ loc[u].ev # e0
    <3>1. /\ loc[u].ev \in Events /\ Activated(loc[u].ev) /\ loc[u].ev \notin fDoneEvents
          /\ fNdone[loc[u].ev] = fNtracks[loc[u].ev]
      BY <1>0, <2>1 DEF EndInv, ServerInv, Places, WorkInv, AtEvent
    <3>2. TracksOf(loc[u].ev) = {}
      BY <3>1, WhatIsLeft
    <3>3. k1 \in TracksOf(e0)
      BY <1>a, <1>b DEF TracksOf
    <3> QED
      BY <3>1, <3>2, <3>3
  <2>2. \A e \in Events : e # e0 => fNtracks'[e] = fNtracks[e]
    BY <1>c
  <2>3. ASSUME NEW u \in Workers, pc[u] = "s_left"
        PROVE  loc[u].ev \in fDoneEvents => loc[u].n # fNtracks'[loc[u].ev]
    BY <1>0, <2>2, <2>3 DEF EndInv, ServerInv, TypeInv
  <2> QED
    BY <1>0, <1>c, <2>1, <2>2, <2>3 DEF EndInv
<1> QED
  BY <1>4, <1>5, <1>6, <1>7, <1>8 DEF Accounts

\* A track is stopped: its worker gets a count that nobody got before.
LEMMA AccountsStopTrack ==
  ASSUME ServerInv, NEW t \in Workers, NEW k0 \in buffer[t], StopTrack(t, k0)
  PROVE  Accounts'
<1>a. /\ k0 \in Tracks /\ k0.ev \in Events /\ fEvents[k0.slot] = k0.ev
      /\ Activated(k0.ev) /\ k0.ev \notin fDoneEvents /\ k0 \in InTransport
  BY TrackFound
<1>b. PICK e0 \in Events, n0 \in Nat : e0 = k0.ev /\ n0 = fNdone[e0]
  BY <1>a DEF ServerInv, TypeInv, Counts
<1>g. fEvents[k0.slot] = e0
  BY <1>a, <1>b
<1>c. /\ pc \in [Workers -> Labels] /\ loc \in [Workers -> Locals] /\ buffer \in [Workers -> SUBSET Tracks]
      /\ pc[t] \in {"step", "flush"}
      /\ pc' = [pc EXCEPT ![t] = "s_left"]
      /\ loc' = [loc EXCEPT ![t].ev = e0, ![t].n = n0 + 1]
      /\ buffer' = [buffer EXCEPT ![t] = @ \ {k0}]
      /\ fNdone \in [Events -> Nat] /\ fNdone' = [fNdone EXCEPT ![e0] = n0 + 1]
      /\ UNCHANGED <<fNprimaries, fNtracks, fNdispatched, fDoneEvents, fNload, fSlot>>
  BY <1>b, <1>g DEF StopTrack, Stepping, Goto, ServerInv, TypeInv, Counts, server, manager
<1>d. /\ \A u \in Workers : u # t => pc'[u] = pc[u] /\ loc'[u] = loc[u]
      /\ pc'[t] = "s_left" /\ loc'[t].ev = e0 /\ loc'[t].n = n0 + 1
      /\ \A e \in Events : e # e0 => fNdone'[e] = fNdone[e]
      /\ fNdone'[e0] = n0 + 1
  BY <1>c DEF Locals
<1>e. \A e \in Events : (Needed(e)' <=> Needed(e)) /\ (Activated(e)' <=> Activated(e))
                        /\ (Waiting(e)' <=> Waiting(e))
  BY <1>c, PlacesStill DEF Activated
<1>0. /\ CounterInv /\ ClearInv /\ TrackInv /\ BookedInv /\ AccountInv /\ EndInv
      /\ e0 \notin fDoneEvents /\ Activated(e0)
      /\ fDoneEvents \subseteq Events
  BY <1>a, <1>b DEF ServerInv, Accounts, TypeInv
<1>1. /\ \A u \in Workers : /\ Booked(u)' <=> Booked(u)
                            /\ Booked(u) => loc'[u] = loc[u]
      /\ \A e \in Events : BookedOf(e)' = BookedOf(e)
  <2>1. \A u \in Workers : /\ Booked(u)' <=> Booked(u)
                           /\ Booked(u) => loc'[u] = loc[u]
    BY <1>c, <1>d DEF Booked, Valid
  <2> QED
    BY <2>1 DEF BookedOf
<1>2. \A u \in Workers : u # t => k0 \notin buffer[u]
  BY <1>0 DEF TrackInv
<1>3. \A u \in Workers : buffer'[u] = IF u = t THEN buffer[u] \ {k0} ELSE buffer[u]
  BY <1>c
<1>4. CounterInv' /\ ClearInv'
  <2>1. CounterInv'
    <3>1. ~ Waiting(e0) /\ e0 < fNload /\ fNload \in Nat
      BY <1>0 DEF Activated, ServerInv, TypeInv
    <3> QED
      BY <1>0, <1>c, <1>d, <1>e, <3>1, EventFacts DEF CounterInv, Cleared, Fresh
  <2>3. ClearInv'
    BY <1>0, <1>c, <1>d, <1>e DEF ClearInv, Cleared
  <2> QED
    BY <2>1, <2>3
<1>5. TrackInv'
  <2>1. \A u, v \in Workers : u # v => buffer'[u] \cap buffer'[v] = {}
    BY <1>0, <1>3 DEF TrackInv
  <2>2. ASSUME NEW u \in Workers, NEW k \in buffer'[u]
        PROVE  k \in buffer[u] /\ k.ev \in Events
    BY <1>3, <2>2, TrackFound
  <2> QED
    BY <1>0, <1>c, <1>e, <2>1, <2>2 DEF TrackInv
<1>6. BookedInv'
  <2>1. ASSUME NEW u \in Workers, Booked(u), NEW v \in Workers, NEW k \in buffer'[v], k.ev = loc[u].ev
        PROVE  k.id # loc[u].itr
    <3>1. k \in buffer[v]
      BY <1>3, <2>1
    <3> QED
      BY <1>0, <2>1, <3>1 DEF BookedInv
  <2>2. ASSUME NEW u \in Workers, Booked(u), NEW v \in Workers, u # v, Booked(v), loc[v].ev = loc[u].ev
        PROVE  loc[v].itr # loc[u].itr
    BY <1>0, <2>2 DEF BookedInv
  <2>3. ASSUME NEW u \in Workers, Booked(u)
        PROVE  /\ loc[u].ev \notin fDoneEvents
               /\ loc[u].itr < fNdispatched[loc[u].ev]
               /\ loc[u].itr < Primaries[loc[u].ev]
    BY <1>0, <2>3 DEF BookedInv
  <2>4. ASSUME NEW u \in Workers, Booked(u)'
        PROVE  /\ loc'[u].ev \notin fDoneEvents'
               /\ loc'[u].itr < fNdispatched'[loc'[u].ev]
               /\ loc'[u].itr < Primaries[loc'[u].ev]
               /\ \A v \in Workers : \A k \in buffer'[v] : k.ev = loc'[u].ev => k.id # loc'[u].itr
               /\ \A v \in Workers \ {u} : Booked(v)' /\ loc'[v].ev = loc'[u].ev => loc'[v].itr # loc'[u].itr
    <3>1. Booked(u) /\ loc'[u] = loc[u]
      BY <1>1, <2>4
    <3>2. ASSUME NEW v \in Workers \ {u}, Booked(v)', loc'[v].ev = loc'[u].ev
          PROVE  loc'[v].itr # loc'[u].itr
      BY <1>1, <2>2, <3>1, <3>2
    <3>3. ASSUME NEW v \in Workers, NEW k \in buffer'[v], k.ev = loc'[u].ev PROVE k.id # loc'[u].itr
      BY <2>1, <3>1, <3>3
    <3>4. fDoneEvents' = fDoneEvents /\ fNdispatched' = fNdispatched
      BY <1>c
    <3>5. /\ loc'[u].ev \notin fDoneEvents'
          /\ loc'[u].itr < fNdispatched'[loc'[u].ev]
          /\ loc'[u].itr < Primaries[loc'[u].ev]
      BY <2>3, <3>1, <3>4
    <3> QED
      BY <3>2, <3>3, <3>5
  <2> QED
    BY <2>4 DEF BookedInv
<1>7. AccountInv'
  <2>1. InTransport' = InTransport \ {k0}
    BY <1>2, <1>3 DEF InTransport
  <2>2. /\ \A e \in Events : e # e0 => TracksOf(e)' = TracksOf(e)
        /\ TracksOf(e0)' = TracksOf(e0) \ {k0} /\ k0 \in TracksOf(e0)
    BY <1>a, <1>b, <2>1 DEF TracksOf
  <2>3. IsFiniteSet(InTransport')
    BY <1>0, <2>1, FS_RemoveElement DEF AccountInv
  <2>4. IsFiniteSet(TracksOf(e0)) /\ Cardinality(TracksOf(e0)) \in Nat /\ Cardinality(BookedOf(e0)) \in Nat
    BY WhatIsLeft
  <2>5. Cardinality(TracksOf(e0) \ {k0}) = Cardinality(TracksOf(e0)) - 1
    BY <2>2, <2>4, FS_RemoveElement
  <2>6. Cardinality(TracksOf(e0)') = Cardinality(TracksOf(e0)) - 1
    BY <2>2, <2>5
  <2>7. fNtracks[e0] - fNdone'[e0]
          = Cardinality(TracksOf(e0)') + Cardinality(BookedOf(e0)) + fNprimaries[e0] - fNdispatched[e0]
    <3>1. fNtracks[e0] - n0
            = Cardinality(TracksOf(e0)) + Cardinality(BookedOf(e0)) + fNprimaries[e0] - fNdispatched[e0]
      BY <1>0, <1>b DEF AccountInv
    <3>2. fNtracks[e0] \in Nat /\ fNprimaries[e0] \in Nat /\ fNdispatched[e0] \in Nat
      BY DEF ServerInv, TypeInv, Counts
    <3> QED
      BY <1>d, <2>4, <2>6, <3>1, <3>2
  <2>8. ASSUME NEW e \in Events, e \notin fDoneEvents
        PROVE  fNtracks[e] - fNdone'[e]
                 = Cardinality(TracksOf(e)') + Cardinality(BookedOf(e)') + fNprimaries[e] - fNdispatched[e]
    BY <1>0, <1>1, <1>d, <2>2, <2>7, <2>8 DEF AccountInv
  <2> QED
    BY <1>c, <2>3, <2>8 DEF AccountInv
<1>8. EndInv'
  <2>1. ASSUME NEW u \in Workers, pc[u] = "t_done" PROVE loc[u].ev \in Events /\ loc[u].ev # e0
    <3>1. /\ loc[u].ev \in Events /\ Activated(loc[u].ev) /\ loc[u].ev \notin fDoneEvents
          /\ fNdone[loc[u].ev] = fNtracks[loc[u].ev]
      BY <1>0, <2>1 DEF EndInv, ServerInv, Places, WorkInv, AtEvent
    <3>2. TracksOf(loc[u].ev) = {}
      BY <3>1, WhatIsLeft
    <3>3. k0 \in TracksOf(e0)
      BY <1>a, <1>b DEF TracksOf
    <3> QED
      BY <3>1, <3>2, <3>3
  <2>2. ASSUME NEW u \in Workers, u # t, pc[u] = "s_left"
        PROVE  /\ loc[u].ev \in Events /\ loc[u].n \in Nat
               /\ loc[u].ev = e0 => loc[u].n <= n0
    BY <1>0, <1>b, <2>2, LocalTypes DEF EndInv, ServerInv, Places, WorkInv, AtEvent
  <2>3. ASSUME NEW u \in Workers, pc'[u] = "s_left"
        PROVE  /\ loc'[u].n > 0
               /\ loc'[u].ev \notin fDoneEvents => loc'[u].n <= fNdone'[loc'[u].ev]
               /\ loc'[u].ev \in fDoneEvents => loc'[u].n # fNtracks[loc'[u].ev]
    BY <1>0, <1>b, <1>d, <2>2, <2>3 DEF EndInv
  <2>4. ASSUME NEW u \in Workers, pc'[u] = "t_done"
        PROVE  /\ loc'[u].ev \notin fDoneEvents
               /\ loc'[u].n = fNtracks[loc'[u].ev] /\ loc'[u].n = fNdone'[loc'[u].ev]
    BY <1>0, <1>d, <2>1, <2>4 DEF EndInv
  <2>5. ASSUME NEW u \in Workers, NEW v \in Workers, u # v,
               {pc'[u], pc'[v]} \subseteq {"s_left", "t_done"}, loc'[u].ev = loc'[v].ev
        PROVE  loc'[u].n # loc'[v].n
    <3>1. CASE u # t /\ v # t
      BY <1>0, <1>d, <2>5, <3>1 DEF EndInv
    <3>2. CASE u = t
      BY <1>b, <1>d, <2>1, <2>2, <2>5, <3>2
    <3>3. CASE v = t
      BY <1>b, <1>d, <2>1, <2>2, <2>5, <3>3
    <3> QED
      BY <3>1, <3>2, <3>3
  <2> QED
    BY <1>0, <1>c, <1>d, <2>3, <2>4, <2>5 DEF EndInv
<1> QED
  BY <1>4, <1>5, <1>6, <1>7, <1>8 DEF Accounts

\* The worker that stopped the last track of its event knows it.
LEMMA AccountsLast ==
  ASSUME ServerInv, NEW t \in Workers, CheckLeft(t), LastTrack(t)
  PROVE  Accounts'
<1>a. /\ loc[t].ev \in Events /\ Activated(loc[t].ev) /\ pc[t] = "s_left" /\ loc[t].n \in Nat
      /\ fNtracks[loc[t].ev] \in Nat /\ fNdone[loc[t].ev] \in Nat
  BY LocalTypes DEF CheckLeft, ServerInv, Places, WorkInv, AtEvent, TypeInv, Counts
<1>c. /\ pc \in [Workers -> Labels] /\ pc' = [pc EXCEPT ![t] = "t_done"] /\ loc' = loc
      /\ UNCHANGED <<fNprimaries, fNtracks, fNdone, fNdispatched, fDoneEvents, fNload, fSlot, buffer>>
  BY DEF CheckLeft, Goto, ServerInv, TypeInv, server, event, manager
<1>0. /\ CounterInv /\ ClearInv /\ TrackInv /\ BookedInv /\ AccountInv /\ EndInv
      /\ fDoneEvents \subseteq Events
  BY DEF ServerInv, Accounts, TypeInv
<1>e. \A e \in Events : (Needed(e)' <=> Needed(e)) /\ (Activated(e)' <=> Activated(e))
                        /\ (Waiting(e)' <=> Waiting(e))
  BY <1>c, PlacesStill DEF Activated
<1>1. /\ loc[t].n = fNtracks[loc[t].ev] /\ loc[t].ev \notin fDoneEvents
      /\ loc[t].n = fNdone[loc[t].ev]
  <2>1. loc[t].n = fNtracks[loc[t].ev]
    BY <1>a DEF LastTrack, InFlight
  <2>2. loc[t].ev \notin fDoneEvents /\ loc[t].n <= fNdone[loc[t].ev]
    BY <1>0, <1>a, <2>1 DEF EndInv
  <2>3. fNdone[loc[t].ev] <= fNtracks[loc[t].ev]
    BY <1>a, <2>2, WhatIsLeft
  <2> QED
    BY <1>a, <2>1, <2>2, <2>3
<1>2. /\ \A u \in Workers : Booked(u)' <=> Booked(u)
      /\ \A e \in Events : BookedOf(e)' = BookedOf(e) /\ TracksOf(e)' = TracksOf(e)
      /\ InTransport' = InTransport
  <2>1. \A u \in Workers : Booked(u)' <=> Booked(u)
    BY <1>a, <1>c DEF Booked, Valid
  <2> QED
    BY <1>c, <2>1 DEF BookedOf, TracksOf, InTransport
<1>3. CounterInv'
  BY <1>0, <1>c, <1>e DEF CounterInv, Cleared, Fresh
<1>4. ClearInv'
  BY <1>0, <1>c, <1>e DEF ClearInv, Cleared
<1>5. TrackInv'
  BY <1>0, <1>c, <1>e, TrackFound DEF TrackInv
<1>6. BookedInv'
  BY <1>0, <1>2, <1>c DEF BookedInv
<1>7. AccountInv'
  BY <1>0, <1>2, <1>c DEF AccountInv
<1>8. EndInv'
  <2>1. \A u \in Workers : u # t => pc'[u] = pc[u]
    BY <1>c
  <2>2. pc'[t] = "t_done"
    BY <1>c
  <2>3. ASSUME NEW u \in Workers \ {t}, pc[u] \in {"s_left", "t_done"}, loc[u].ev = loc[t].ev
        PROVE  loc[u].n # loc[t].n
    BY <1>0, <1>a, <2>3 DEF EndInv
  <2>4. ASSUME NEW u \in Workers, pc'[u] = "t_done"
        PROVE  /\ loc[u].ev \notin fDoneEvents
               /\ loc[u].n = fNtracks[loc[u].ev] /\ loc[u].n = fNdone[loc[u].ev]
    BY <1>0, <1>1, <2>1, <2>4 DEF EndInv
  <2>5. ASSUME NEW u \in Workers, NEW v \in Workers \ {u},
               {pc'[u], pc'[v]} \subseteq {"s_left", "t_done"}, loc[u].ev = loc[v].ev
        PROVE  loc[u].n # loc[v].n
    <3>1. CASE u # t /\ v # t
      BY <1>0, <2>1, <2>5, <3>1 DEF EndInv
    <3>2. CASE u = t \/ v = t
      BY <2>1, <2>3, <2>5, <3>2
    <3> QED
      BY <3>1, <3>2
  <2> QED
    BY <1>0, <1>c, <2>1, <2>2, <2>4, <2>5 DEF EndInv
<1> QED
  BY <1>3, <1>4, <1>5, <1>6, <1>7, <1>8 DEF Accounts

\* The event is done: nothing of it is left, and no other worker of it got the
\* number of its tracks.
LEMMA AccountsTransported ==
  ASSUME ServerInv, NEW t \in Workers, EventTransported(t)
  PROVE  Accounts'
<1>a. /\ loc[t].ev \in Events /\ Activated(loc[t].ev) /\ pc[t] = "t_done"
  BY DEF EventTransported, ServerInv, Places, WorkInv, AtEvent
<1>b. PICK e0 \in Events : e0 = loc[t].ev
  BY <1>a
<1>c. /\ pc \in [Workers -> Labels] /\ pc' = [pc EXCEPT ![t] = "t_slot"] /\ loc' = loc
      /\ fDoneEvents' = fDoneEvents \union {e0}
      /\ UNCHANGED <<fNprimaries, fNtracks, fNdone, fNdispatched, fNload, fSlot, buffer>>
  BY <1>b DEF EventTransported, Goto, ServerInv, TypeInv, server, event
<1>0. /\ CounterInv /\ ClearInv /\ TrackInv /\ BookedInv /\ AccountInv /\ EndInv
      /\ fDoneEvents \subseteq Events
  BY DEF ServerInv, Accounts, TypeInv
<1>e. \A e \in Events : (Needed(e)' <=> Needed(e)) /\ (Activated(e)' <=> Activated(e))
                        /\ (Waiting(e)' <=> Waiting(e))
  BY <1>c, PlacesTransported DEF Activated
<1>1. /\ e0 \notin fDoneEvents /\ Activated(e0) /\ fNdone[e0] = fNtracks[e0]
      /\ loc[t].n = fNtracks[e0]
  BY <1>0, <1>a, <1>b DEF EndInv
<1>2. /\ TracksOf(e0) = {} /\ BookedOf(e0) = {} /\ fNdispatched[e0] = Primaries[e0]
      /\ fNprimaries[e0] = Primaries[e0] /\ fNtracks[e0] >= Primaries[e0]
      /\ Primaries[e0] \in Nat \ {0} /\ fNtracks[e0] \in Nat
  BY <1>0, <1>1, WhatIsLeft, EventFacts DEF CounterInv, ServerInv, TypeInv, Counts
<1>3. /\ \A u \in Workers : Booked(u)' <=> Booked(u)
      /\ \A e \in Events : BookedOf(e)' = BookedOf(e) /\ TracksOf(e)' = TracksOf(e)
      /\ InTransport' = InTransport
  <2>1. \A u \in Workers : Booked(u)' <=> Booked(u)
    BY <1>a, <1>c DEF Booked, Valid
  <2> QED
    BY <1>c, <2>1 DEF BookedOf, TracksOf, InTransport
<1>4. CounterInv'
  <2>1. ~ Waiting(e0) /\ e0 < fNload
    BY <1>1 DEF Activated
  <2>2. fNdone[e0] > 0
    BY <1>1, <1>2
  <2> QED
    BY <1>0, <1>1, <1>2, <1>c, <1>e, <2>1, <2>2 DEF CounterInv, Cleared, Fresh
<1>5. ClearInv'
  BY <1>0, <1>c, <1>e DEF ClearInv, Cleared
<1>6. TrackInv'
  <2>1. ASSUME NEW u \in Workers, NEW k \in buffer[u] PROVE k.ev \in Events /\ k.ev # e0
    <3>1. k \in InTransport /\ k.ev \in Events
      BY TrackFound
    <3> QED
      BY <1>2, <3>1 DEF TracksOf
  <2> QED
    BY <1>0, <1>c, <1>e, <2>1 DEF TrackInv
<1>7. BookedInv'
  <2>1. \A u \in Workers : Booked(u) => loc[u].ev # e0
    BY <1>2 DEF BookedOf
  <2> QED
    BY <1>0, <1>3, <1>c, <2>1 DEF BookedInv
<1>8. AccountInv'
  BY <1>0, <1>3, <1>c DEF AccountInv
<1>9. EndInv'
  <2>1. ASSUME NEW u \in Workers, u # t, pc[u] \in {"s_left", "t_done"}
        PROVE  loc[u].ev = e0 => loc[u].n # fNtracks[e0] /\ pc[u] = "s_left"
    BY <1>0, <1>1, <1>a, <1>b, <2>1 DEF EndInv
  <2>2. ASSUME NEW u \in Workers, pc[u] = "t_slot" PROVE loc[u].ev # e0
    BY <1>0, <1>1, <2>2 DEF EndInv
  <2> QED
    BY <1>0, <1>a, <1>b, <1>c, <2>1, <2>2 DEF EndInv
<1> QED
  BY <1>4, <1>5, <1>6, <1>7, <1>8, <1>9 DEF Accounts

\* The event that had the slot is cleared; it is long done.
LEMMA AccountsClearOld ==
  ASSUME ServerInv, NEW t \in Workers, ClearOld(t), fEvents[loc[t].slot] # Null
  PROVE  Accounts'
<1>a. /\ loc[t].slot \in Slots /\ fEvents[loc[t].slot] \in Events /\ pc[t] = "a_clear"
      /\ Vacant(loc[t].slot)
  BY LocalTypes DEF ServerInv, TypeInv, EventOrNull, ClearOld, Places, HolderInv
<1>b. PICK e0 \in Events : e0 = fEvents[loc[t].slot]
  BY <1>a
<1>c. /\ pc \in [Workers -> Labels] /\ pc' = [pc EXCEPT ![t] = "a_clear2"]
      /\ loc \in [Workers -> Locals] /\ loc' = [loc EXCEPT ![t].old = e0]
      /\ fNprimaries \in [Events -> Nat] /\ fNtracks \in [Events -> Nat] /\ fNdone \in [Events -> Nat]
      /\ fSlot \in [Events -> Slots]
      /\ fSlot' = [fSlot EXCEPT ![e0] = 0]
      /\ fNprimaries' = [fNprimaries EXCEPT ![e0] = 0]
      /\ fNtracks' = [fNtracks EXCEPT ![e0] = 0]
      /\ fNdone' = [fNdone EXCEPT ![e0] = 0]
      /\ UNCHANGED <<fDoneEvents, fNdispatched, fNload, buffer>>
  BY <1>a, <1>b DEF ClearOld, Goto, Keep, ServerInv, TypeInv, Counts, manager
<1>d. /\ \A u \in Workers : u # t => pc'[u] = pc[u] /\ loc'[u] = loc[u]
      /\ pc'[t] = "a_clear2" /\ loc'[t].ev = loc[t].ev /\ loc'[t].n = loc[t].n /\ loc'[t].old = e0
      /\ \A e \in Events : e # e0 => /\ fNprimaries'[e] = fNprimaries[e] /\ fNtracks'[e] = fNtracks[e]
                                     /\ fNdone'[e] = fNdone[e] /\ fSlot'[e] = fSlot[e]
      /\ fNprimaries'[e0] = 0 /\ fNtracks'[e0] = 0 /\ fNdone'[e0] = 0
  BY <1>c DEF Locals
<1>0. /\ CounterInv /\ ClearInv /\ TrackInv /\ BookedInv /\ AccountInv /\ EndInv
      /\ fDoneEvents \subseteq Events
  BY DEF ServerInv, Accounts, TypeInv
<1>e. \A e \in Events : (Needed(e)' <=> Needed(e)) /\ (Activated(e)' <=> Activated(e))
                        /\ (Waiting(e)' <=> Waiting(e))
  BY <1>c, PlacesClearOld DEF Activated
<1>1. ~ Needed(e0) /\ e0 \in fDoneEvents /\ e0 < fNload /\ fNload \in Nat /\ ~ Waiting(e0)
  <2>1. ~ Needed(e0)
    BY <1>a, <1>b, EventFacts DEF Vacant
  <2>2. e0 \in fDoneEvents
    BY <2>1 DEF Needed
  <2> QED
    BY <2>1, <2>2 DEF ServerInv, Places, PlaceInv, Generated, NotYet, TypeInv
<1>2. \A u \in Workers : pc[u] \in AtEvent => loc[u].ev \in Events
  BY DEF ServerInv, Places, WorkInv
<1>3. /\ \A u \in Workers : Booked(u)' <=> Booked(u)
      /\ \A u \in Workers : Booked(u) => loc'[u] = loc[u] /\ loc[u].ev \in Events /\ loc[u].ev # e0
      /\ \A e \in Events : BookedOf(e)' = BookedOf(e) /\ TracksOf(e)' = TracksOf(e)
      /\ InTransport' = InTransport
  <2>1. ASSUME NEW u \in Workers, Booked(u) PROVE u # t /\ loc[u].ev \in Events /\ loc[u].ev # e0
    BY <1>0, <1>1, <1>2, <1>a, <2>1 DEF Booked, BookedInv, AtEvent
  <2>2. ASSUME NEW u \in Workers, Booked(u) PROVE Booked(u)'
    <3>1. pc'[u] = pc[u] /\ loc'[u] = loc[u]
      BY <1>d, <2>1, <2>2
    <3> QED
      BY <1>d, <2>1, <2>2, <3>1 DEF Booked, Valid
  <2>3. ASSUME NEW u \in Workers, Booked(u)' PROVE Booked(u)
    <3>1. u # t /\ pc'[u] = pc[u] /\ loc'[u] = loc[u]
      BY <1>d, <2>3 DEF Booked
    <3>2. loc[u].ev \in Events /\ loc[u].itr \in Nat
      BY <1>2, <2>3, <3>1, LocalTypes DEF Booked, AtEvent, ServerInv
    <3>3. loc[u].itr < fNprimaries'[loc[u].ev] => loc[u].itr < fNprimaries[loc[u].ev]
      BY <1>d, <3>2
    <3> QED
      BY <2>3, <3>1, <3>3 DEF Booked, Valid
  <2>4. \A e \in Events : BookedOf(e)' = BookedOf(e)
    BY <1>d, <2>1, <2>2, <2>3 DEF BookedOf
  <2> QED
    BY <1>c, <1>d, <2>1, <2>2, <2>3, <2>4 DEF TracksOf, InTransport
<1>4. CounterInv'
  BY <1>0, <1>1, <1>c, <1>d, <1>e DEF CounterInv, Cleared, Fresh
<1>5. ClearInv'
  <2>1. ASSUME NEW u \in Workers, pc'[u] = "a_clear2"
        PROVE  (/\ loc[u].old \in fDoneEvents
                /\ Cleared(loc[u].old) /\ ~ Needed(loc[u].old))'
    <3>1. PICK e \in Events : e = loc'[u].old /\ e \in fDoneEvents /\ ~ Needed(e) /\ (e # e0 => Cleared(e))
      BY <1>0, <1>1, <1>d, <2>1 DEF ClearInv
    <3>2. Cleared(e)' /\ ~ Needed(e)'
      BY <1>d, <1>e, <3>1 DEF Cleared
    <3> QED
      BY <1>c, <3>1, <3>2 DEF Cleared, Needed
  <2> QED
    BY <2>1 DEF ClearInv
<1>6. TrackInv'
  <2>1. ASSUME NEW u \in Workers, NEW k \in buffer[u] PROVE k.ev \in Events /\ k.ev # e0
    BY <1>1, TrackFound
  <2> QED
    BY <1>0, <1>c, <1>d, <1>e, <2>1 DEF TrackInv
<1>7. BookedInv'
  BY <1>0, <1>3, <1>c DEF BookedInv
<1>8. AccountInv'
  BY <1>0, <1>1, <1>3, <1>c, <1>d DEF AccountInv
<1>9. EndInv'
  <2>1. ASSUME NEW u \in Workers, pc[u] \in {"s_left", "t_done"}
        PROVE  loc[u].ev \in Events /\ loc[u].n \in Nat /\ u # t
    BY <1>2, <1>a, <2>1, LocalTypes DEF AtEvent, ServerInv
  <2>2. ASSUME NEW u \in Workers, pc'[u] = "s_left"
        PROVE  /\ loc'[u].n > 0
               /\ loc'[u].ev \notin fDoneEvents => loc'[u].n <= fNdone'[loc'[u].ev]
               /\ loc'[u].ev \in fDoneEvents => loc'[u].n # fNtracks'[loc'[u].ev]
    BY <1>0, <1>1, <1>d, <2>1, <2>2 DEF EndInv
  <2>3. ASSUME NEW u \in Workers, pc'[u] = "t_done"
        PROVE  /\ loc'[u].ev \notin fDoneEvents
               /\ loc'[u].n = fNtracks'[loc'[u].ev] /\ loc'[u].n = fNdone'[loc'[u].ev]
    BY <1>0, <1>1, <1>d, <2>1, <2>3 DEF EndInv
  <2> QED
    BY <1>0, <1>c, <1>d, <2>2, <2>3 DEF EndInv
<1> QED
  BY <1>4, <1>5, <1>6, <1>7, <1>8, <1>9 DEF Accounts

\* The index counter of a cleared event goes back to 0: nobody can book.
LEMMA AccountsClearDispatched ==
  ASSUME ServerInv, NEW t \in Workers, ClearDispatched(t)
  PROVE  Accounts'
<1>0. /\ CounterInv /\ ClearInv /\ TrackInv /\ BookedInv /\ AccountInv /\ EndInv
      /\ fDoneEvents \subseteq Events
  BY DEF ServerInv, Accounts, TypeInv
<1>a. /\ loc[t].old \in fDoneEvents /\ pc[t] = "a_clear2"
      /\ Cleared(loc[t].old) /\ ~ Needed(loc[t].old)
  BY <1>0 DEF ClearDispatched, ClearInv
<1>b. PICK e0 \in Events : e0 = loc[t].old
  BY <1>0, <1>a
<1>c. /\ pc \in [Workers -> Labels] /\ pc' = [pc EXCEPT ![t] = "a_pending"]
      /\ loc \in [Workers -> Locals] /\ loc' = [loc EXCEPT ![t].old = Null]
      /\ fNdispatched \in [Events -> Nat] /\ fNdispatched' = [fNdispatched EXCEPT ![e0] = 0]
      /\ UNCHANGED <<fNprimaries, fNtracks, fNdone, fDoneEvents, fNload, fSlot, buffer>>
  BY <1>b DEF ClearDispatched, Goto, Keep, ServerInv, TypeInv, Counts, server, manager
<1>d. /\ \A u \in Workers : u # t => pc'[u] = pc[u] /\ loc'[u] = loc[u]
      /\ pc'[t] = "a_pending" /\ loc'[t].ev = loc[t].ev
      /\ \A e \in Events : e # e0 => fNdispatched'[e] = fNdispatched[e]
      /\ fNdispatched'[e0] = 0
  BY <1>c DEF Locals
<1>e. \A e \in Events : (Needed(e)' <=> Needed(e)) /\ (Activated(e)' <=> Activated(e))
                        /\ (Waiting(e)' <=> Waiting(e))
  BY <1>c, PlacesStillHolder DEF Activated
<1>1. /\ e0 \in fDoneEvents /\ Cleared(e0) /\ ~ Needed(e0) /\ ~ Waiting(e0)
  BY <1>a, <1>b DEF ServerInv, Places, PlaceInv, NotYet
<1>3. /\ \A u \in Workers : Booked(u)' <=> Booked(u)
      /\ \A u \in Workers : Booked(u) => loc'[u] = loc[u] /\ loc[u].ev \in Events /\ loc[u].ev # e0
      /\ \A e \in Events : BookedOf(e)' = BookedOf(e) /\ TracksOf(e)' = TracksOf(e)
      /\ InTransport' = InTransport
  <2>1. \A u \in Workers : Booked(u)' <=> Booked(u)
    BY <1>a, <1>c, <1>d DEF Booked, Valid
  <2>2. \A u \in Workers : Booked(u) => u # t /\ loc[u].ev \in Events /\ loc[u].ev # e0
    BY <1>0, <1>1, <1>a DEF Booked, BookedInv, ServerInv, Places, WorkInv, AtEvent
  <2>3. \A e \in Events : BookedOf(e)' = BookedOf(e)
    BY <1>d, <2>1, <2>2 DEF BookedOf
  <2> QED
    BY <1>c, <1>d, <2>1, <2>2, <2>3 DEF TracksOf, InTransport
<1>4. CounterInv'
  <2>1. e0 < fNload /\ fNload \in Nat
    BY <1>1, EventFacts DEF ServerInv, Places, PlaceInv, Generated, TypeInv
  <2> QED
    BY <1>0, <1>1, <1>c, <1>d, <1>e, <2>1 DEF CounterInv, Cleared, Fresh
<1>5. ClearInv'
  BY <1>0, <1>c, <1>d, <1>e DEF ClearInv, Cleared
<1>6. TrackInv'
  <2>1. ASSUME NEW u \in Workers, NEW k \in buffer[u] PROVE k.ev \in Events /\ k.ev # e0
    BY <1>1, TrackFound
  <2> QED
    BY <1>0, <1>c, <1>d, <1>e, <2>1 DEF TrackInv
<1>7. BookedInv'
  BY <1>0, <1>3, <1>c, <1>d DEF BookedInv
<1>8. AccountInv'
  BY <1>0, <1>1, <1>3, <1>c, <1>d DEF AccountInv
<1>9. EndInv'
  BY <1>0, <1>a, <1>c, <1>d DEF EndInv
<1> QED
  BY <1>4, <1>5, <1>6, <1>7, <1>8, <1>9 DEF Accounts

\* A new event starts with its primaries, all of them to be dispatched.
LEMMA AccountsGenerate ==
  ASSUME ServerInv, NEW t \in Workers, GenerateNewEvent(t), fNload < NEvents
  PROVE  Accounts'
<1>a. fNload \in Nat /\ fNload \in Events /\ pc[t] = "n_load" /\ ~ (fNload >= NEvents)
  BY SizesAssumption DEF ServerInv, TypeInv, GenerateNewEvent, Events
<1>b. PICK e0 \in Events : e0 = fNload
  BY <1>a
<1>c. /\ pc \in [Workers -> Labels] /\ pc' = [pc EXCEPT ![t] = "n_add"]
      /\ loc \in [Workers -> Locals] /\ loc' = [loc EXCEPT ![t].ev = e0]
      /\ fNprimaries \in [Events -> Nat] /\ fNprimaries' = [fNprimaries EXCEPT ![e0] = Primaries[e0]]
      /\ fNtracks \in [Events -> Nat] /\ fNtracks' = [fNtracks EXCEPT ![e0] = Primaries[e0]]
      /\ fNload' = fNload + 1
      /\ UNCHANGED <<fNdone, fNdispatched, fDoneEvents, fSlot, buffer>>
  BY <1>a, <1>b DEF GenerateNewEvent, Goto, Keep, ServerInv, TypeInv, Counts, manager
<1>d. /\ \A u \in Workers : u # t => pc'[u] = pc[u] /\ loc'[u] = loc[u]
      /\ pc'[t] = "n_add" /\ loc'[t].ev = e0
      /\ \A e \in Events : e # e0 => fNprimaries'[e] = fNprimaries[e] /\ fNtracks'[e] = fNtracks[e]
      /\ fNprimaries'[e0] = Primaries[e0] /\ fNtracks'[e0] = Primaries[e0]
      /\ \A e \in Events : e \in Nat
  BY <1>c, EventFacts DEF Locals
<1>0. /\ CounterInv /\ ClearInv /\ TrackInv /\ BookedInv /\ AccountInv /\ EndInv
      /\ fDoneEvents \subseteq Events
  BY DEF ServerInv, Accounts, TypeInv
<1>f. buffer' = buffer /\ fDoneEvents' = fDoneEvents /\ fNdispatched' = fNdispatched
  BY <1>c
<1>1. /\ \A e \in Events : Needed(e)' <=> Needed(e)
      /\ \A e \in Events : Waiting(e)' <=> Waiting(e) \/ e = e0
      /\ ~ Waiting(e0) /\ e0 \notin fDoneEvents
      /\ ~ Activated(e0)
      /\ \A e \in Events : Activated(e)' <=> Activated(e)
  <2>1. /\ \A e \in Events : Needed(e)' <=> Needed(e)
        /\ \A e \in Events : Waiting(e)' <=> Waiting(e) \/ e = e0
        /\ ~ Waiting(e0)
    BY <1>b, PlacesGenerate
  <2>2. e0 \notin fDoneEvents /\ ~ Activated(e0)
    BY <1>a, <1>b DEF ServerInv, Places, PlaceInv, Generated, Activated
  <2>3. \A e \in Events : e < fNload + 1 <=> e < fNload \/ e = e0
    BY <1>a, <1>b, <1>d
  <2> QED
    BY <1>c, <2>1, <2>2, <2>3 DEF Activated
<1>2. \A u \in Workers : pc[u] \in AtEvent => loc[u].ev \in Events /\ loc[u].ev # e0
  BY <1>1 DEF ServerInv, Places, WorkInv
<1>3. /\ \A u \in Workers : Booked(u)' <=> Booked(u)
      /\ \A u \in Workers : Booked(u) => loc'[u] = loc[u] /\ loc[u].ev \in Events /\ loc[u].ev # e0
      /\ \A e \in Events : BookedOf(e)' = BookedOf(e) /\ TracksOf(e)' = TracksOf(e)
      /\ InTransport' = InTransport
  <2>1. ASSUME NEW u \in Workers PROVE Booked(u)' <=> Booked(u)
    <3>1. CASE u = t
      BY <1>a, <1>d, <3>1 DEF Booked
    <3>2. CASE u # t /\ pc[u] \in AtEvent
      BY <1>2, <1>d, <3>2 DEF Booked, Valid
    <3>3. CASE u # t /\ pc[u] \notin AtEvent
      BY <1>d, <3>3 DEF Booked, AtEvent
    <3> QED
      BY <3>1, <3>2, <3>3
  <2>2. \A u \in Workers : Booked(u) => u # t /\ loc[u].ev \in Events /\ loc[u].ev # e0
    BY <1>2, <1>a DEF Booked, AtEvent
  <2>3. \A e \in Events : BookedOf(e)' = BookedOf(e)
    BY <1>d, <2>1, <2>2 DEF BookedOf
  <2> QED
    BY <1>c, <1>d, <2>1, <2>2, <2>3 DEF TracksOf, InTransport
<1>4. CounterInv'
  <2>1. Cleared(e0) /\ Fresh(e0)
    BY <1>0, <1>a, <1>b DEF CounterInv
  <2>2. ASSUME NEW e \in Events, e >= fNload' PROVE e >= fNload /\ e # e0
    BY <1>a, <1>b, <1>c, <1>d, <2>2
  <2> QED
    BY <1>0, <1>1, <1>b, <1>c, <1>d, <2>1, <2>2 DEF CounterInv, Cleared, Fresh
<1>5. ClearInv'
  BY <1>0, <1>1, <1>c, <1>d DEF ClearInv, Cleared
<1>6. TrackInv'
  <2>1. ASSUME NEW u \in Workers, NEW k \in buffer[u] PROVE k.ev \in Events /\ k.ev # e0
    BY <1>1, TrackFound
  <2> QED
    BY <1>0, <1>1, <1>c, <1>d, <2>1 DEF TrackInv
<1>7. BookedInv'
  <2>1. ASSUME NEW u \in Workers, Booked(u)'
        PROVE  /\ loc'[u].ev \notin fDoneEvents'
               /\ loc'[u].itr < fNdispatched'[loc'[u].ev]
               /\ loc'[u].itr < Primaries[loc'[u].ev]
               /\ \A v \in Workers : \A k \in buffer'[v] : k.ev = loc'[u].ev => k.id # loc'[u].itr
               /\ \A v \in Workers \ {u} : Booked(v)' /\ loc'[v].ev = loc'[u].ev => loc'[v].itr # loc'[u].itr
    <3>1. Booked(u) /\ loc'[u] = loc[u]
      BY <1>3, <2>1
    <3>2. ASSUME NEW v \in Workers \ {u}, Booked(v)', loc'[v].ev = loc'[u].ev
          PROVE  loc'[v].itr # loc'[u].itr
      BY <1>0, <1>3, <3>1, <3>2 DEF BookedInv
    <3>3. ASSUME NEW v \in Workers, NEW k \in buffer'[v], k.ev = loc'[u].ev PROVE k.id # loc'[u].itr
      BY <1>0, <1>f, <3>1, <3>3 DEF BookedInv
    <3>4. /\ loc'[u].ev \notin fDoneEvents'
          /\ loc'[u].itr < fNdispatched'[loc'[u].ev]
          /\ loc'[u].itr < Primaries[loc'[u].ev]
      BY <1>0, <1>f, <3>1 DEF BookedInv
    <3> QED
      BY <3>2, <3>3, <3>4
  <2> QED
    BY <2>1 DEF BookedInv
<1>8. AccountInv'
  <2>1. fNdone[e0] = 0 /\ fNdispatched[e0] = 0
    BY <1>0, <1>a, <1>b DEF CounterInv, Fresh
  <2>2. TracksOf(e0) = {}
    <3>1. ASSUME NEW k \in InTransport PROVE k.ev # e0
      BY <1>1, <3>1, TrackFound DEF InTransport
    <3> QED
      BY <3>1 DEF TracksOf
  <2>3. BookedOf(e0) = {}
    BY <1>3 DEF BookedOf
  <2>4. fNtracks'[e0] - fNdone[e0]
          = Cardinality(TracksOf(e0)) + Cardinality(BookedOf(e0)) + fNprimaries'[e0] - fNdispatched[e0]
    BY <1>d, <2>1, <2>2, <2>3, FS_EmptySet, EventFacts
  <2> QED
    BY <1>0, <1>3, <1>c, <1>d, <2>4 DEF AccountInv
<1>9. EndInv'
  <2>1. \A u \in Workers : pc'[u] \in {"s_left", "t_done", "t_slot"} =>
          u # t /\ pc'[u] = pc[u] /\ loc'[u] = loc[u] /\ loc[u].ev \in Events /\ loc[u].ev # e0
    BY <1>2, <1>d DEF AtEvent
  <2>2. \A u \in Workers : pc'[u] = "s_left" =>
          /\ loc'[u].n > 0
          /\ loc'[u].ev \notin fDoneEvents => loc'[u].n <= fNdone[loc'[u].ev]
          /\ loc'[u].ev \in fDoneEvents => loc'[u].n # fNtracks'[loc'[u].ev]
    BY <1>0, <1>d, <2>1 DEF EndInv
  <2>3. \A u \in Workers : pc'[u] = "t_done" =>
          /\ loc'[u].ev \notin fDoneEvents
          /\ loc'[u].n = fNtracks'[loc'[u].ev] /\ loc'[u].n = fNdone[loc'[u].ev]
    BY <1>0, <1>d, <2>1 DEF EndInv
  <2> QED
    BY <1>0, <1>c, <2>1, <2>2, <2>3 DEF EndInv
<1> QED
  BY <1>4, <1>5, <1>6, <1>7, <1>8, <1>9 DEF Accounts

\* Tracks are accounted for, whatever step is taken.
LEMMA AccountsStep == ASSUME ServerInv, [Next]_vars PROVE Accounts'
<1>1. ASSUME NEW t \in Workers, GetTracks(t) PROVE Accounts'
  BY <1>1, AccountsStill, AccountsBook, AccountsClone DEF GetTracks
<1>2. ASSUME NEW t \in Workers, ActivateEvent(t) PROVE Accounts'
  BY <1>2, AccountsStill, AccountsClearOld, AccountsClearDispatched DEF ActivateEvent
<1>3. ASSUME NEW t \in Workers, Transport(t) PROVE Accounts'
  <2>1. CASE CheckLeft(t)
    BY <2>1, AccountsStill, AccountsLast
  <2>2. CASE GenerateNewEvent(t)
    BY <2>2, AccountsStill, AccountsGenerate
  <2>3. CASE \E k \in buffer[t] : AddTrack(t, k) \/ StopTrack(t, k)
    BY <2>3, AccountsAddTrack, AccountsStopTrack
  <2>4. CASE \/ Prioritize(t) \/ CountPriority(t) \/ CompletedEvent(t) \/ LockGenerator(t)
             \/ AddEvent(t) \/ CountStored(t) \/ ResetServed(t) \/ ResetHasTracks(t)
    BY <2>4, AccountsStill
  <2>5. CASE EventTransported(t)
    BY <2>5, AccountsTransported
  <2> QED
    BY <1>3, <2>1, <2>2, <2>3, <2>4, <2>5 DEF Transport
<1>4. ASSUME NEW t \in Workers, Step(t) PROVE Accounts'
  BY <1>1, <1>2, <1>3, <1>4, AccountsStill DEF Step, Work
<1>5. CASE UNCHANGED vars
  BY <1>5 DEF ServerInv, Accounts, CounterInv, ClearInv, TrackInv, BookedInv, AccountInv, EndInv, Cleared, Fresh,
     TracksOf, BookedOf, InTransport, Booked, Valid, Activated, Waiting, Pending, Adding, Activating, Needed,
     vars, queues, flags, server, phase, event, manager, idle
<1> QED
  BY <1>4, <1>5 DEF Next, Finished

\* Which actions change the counters of the server and of the run manager.
LEMMA CountersKept ==
  ASSUME ServerInv, NEW t \in Workers, Step(t)
  PROVE  /\ \A u \in Workers : u # t => pc'[u] = pc[u]
         /\ \/ CountStored(t) \/ (GenerateNewEvent(t) /\ fNload < NEvents)
            \/ /\ UNCHANGED <<fNstored, fNload>>
               /\ pc'[t] \in {"n_add", "n_stored"} <=> pc[t] \in {"n_add", "n_stored"}
         /\ \/ Replace(t) \/ CountActive(t)
            \/ UNCHANGED fNactive /\ (pc'[t] = "a_count" <=> pc[t] = "a_count")
         /\ \/ Prioritize(t) \/ CountPriority(t) \/ EventTransported(t)
            \/ ClearOld(t) /\ fEvents[loc[t].slot] # Null
            \/ /\ UNCHANGED <<fPriorityEvents, fPrioritize, fDoneEvents>>
               /\ pc'[t] = "s_count" <=> pc[t] = "s_count"
<1> DEFINE Alone == \A u \in Workers : u # t => pc'[u] = pc[u]
           Stored == \/ CountStored(t) \/ (GenerateNewEvent(t) /\ fNload < NEvents)
                     \/ /\ UNCHANGED <<fNstored, fNload>>
                        /\ pc'[t] \in {"n_add", "n_stored"} <=> pc[t] \in {"n_add", "n_stored"}
           Active == \/ Replace(t) \/ CountActive(t)
                     \/ UNCHANGED fNactive /\ (pc'[t] = "a_count" <=> pc[t] = "a_count")
           Urgent == \/ Prioritize(t) \/ CountPriority(t) \/ EventTransported(t)
                     \/ ClearOld(t) /\ fEvents[loc[t].slot] # Null
                     \/ /\ UNCHANGED <<fPriorityEvents, fPrioritize, fDoneEvents>>
                        /\ pc'[t] = "s_count" <=> pc[t] = "s_count"
<1> SUFFICES Alone /\ Stored /\ Active /\ Urgent
  OBVIOUS
<1>0. pc \in [Workers -> Labels]
  BY DEF ServerInv, TypeInv
<1>1. ASSUME Suspend(t) PROVE Alone /\ Stored /\ Active /\ Urgent
  BY <1>0, <1>1 DEF Suspend, Goto, server, event, manager
<1>2. ASSUME Wake(t) PROVE Alone /\ Stored /\ Active /\ Urgent
  BY <1>0, <1>2 DEF Wake, Goto, server, event, manager
<1>3. ASSUME FeedNothing(t) PROVE Alone /\ Stored /\ Active /\ Urgent
  BY <1>0, <1>3 DEF FeedNothing, Return, Goto, server, event, manager
<1>4. ASSUME Feed(t) PROVE Alone /\ Stored /\ Active /\ Urgent
  BY <1>0, <1>4 DEF Feed, Goto, Keep, server, event, manager
<1>5. ASSUME CountServed(t) PROVE Alone /\ Stored /\ Active /\ Urgent
  BY <1>0, <1>5 DEF CountServed, Goto, server, event, manager
<1>6. ASSUME LoadEvent(t) PROVE Alone /\ Stored /\ Active /\ Urgent
  BY <1>0, <1>6 DEF LoadEvent, Goto, Keep, server, event, manager
<1>7. ASSUME Book(t) PROVE Alone /\ Stored /\ Active /\ Urgent
  BY <1>0, <1>7 DEF Book, Goto, server, event, manager
<1>8. ASSUME CheckBooked(t) PROVE Alone /\ Stored /\ Active /\ Urgent
  BY <1>0, <1>8 DEF CheckBooked, Goto, Keep, server, event, manager
<1>9. ASSUME Clone(t) PROVE Alone /\ Stored /\ Active /\ Urgent
  BY <1>0, <1>9 DEF Clone, Goto, Return, server, event, manager
<1>10. ASSUME Exit(t) PROVE Alone /\ Stored /\ Active /\ Urgent
  BY <1>0, <1>10 DEF Exit, Goto, server, event, manager
<1>11. ASSUME BackToFeed(t) PROVE Alone /\ Stored /\ Active /\ Urgent
  BY <1>0, <1>11 DEF BackToFeed, Goto, server, event, manager
<1>12. ASSUME CheckServed(t) PROVE Alone /\ Stored /\ Active /\ Urgent
  BY <1>0, <1>12 DEF CheckServed, Goto, server, event, manager
<1>13. ASSUME NoMoreTracks(t) PROVE Alone /\ Stored /\ Active /\ Urgent
  BY <1>0, <1>13 DEF NoMoreTracks, Return, Goto, server, event, manager
<1>14. ASSUME TakeSlot(t) PROVE Alone /\ Stored /\ Active /\ Urgent
  BY <1>0, <1>14 DEF TakeSlot, Goto, Keep, server, event, manager
<1>15. ASSUME NoSlot(t) PROVE Alone /\ Stored /\ Active /\ Urgent
  BY <1>0, <1>15 DEF NoSlot, Return, Goto, server, event, manager
<1>16. ASSUME ClearOld(t) PROVE Alone /\ Stored /\ Active /\ Urgent
  BY <1>0, <1>16 DEF ClearOld, Goto, server, event, manager
<1>17. ASSUME ClearDispatched(t) PROVE Alone /\ Stored /\ Active /\ Urgent
  BY <1>0, <1>17 DEF ClearDispatched, Goto, server, event, manager
<1>18. ASSUME TakePending(t) PROVE Alone /\ Stored /\ Active /\ Urgent
  BY <1>0, <1>18 DEF TakePending, Goto, server, event, manager
<1>19. ASSUME NoPending(t) PROVE Alone /\ Stored /\ Active /\ Urgent
  BY <1>0, <1>19 DEF NoPending, Goto, server, event, manager
<1>20. ASSUME ReturnSlot(t) PROVE Alone /\ Stored /\ Active /\ Urgent
  BY <1>0, <1>20 DEF ReturnSlot, Return, Goto, server, event, manager
<1>21. ASSUME Replace(t) PROVE Alone /\ Stored /\ Active /\ Urgent
  BY <1>0, <1>21 DEF Replace, Goto, Keep, server, event, manager
<1>22. ASSUME Overtaken(t) PROVE Alone /\ Stored /\ Active /\ Urgent
  BY <1>0, <1>22 DEF Overtaken, Goto, Keep, server, event, manager
<1>23. ASSUME UndoPending(t) PROVE Alone /\ Stored /\ Active /\ Urgent
  BY <1>0, <1>23 DEF UndoPending, Goto, server, event, manager
<1>24. ASSUME UndoSlot(t) PROVE Alone /\ Stored /\ Active /\ Urgent
  BY <1>0, <1>24 DEF UndoSlot, Goto, Keep, server, event, manager
<1>25. ASSUME CountActive(t) PROVE Alone /\ Stored /\ Active /\ Urgent
  BY <1>0, <1>25 DEF CountActive, Goto, server, event, manager
<1>26. ASSUME FlagServed(t) PROVE Alone /\ Stored /\ Active /\ Urgent
  BY <1>0, <1>26 DEF FlagServed, Goto, Keep, server, event, manager
<1>27. ASSUME FlagHasTracks(t) PROVE Alone /\ Stored /\ Active /\ Urgent
  BY <1>0, <1>27 DEF FlagHasTracks, Goto, server, event, manager
<1>28. ASSUME NEW k \in buffer[t], AddTrack(t, k) PROVE Alone /\ Stored /\ Active /\ Urgent
  BY <1>0, <1>28 DEF AddTrack, Stepping, Goto, server, event, manager
<1>29. ASSUME NEW k \in buffer[t], StopTrack(t, k) PROVE Alone /\ Stored /\ Active /\ Urgent
  BY <1>0, <1>29 DEF StopTrack, Stepping, Goto, server, event, manager
<1>30. ASSUME CheckLeft(t) PROVE Alone /\ Stored /\ Active /\ Urgent
  BY <1>0, <1>30 DEF CheckLeft, Goto, Resume, server, event, manager
<1>31. ASSUME Prioritize(t) PROVE Alone /\ Stored /\ Active /\ Urgent
  BY <1>0, <1>31 DEF Prioritize, Goto, server, event, manager
<1>32. ASSUME CountPriority(t) PROVE Alone /\ Stored /\ Active /\ Urgent
  BY <1>0, <1>32 DEF CountPriority, Resume, Goto, server, event, manager
<1>33. ASSUME EventTransported(t) PROVE Alone /\ Stored /\ Active /\ Urgent
  BY <1>0, <1>33 DEF EventTransported, Goto, server, event, manager
<1>34. ASSUME CompletedEvent(t) PROVE Alone /\ Stored /\ Active /\ Urgent
  BY <1>0, <1>34 DEF CompletedEvent, Goto, Keep, server, event, manager
<1>35. ASSUME LockGenerator(t) PROVE Alone /\ Stored /\ Active /\ Urgent
  BY <1>0, <1>35 DEF LockGenerator, Goto, server, event, manager
<1>36. ASSUME GenerateNewEvent(t) PROVE Alone /\ Stored /\ Active /\ Urgent
  <2>1. fNload >= NEvents \/ fNload < NEvents
    BY SizesAssumption DEF ServerInv, TypeInv
  <2> QED
    BY <1>0, <1>36, <2>1 DEF GenerateNewEvent, Resume, Goto, manager
<1>37. ASSUME AddEvent(t) PROVE Alone /\ Stored /\ Active /\ Urgent
  BY <1>0, <1>37 DEF AddEvent, Goto, Keep, server, event, manager
<1>38. ASSUME CountStored(t) PROVE Alone /\ Stored /\ Active /\ Urgent
  BY <1>0, <1>38 DEF CountStored, Goto, server, event, manager
<1>39. ASSUME ResetServed(t) PROVE Alone /\ Stored /\ Active /\ Urgent
  BY <1>0, <1>39 DEF ResetServed, Goto, server, event, manager
<1>40. ASSUME ResetHasTracks(t) PROVE Alone /\ Stored /\ Active /\ Urgent
  BY <1>0, <1>40 DEF ResetHasTracks, Resume, Goto, server, event, manager
<1> QED
  BY <1>1, <1>2, <1>3, <1>4, <1>5, <1>6, <1>7, <1>8, <1>9, <1>10, <1>11, <1>12, <1>13, <1>14, <1>15, <1>16, <1>17, <1>18, <1>19, <1>20, <1>21, <1>22, <1>23, <1>24, <1>25, <1>26, <1>27, <1>28, <1>29, <1>30, <1>31, <1>32, <1>33, <1>34, <1>35, <1>36, <1>37, <1>38, <1>39, <1>40
  DEF Step, Work, GetTracks, ActivateEvent, Transport

------------------------------------------------------------------------------
(* The counters of the server and of the run manager                       *)

Urging == {t \in Workers : pc[t] = "s_count"}
Prioritized == {e \in Events \ fDoneEvents : fPrioritize[e]}

LEMMA CountsFinite ==
  /\ IsFiniteSet(Storing) /\ Cardinality(Storing) \in Nat
  /\ IsFiniteSet(Counting) /\ Cardinality(Counting) \in Nat
  /\ IsFiniteSet(Urging) /\ Cardinality(Urging) \in Nat
  /\ IsFiniteSet(Prioritized) /\ Cardinality(Prioritized) \in Nat
  /\ IsFiniteSet(Activateds) /\ Cardinality(Activateds) \in Nat
<1>1. IsFiniteSet(Workers) /\ IsFiniteSet(Events)
  BY WorkersAssumption, SizesAssumption, FS_Interval DEF Events
<1>2. /\ IsFiniteSet(Storing) /\ IsFiniteSet(Counting) /\ IsFiniteSet(Urging)
      /\ IsFiniteSet(Prioritized) /\ IsFiniteSet(Activateds)
  <2>1. /\ Storing \subseteq Workers /\ Counting \subseteq Workers /\ Urging \subseteq Workers
        /\ Prioritized \subseteq Events /\ Activateds \subseteq Events
    BY DEF Storing, Counting, Urging, Prioritized, Activateds
  <2> QED
    BY <1>1, <2>1, FS_Subset
<1> QED
  BY <1>2, FS_CardinalityType

\* fNstored is late by the workers that are about to count the event they add.
LEMMA StoredStep ==
  ASSUME ServerInv, CountInv, NEW t \in Workers, Step(t)
  PROVE  fNstored' + Cardinality(Storing') = fNload'
<1>0. /\ fNstored + Cardinality(Storing) = fNload
      /\ fNstored \in Nat /\ fNload \in Nat /\ pc \in [Workers -> Labels]
      /\ IsFiniteSet(Storing) /\ Cardinality(Storing) \in Nat
  BY CountsFinite DEF CountInv, Storing, ServerInv, TypeInv
<1>1. \A u \in Workers : u # t => pc'[u] = pc[u]
  BY CountersKept
<1>2. CASE CountStored(t)
  <2>1. t \in Storing /\ Storing' = Storing \ {t} /\ fNstored' = fNstored + 1 /\ fNload' = fNload
    BY <1>0, <1>1, <1>2 DEF CountStored, Goto, Storing
  <2>2. Cardinality(Storing \ {t}) = Cardinality(Storing) - 1
    BY <1>0, <2>1, FS_RemoveElement
  <2>3. Cardinality(Storing') = Cardinality(Storing) - 1
    BY <2>1, <2>2
  <2> QED
    BY <1>0, <2>1, <2>3
<1>3. CASE GenerateNewEvent(t) /\ fNload < NEvents
  <2>1. t \notin Storing /\ Storing' = Storing \union {t} /\ fNstored' = fNstored /\ fNload' = fNload + 1
    <3>1. ~ (fNload >= NEvents)
      BY <1>0, <1>3, SizesAssumption
    <3> QED
      BY <1>0, <1>1, <1>3, <3>1 DEF GenerateNewEvent, Goto, Storing
  <2>2. Cardinality(Storing \union {t}) = Cardinality(Storing) + 1
    BY <1>0, <2>1, FS_AddElement
  <2>3. Cardinality(Storing') = Cardinality(Storing) + 1
    BY <2>1, <2>2
  <2> QED
    BY <1>0, <2>1, <2>3
<1>4. CASE UNCHANGED <<fNstored, fNload>> /\ (pc'[t] \in {"n_add", "n_stored"} <=> pc[t] \in {"n_add", "n_stored"})
  <2>1. Storing' = Storing
    BY <1>1, <1>4 DEF Storing
  <2> QED
    BY <1>0, <1>4, <2>1
<1> QED
  BY <1>2, <1>3, <1>4, CountersKept

\* fNactive is late by the workers that replaced fEvent and did not count yet.
LEMMA ActiveStep ==
  ASSUME ServerInv, CountInv, NEW t \in Workers, Step(t)
  PROVE  fNactive' + Cardinality(Counting') = Cardinality(Activateds')
<1>0. /\ fNactive + Cardinality(Counting) = Cardinality(Activateds)
      /\ fNactive \in Nat /\ pc \in [Workers -> Labels]
      /\ IsFiniteSet(Counting) /\ Cardinality(Counting) \in Nat
      /\ IsFiniteSet(Activateds) /\ Cardinality(Activateds) \in Nat
  BY CountsFinite DEF CountInv, Counting, ServerInv, TypeInv
<1>1. \A u \in Workers : u # t => pc'[u] = pc[u]
  BY CountersKept
<1>2. CASE Replace(t)
  <2>1. PICK e0 \in Events : e0 = fEvent'
    BY <1>2, PlacesReplace
  <2>2. /\ \A e \in Events : Waiting(e)' <=> Waiting(e) /\ e # e0
        /\ Waiting(e0)
    BY <1>2, <2>1, PlacesReplace
  <2>3. e0 < fNload /\ fNload' = fNload
    BY <1>2, <2>2 DEF Replace, ServerInv, Places, PlaceInv, NotYet
  <2>4. Activateds' = Activateds \union {e0} /\ e0 \notin Activateds
    BY <2>2, <2>3 DEF Activateds, Activated
  <2>5. t \notin Counting /\ Counting' = Counting \union {t} /\ fNactive' = fNactive
    BY <1>0, <1>1, <1>2 DEF Replace, Goto, Counting
  <2>6. /\ Cardinality(Activateds \union {e0}) = Cardinality(Activateds) + 1
        /\ Cardinality(Counting \union {t}) = Cardinality(Counting) + 1
    BY <1>0, <2>4, <2>5, FS_AddElement
  <2>7. /\ Cardinality(Activateds') = Cardinality(Activateds) + 1
        /\ Cardinality(Counting') = Cardinality(Counting) + 1
    BY <2>4, <2>5, <2>6
  <2> QED
    BY <1>0, <2>5, <2>7
<1>3. ASSUME ~ Replace(t) PROVE Activateds' = Activateds
  <2>1. Places' /\ \A e \in Events : Activated(e)' <=> Activated(e)
    <3>1. CASE GenerateNewEvent(t) /\ fNload < NEvents
      <4>1. /\ \A e \in Events : Waiting(e)' <=> Waiting(e) \/ e = fNload
            /\ fNload' = fNload + 1 /\ fNload \in Nat
        <5>1. ~ (fNload >= NEvents) /\ fNload \in Nat
          BY <3>1, SizesAssumption DEF ServerInv, TypeInv
        <5> QED
          BY <3>1, <5>1, PlacesGenerate DEF GenerateNewEvent
      <4>2. \A e \in Events : e < fNload + 1 <=> e < fNload \/ e = fNload
        BY <4>1, EventFacts
      <4>3. \A e \in Events : Activated(e)' <=> Activated(e)
        BY <4>1, <4>2, EventFacts DEF Activated
      <4> QED
        BY <3>1, <4>3, PlacesGenerate
    <3>2. CASE ~ (GenerateNewEvent(t) /\ fNload < NEvents)
      <4>1. Places' /\ \A e \in Events : Waiting(e)' <=> Waiting(e)
        <5>1. CASE GetTracks(t) \/ Exit(t) \/ BackToFeed(t)
          BY <5>1, PlacesStill
        <5>2. CASE ActivateEvent(t)
          BY <1>3, <5>2, PlacesStill, PlacesStillHolder, PlacesTakeSlot, PlacesClearOld, PlacesTakePending,
             PlacesReturnSlot, PlacesUndoPending, PlacesUndoSlot DEF ActivateEvent
        <5>3. CASE Transport(t)
          BY <3>2, <5>3, PlacesStill, PlacesTransported, PlacesCompleted, PlacesAddEvent DEF Transport
        <5> QED
          BY <5>1, <5>2, <5>3 DEF Step, Work
      <4>2. fNload' = fNload
        <5>1. CountStored(t) => fNload' = fNload
          BY DEF CountStored
        <5> QED
          BY <3>2, <5>1, CountersKept
      <4> QED
        BY <4>1, <4>2 DEF Activated
    <3> QED
      BY <3>1, <3>2
  <2> QED
    BY <2>1 DEF Activateds
<1>4. CASE CountActive(t)
  <2>1. t \in Counting /\ Counting' = Counting \ {t} /\ fNactive' = fNactive + 1 /\ ~ Replace(t)
    BY <1>0, <1>1, <1>4 DEF CountActive, Replace, Goto, Counting
  <2>2. Cardinality(Counting \ {t}) = Cardinality(Counting) - 1
    BY <1>0, <2>1, FS_RemoveElement
  <2>3. Cardinality(Counting') = Cardinality(Counting) - 1
    BY <2>1, <2>2
  <2> QED
    BY <1>0, <1>3, <2>1, <2>3
<1>5. CASE ~ Replace(t) /\ UNCHANGED fNactive /\ (pc'[t] = "a_count" <=> pc[t] = "a_count")
  <2>1. Counting' = Counting
    BY <1>1, <1>5 DEF Counting
  <2> QED
    BY <1>0, <1>3, <1>5, <2>1
<1> QED
  BY <1>2, <1>4, <1>5, CountersKept

\* The counter of prioritized events is never too low.
LEMMA UrgentStep ==
  ASSUME ServerInv, PriorityCounted, NEW t \in Workers, Step(t)
  PROVE  fPriorityEvents' + Cardinality(Urging') >= Cardinality(Prioritized')
<1>0. /\ fPriorityEvents + Cardinality(Urging) >= Cardinality(Prioritized)
      /\ fPriorityEvents \in Int /\ pc \in [Workers -> Labels] /\ fPrioritize \in [Events -> BOOLEAN]
      /\ IsFiniteSet(Urging) /\ Cardinality(Urging) \in Nat
      /\ IsFiniteSet(Prioritized) /\ Cardinality(Prioritized) \in Nat
  BY CountsFinite DEF PriorityCounted, Urging, Prioritized, ServerInv, TypeInv
<1>1. \A u \in Workers : u # t => pc'[u] = pc[u]
  BY CountersKept
<1>2. CASE Prioritize(t)
  <2>1. PICK e0 \in Events : e0 = loc[t].ev
    BY <1>2 DEF Prioritize, ServerInv, Places, WorkInv, AtEvent
  <2>2. /\ pc[t] = "s_urge" /\ pc' = [pc EXCEPT ![t] = "s_count"]
        /\ fPrioritize' = [fPrioritize EXCEPT ![e0] = TRUE]
        /\ fDoneEvents' = fDoneEvents /\ fPriorityEvents' = fPriorityEvents
    BY <1>2, <2>1 DEF Prioritize, Goto, manager
  <2>3. t \notin Urging /\ Urging' = Urging \union {t}
    BY <1>0, <2>2 DEF Urging
  <2>4. Prioritized' \subseteq Prioritized \union {e0}
    BY <1>0, <2>2 DEF Prioritized
  <2>5. /\ Cardinality(Urging \union {t}) = Cardinality(Urging) + 1
        /\ Cardinality(Prioritized \union {e0}) <= Cardinality(Prioritized) + 1
        /\ IsFiniteSet(Prioritized \union {e0})
    <3>1. Cardinality(Urging \union {t}) = Cardinality(Urging) + 1
      BY <1>0, <2>3, FS_AddElement
    <3>2. /\ IsFiniteSet(Prioritized \union {e0})
          /\ \/ Cardinality(Prioritized \union {e0}) = Cardinality(Prioritized)
             \/ Cardinality(Prioritized \union {e0}) = Cardinality(Prioritized) + 1
      BY CountsFinite, FS_AddElement
    <3> QED
      BY <1>0, <3>1, <3>2
  <2>6. Cardinality(Prioritized') <= Cardinality(Prioritized \union {e0})
    BY <2>4, <2>5, FS_Subset
  <2>7. Cardinality(Urging') = Cardinality(Urging) + 1
    BY <2>3, <2>5
  <2>8. Cardinality(Prioritized') \in Nat /\ Cardinality(Prioritized \union {e0}) \in Nat
    BY <2>4, <2>5, FS_Subset, FS_CardinalityType
  <2> QED
    BY <1>0, <2>2, <2>5, <2>6, <2>7, <2>8
<1>3. CASE CountPriority(t)
  <2>1. /\ t \in Urging /\ Urging' = Urging \ {t} /\ Prioritized' = Prioritized
        /\ fPriorityEvents' = fPriorityEvents + 1
    BY <1>0, <1>1, <1>3 DEF CountPriority, Resume, Goto, Urging, Prioritized, event
  <2>2. Cardinality(Urging \ {t}) = Cardinality(Urging) - 1
    BY <1>0, <2>1, FS_RemoveElement
  <2>3. Cardinality(Urging') = Cardinality(Urging) - 1
    BY <2>1, <2>2
  <2> QED
    BY <1>0, <2>1, <2>3
<1>4. CASE EventTransported(t)
  <2>1. PICK e0 \in Events : e0 = loc[t].ev /\ e0 \notin fDoneEvents
    BY <1>4 DEF EventTransported, ServerInv, Places, WorkInv, AtEvent, Accounts, EndInv
  <2>2. /\ pc[t] = "t_done" /\ pc' = [pc EXCEPT ![t] = "t_slot"]
        /\ fPriorityEvents' = fPriorityEvents - (IF fPrioritize[e0] THEN 1 ELSE 0)
        /\ fDoneEvents' = fDoneEvents \union {e0} /\ fPrioritize' = fPrioritize
    BY <1>4, <2>1 DEF EventTransported, Goto, event
  <2>3. Urging' = Urging /\ Prioritized' = Prioritized \ {e0} /\ (e0 \in Prioritized <=> fPrioritize[e0])
    BY <1>0, <2>1, <2>2 DEF Urging, Prioritized
  <2>4. Cardinality(Prioritized \ {e0})
          = IF e0 \in Prioritized THEN Cardinality(Prioritized) - 1 ELSE Cardinality(Prioritized)
    BY CountsFinite, FS_RemoveElement
  <2>5. Cardinality(Prioritized')
          = IF e0 \in Prioritized THEN Cardinality(Prioritized) - 1 ELSE Cardinality(Prioritized)
    BY <2>3, <2>4
  <2> QED
    BY <1>0, <2>2, <2>3, <2>5
<1>5. CASE ClearOld(t) /\ fEvents[loc[t].slot] # Null
  <2>1. PICK e0 \in Events : e0 = fEvents[loc[t].slot]
    BY <1>5, LocalTypes DEF ServerInv, TypeInv, EventOrNull
  <2>2. e0 \in fDoneEvents
    <3>1. ~ Needed(e0)
      BY <1>5, <2>1 DEF ClearOld, ServerInv, Places, HolderInv, Vacant
    <3> QED
      BY <3>1 DEF Needed
  <2>3. /\ pc[t] = "a_clear" /\ pc' = [pc EXCEPT ![t] = "a_clear2"]
        /\ fPrioritize' = [fPrioritize EXCEPT ![e0] = FALSE]
        /\ fDoneEvents' = fDoneEvents /\ fPriorityEvents' = fPriorityEvents
    BY <1>5, <2>1 DEF ClearOld, Goto, manager
  <2>4. Urging' = Urging /\ Prioritized' = Prioritized
    BY <1>0, <2>2, <2>3 DEF Urging, Prioritized
  <2> QED
    BY <1>0, <2>3, <2>4
<1>6. CASE UNCHANGED <<fPriorityEvents, fPrioritize, fDoneEvents>> /\ (pc'[t] = "s_count" <=> pc[t] = "s_count")
  <2>1. Urging' = Urging /\ Prioritized' = Prioritized
    BY <1>1, <1>6 DEF Urging, Prioritized
  <2> QED
    BY <1>0, <1>6, <2>1
<1> QED
  BY <1>2, <1>3, <1>4, <1>5, <1>6, CountersKept

------------------------------------------------------------------------------
(* The inductive invariant                                                 *)

\* The server as constructed: one event is activated, the others are pending.
LEMMA InvInit == Init => IInv
<1> SUFFICES ASSUME Init PROVE IInv
  OBVIOUS
<1>0. TypeInv
  BY TypeInit
<1>1. /\ \A s \in Slots : Free(s) <=> s # 0
      /\ \A e \in Events : Pending(e) <=> e # 0 /\ e < NGenerated
      /\ IsInjective(fFreeSlots) /\ IsInjective(fPendingEvents)
  <2>1. /\ DOMAIN fFreeSlots = 1 .. NSlots - 1 /\ \A i \in 1 .. NSlots - 1 : fFreeSlots[i] = i
        /\ DOMAIN fPendingEvents = 1 .. NGenerated - 1 /\ \A i \in 1 .. NGenerated - 1 : fPendingEvents[i] = i
    BY DEF Init
  <2>2. Range(fFreeSlots) = 1 .. NSlots - 1 /\ Range(fPendingEvents) = 1 .. NGenerated - 1
    BY <2>1 DEF Range
  <2>3. IsInjective(fFreeSlots) /\ IsInjective(fPendingEvents)
    BY <2>1 DEF IsInjective
  <2>4. \A s \in Slots : Free(s) <=> s # 0
    BY <2>2, SizesAssumption DEF Free, Slots
  <2>5. \A e \in Events : Pending(e) <=> e # 0 /\ e < NGenerated
    BY <2>2, EventFacts, SizesAssumption DEF Pending, Events
  <2> QED
    BY <2>3, <2>4, <2>5
<1>2. /\ \A t \in Workers : pc[t] = "feed" /\ buffer[t] = {}
      /\ \A s \in Slots : fEvents[s] = IF s = 0 THEN 0 ELSE Null
      /\ \A e \in Events : fSlot[e] = 0
      /\ fEvent = 0 /\ fDoneEvents = {} /\ fNload = NGenerated
  BY DEF Init
<1>3. /\ \A t \in Workers : \A s \in Slots : ~ Holds(t, s)
      /\ \A t \in Workers, e \in Events : ~ Adding(t, e) /\ ~ Activating(t, e)
      /\ \A e \in EventOrNull : Needed(e)
      /\ \A t \in Workers : ~ Booked(t)
  BY <1>2 DEF Holds, Adding, Activating, Needed, Booked
<1>4. /\ \A e \in Events : Waiting(e) <=> e # 0 /\ e < NGenerated
      /\ \A e \in Events : Activated(e) <=> e = 0
  <2>1. \A e \in Events : Waiting(e) <=> e # 0 /\ e < NGenerated
    BY <1>1, <1>3 DEF Waiting
  <2> QED
    BY <1>2, <2>1, EventFacts DEF Activated
<1>5. \A s \in Slots : /\ Vacant(s) <=> s # 0
                       /\ Occupied(s) <=> s = 0
  BY <1>2, <1>3, EventFacts DEF Vacant, Occupied, EventOrNull
<1>6. Places
  <2>1. SlotInv
    BY <1>1, <1>2, <1>3, <1>5, EventFacts DEF SlotInv
  <2>2. HolderInv /\ WorkInv
    BY <1>2, <1>4, EventFacts DEF HolderInv, WorkInv, AtEvent
  <2>3. OnePlace
    BY <1>1, <1>3 DEF OnePlace
  <2>4. NotYet
    BY <1>2, <1>4, <1>5 DEF NotYet
  <2>5. Generated
    BY <1>2, EventFacts DEF Generated
  <2>6. HasSlot
    BY <1>2, <1>3, <1>4, EventFacts DEF HasSlot
  <2> QED
    BY <2>1, <2>2, <2>3, <2>4, <2>5, <2>6 DEF Places, PlaceInv
<1>7. InTransport = {} /\ \A e \in Events : TracksOf(e) = {} /\ BookedOf(e) = {}
  BY <1>2, <1>3 DEF InTransport, TracksOf, BookedOf
<1>8. \A e \in Events : /\ fNprimaries[e] = IF e < NGenerated THEN Primaries[e] ELSE 0
                        /\ fNtracks[e] = fNprimaries[e] /\ Fresh(e)
                        /\ Primaries[e] \in Nat \ {0}
  BY EventFacts DEF Init, Fresh
<1>9. Accounts
  <2>1. CounterInv
    BY <1>2, <1>4, <1>8, EventFacts DEF CounterInv, Cleared, Fresh
  <2>2. ClearInv /\ TrackInv /\ BookedInv /\ EndInv
    BY <1>2, <1>3 DEF ClearInv, TrackInv, BookedInv, EndInv
  <2>3. AccountInv
    <3>1. IsFiniteSet(InTransport)
      BY <1>7, FS_EmptySet
    <3>2. ASSUME NEW e \in Events
          PROVE  fNtracks[e] - fNdone[e]
                   = Cardinality(TracksOf(e)) + Cardinality(BookedOf(e)) + fNprimaries[e] - fNdispatched[e]
      BY <1>7, <1>8, FS_EmptySet DEF Fresh
    <3> QED
      BY <3>1, <3>2 DEF AccountInv
  <2> QED
    BY <2>1, <2>2, <2>3 DEF Accounts
<1>10. CountInv
  <2>1. Storing = {} /\ Counting = {} /\ Activateds = {0}
    BY <1>2, <1>4, EventFacts DEF Storing, Counting, Activateds
  <2>2. Cardinality({}) = 0 /\ Cardinality({0}) = 1
    BY FS_EmptySet, FS_Singleton
  <2> QED
    BY <2>1, <2>2, EventFacts DEF CountInv, Init
<1>11. PriorityCounted
  <2>1. {t \in Workers : pc[t] = "s_count"} = {} /\ {e \in Events \ fDoneEvents : fPrioritize[e]} = {}
    BY <1>2 DEF Init
  <2>2. Cardinality({}) = 0
    BY FS_EmptySet
  <2>3. fPriorityEvents = 0
    BY DEF Init
  <2> QED
    BY <2>1, <2>2, <2>3 DEF PriorityCounted
<1> QED
  BY <1>0, <1>6, <1>9, <1>10, <1>11 DEF IInv, ServerInv

\* Every step keeps it.
LEMMA InvStep == IInv /\ [Next]_vars => IInv'
<1> SUFFICES ASSUME ServerInv, CountInv, PriorityCounted, [Next]_vars PROVE IInv'
  BY DEF IInv
<1>1. ServerInv'
  BY TypeStep, PlacesStep, AccountsStep DEF ServerInv
<1>2. ASSUME NEW t \in Workers, Step(t) PROVE CountInv' /\ PriorityCounted'
  <2>1. CountInv'
    BY <1>2, StoredStep, ActiveStep DEF CountInv
  <2>2. PriorityCounted'
    BY <1>2, UrgentStep DEF PriorityCounted, Urging, Prioritized
  <2> QED
    BY <2>1, <2>2
<1>3. ASSUME UNCHANGED vars PROVE CountInv' /\ PriorityCounted'
  BY <1>3 DEF CountInv, PriorityCounted, Storing, Counting, Activateds, Activated, Waiting, Pending, Adding,
     Activating, vars, queues, flags, server, event, manager
<1> QED
  BY <1>1, <1>2, <1>3 DEF IInv, Next, Finished

\* The invariant holds in every reachable state of the server.
THEOREM ServerInvariant == Spec => []IInv
BY InvInit, InvStep, PTL DEF Spec

------------------------------------------------------------------------------
(* The properties                                                          *)

\* TypeOK: every variable keeps its type; fNactive and fNstored never pass the
\* number of events of the run (ActivateEvent, AddEvent).
THEOREM ServerTypeOK == Spec => []TypeOK
<1>1. IInv => TypeOK
  <2> SUFFICES ASSUME IInv PROVE TypeOK
    OBVIOUS
  <2>1. TypeInv /\ CountInv
    BY DEF IInv, ServerInv
  <2>2. /\ Cardinality(Storing) \in Nat /\ Cardinality(Counting) \in Nat /\ Cardinality(Activateds) \in Nat
    BY CountsFinite
  <2>3. Cardinality(Activateds) <= NEvents
    <3>1. IsFiniteSet(Events) /\ Cardinality(Events) = NEvents
      BY SizesAssumption, FS_Interval DEF Events
    <3>2. Activateds \subseteq Events
      BY DEF Activateds
    <3> QED
      BY <3>1, <3>2, FS_Subset
  <2>4. fNactive \in 0 .. NEvents /\ fNstored \in 0 .. NEvents
    BY <2>1, <2>2, <2>3, SizesAssumption DEF TypeInv, CountInv
  <2> QED
    BY <2>1, <2>4 DEF TypeInv, TypeOK
<1> QED
  BY <1>1, ServerInvariant, PTL

\* SlotConservation: no event slot leaks and none is given to two events.
THEOREM ServerSlotConservation == Spec => []SlotConservation
<1>1. IInv => SlotConservation
  <2> SUFFICES ASSUME IInv, NEW s \in Slots
      PROVE  Occurrences(fFreeSlots, s) + Cardinality({t \in Workers : Holds(t, s)}) + Ones(Occupied(s)) = 1
    BY DEF SlotConservation
  <2> DEFINE holders == {t \in Workers : Holds(t, s)}
  <2>1. SlotInv /\ fFreeSlots \in Seq(Slots)
    BY DEF IInv, ServerInv, TypeInv, Places
  <2>2. Occurrences(fFreeSlots, s) = IF Free(s) THEN 1 ELSE 0
    BY <2>1, OccursOnce DEF SlotInv, Occurrences, Free
  <2>3. Cardinality(holders) = IF holders = {} THEN 0 ELSE 1
    <3>1. IsFiniteSet(holders)
      BY WorkersAssumption, FS_Subset
    <3>2. \A t, u \in holders : t = u
      BY <2>1 DEF SlotInv
    <3> HIDE DEF holders
    <3> QED
      BY <3>1, <3>2, OneAtMost
  <2>4. Ones(Occupied(s)) = IF Occupied(s) THEN 1 ELSE 0
    BY DEF Ones
  <2>5. /\ Free(s) => holders = {} /\ ~ Occupied(s)
        /\ holders # {} => ~ Free(s) /\ ~ Occupied(s)
        /\ ~ Free(s) /\ holders = {} => Occupied(s)
    BY <2>1 DEF SlotInv, Occupied, Vacant
  <2> HIDE DEF holders
  <2>6. Occurrences(fFreeSlots, s) + Cardinality(holders) + Ones(Occupied(s)) = 1
    BY <2>2, <2>3, <2>4, <2>5
  <2> QED
    BY <2>6 DEF holders
<1> QED
  BY <1>1, ServerInvariant, PTL

\* EventConservation: no event is lost or served twice.
THEOREM ServerEventConservation == Spec => []EventConservation
<1>1. IInv => EventConservation
  <2> SUFFICES ASSUME IInv, NEW e \in Events
      PROVE  Cardinality({t \in Workers : pc[t] = "n_add" /\ loc[t].ev = e}) + Occurrences(fPendingEvents, e)
               + Cardinality({t \in Workers : pc[t] \in {"a_cas", "a_undo"} /\ fEvents[loc[t].slot] = e})
               + Cardinality({s \in Slots : Occupied(s) /\ fEvents[s] = e}) + Ones(~ Needed(e))
               = Ones(e < fNload)
    BY DEF EventConservation
  <2> DEFINE adding == {t \in Workers : pc[t] = "n_add" /\ loc[t].ev = e}
             activating == {t \in Workers : pc[t] \in {"a_cas", "a_undo"} /\ fEvents[loc[t].slot] = e}
             slots == {s \in Slots : Occupied(s) /\ fEvents[s] = e}
  <2>1. /\ OnePlace /\ NotYet /\ Generated /\ HasSlot /\ SlotInv
        /\ fPendingEvents \in Seq(Events) /\ fNload \in Nat /\ fSlot \in [Events -> Slots]
    BY DEF IInv, ServerInv, TypeInv, Places, PlaceInv
  <2>2. Occurrences(fPendingEvents, e) = IF Pending(e) THEN 1 ELSE 0
    BY <2>1, OccursOnce DEF OnePlace, Occurrences, Pending
  <2>3. /\ adding = {t \in Workers : Adding(t, e)}
        /\ activating = {t \in Workers : Activating(t, e)}
    BY DEF Adding, Activating
  <2>4. Cardinality(adding) = IF adding = {} THEN 0 ELSE 1
    <3>1. IsFiniteSet(adding)
      BY WorkersAssumption, FS_Subset
    <3>2. \A t, u \in adding : t = u
      BY <2>1, <2>3 DEF OnePlace
    <3> HIDE DEF adding
    <3> QED
      BY <3>1, <3>2, OneAtMost
  <2>5. Cardinality(activating) = IF activating = {} THEN 0 ELSE 1
    <3>1. IsFiniteSet(activating)
      BY WorkersAssumption, FS_Subset
    <3>2. \A t, u \in activating : t = u
      BY <2>1, <2>3 DEF OnePlace
    <3> HIDE DEF activating
    <3> QED
      BY <3>1, <3>2, OneAtMost
  <2>6. Cardinality(slots) = IF slots = {} THEN 0 ELSE 1
    <3>1. IsFiniteSet(slots)
      <4>1. IsFiniteSet(Slots)
        BY SizesAssumption, FS_Interval DEF Slots
      <4> QED
        BY <4>1, FS_Subset
    <3>2. \A r, s \in slots : r = s
      BY <2>1 DEF SlotInv
    <3> HIDE DEF slots
    <3> QED
      BY <3>1, <3>2, OneAtMost
  <2>7. /\ Ones(~ Needed(e)) = IF Needed(e) THEN 0 ELSE 1
        /\ Ones(e < fNload) = IF e < fNload THEN 1 ELSE 0
    BY DEF Ones
  <2>8. /\ adding # {} => activating = {} /\ ~ Pending(e)
        /\ Pending(e) => adding = {} /\ activating = {}
        /\ Waiting(e) <=> Pending(e) \/ adding # {} \/ activating # {}
    BY <2>1, <2>3 DEF OnePlace, Waiting
  <2>9. Waiting(e) => e < fNload /\ slots = {} /\ Needed(e)
    BY <2>1 DEF NotYet, Needed
  <2>10. ~ (e < fNload) => slots = {} /\ Needed(e)
    BY <2>1, EventFacts DEF Generated, Needed
  <2>11. ~ Needed(e) => slots = {}
    BY DEF Occupied
  <2>12. e < fNload /\ ~ Waiting(e) /\ Needed(e) => slots # {}
    BY <2>1, EventFacts DEF HasSlot, Activated, Occupied
  <2> HIDE DEF adding, activating, slots
  <2>13. Cardinality(adding) + Occurrences(fPendingEvents, e) + Cardinality(activating)
           + Cardinality(slots) + Ones(~ Needed(e)) = Ones(e < fNload)
    <3>1. CASE Waiting(e)
      BY <2>2, <2>4, <2>5, <2>6, <2>7, <2>8, <2>9, <3>1
    <3>2. CASE ~ Waiting(e)
      BY <2>2, <2>4, <2>5, <2>6, <2>7, <2>8, <2>10, <2>11, <2>12, <3>2
    <3> QED
      BY <3>1, <3>2
  <2> QED
    BY <2>13 DEF adding, activating, slots
<1> QED
  BY <1>1, ServerInvariant, PTL

\* TrackAccounting: an event ends when its last track ends and not before.
THEOREM ServerTrackAccounting == Spec => []TrackAccounting
<1>1. IInv => TrackAccounting
  <2> SUFFICES ASSUME IInv, NEW e \in Events
      PROVE  IF e \in fDoneEvents THEN Cardinality(TracksOf(e)) + Cardinality(BookedOf(e)) = 0
             ELSE fNtracks[e] - fNdone[e]
                    = Cardinality(TracksOf(e)) + Cardinality(BookedOf(e)) + fNprimaries[e] - fNdispatched[e]
    BY DEF TrackAccounting, TracksOf, BookedOf
  <2>1. ServerInv
    BY DEF IInv
  <2>2. CASE e \in fDoneEvents
    <3>1. TracksOf(e) = {}
      BY <2>1, <2>2, TrackFound DEF TracksOf, InTransport
    <3>2. BookedOf(e) = {}
      BY <2>1, <2>2 DEF BookedOf, ServerInv, Accounts, BookedInv
    <3> QED
      BY <2>2, <3>1, <3>2, FS_EmptySet
  <2>3. CASE e \notin fDoneEvents
    BY <2>1, <2>3 DEF ServerInv, Accounts, AccountInv
  <2> QED
    BY <2>2, <2>3
<1> QED
  BY <1>1, ServerInvariant, PTL

\* TrackFindsEvent: as long as a track is in transport its slot has its event.
THEOREM ServerTrackFindsEvent == Spec => []TrackFindsEvent
<1>1. IInv => TrackFindsEvent
  BY TrackFound DEF IInv, TrackFindsEvent, InTransport
<1> QED
  BY <1>1, ServerInvariant, PTL

\* EndsOnce: of all the workers that stop tracks of an event, one ends it.
THEOREM ServerEndsOnce == Spec => []EndsOnce
<1>1. IInv => EndsOnce
  <2> SUFFICES ASSUME IInv, NEW t \in Workers, pc[t] = "t_done"
      PROVE  /\ loc[t].ev \notin fDoneEvents
             /\ \A u \in Workers \ {t} : pc[u] = "t_done" => loc[u].ev # loc[t].ev
    BY DEF EndsOnce
  <2>1. EndInv
    BY DEF IInv, ServerInv, Accounts
  <2>2. ASSUME NEW u \in Workers \ {t}, pc[u] = "t_done", loc[u].ev = loc[t].ev PROVE FALSE
    <3>1. loc[t].n = fNtracks[loc[t].ev] /\ loc[u].n = fNtracks[loc[u].ev]
      BY <2>1, <2>2 DEF EndInv
    <3>2. loc[t].n # loc[u].n
      BY <2>1, <2>2 DEF EndInv
    <3> QED
      BY <2>2, <3>1, <3>2
  <2> QED
    BY <2>1, <2>2 DEF EndInv
<1> QED
  BY <1>1, ServerInvariant, PTL

\* PriorityCounted: the limit on prioritized events holds.
THEOREM ServerPriorityCounted == Spec => []PriorityCounted
<1>1. IInv => PriorityCounted
  BY DEF IInv
<1> QED
  BY <1>1, ServerInvariant, PTL

------------------------------------------------------------------------------
(* Why the workers may all be asleep.  A worker suspends itself when it     *)
(* flushed and again got nothing, and nobody starts it before the end of    *)
(* the run.  So whenever there is something to take, some other worker must *)
(* be about to take it.                                                     *)

\* An event that still has primaries to give out.
HasPrimaries(e) == fNdispatched[e] < fNprimaries[e]

\* The attempt of the worker is the one after which it suspends itself.
Misses(t) == flushed[t] /\ ~ loc[t].got
Resting(t) == pc[t] \in {"idle", "wait", "exit"}

\* In an attempt, and in ActivateEvent up to the exchange on fEvent.
Trying == {"a_served", "g_nomore", "a_slot", "a_clear", "a_clear2", "a_pending", "a_giveup", "a_cas"}
Asking == {"f_served", "g_load", "g_book", "g_valid", "g_clone", "b_book", "b_valid",
           "a_undo", "a_undo2", "a_count", "a_flag", "a_has"} \union Trying
Busy == {"step", "flush", "s_left", "s_urge", "s_count", "t_done", "t_slot",
         "n_lock", "n_load", "n_add", "n_stored", "n_served", "n_has"}

\* The worker will still try to book a primary of the present event.
WillBook(t) ==
  /\ ~ Resting(t)
  /\ Misses(t) => /\ pc[t] \notin Trying
                  /\ pc[t] = "g_book" => loc[t].ev = fEvent
                  /\ pc[t] = "g_valid" => Valid(t)

\* The worker will still look for a slot and for a pending event.
WillActivate(t) == ~ Resting(t) /\ (Misses(t) => pc[t] \notin {"g_nomore", "a_giveup"})

\* A worker that may suspend itself has no track.
FlushInv ==
  \A t \in Workers :
    /\ pc[t] = "step" => ~ flushed[t]
    /\ pc[t] \in {"flush", "idle", "wait"} => flushed[t]
    /\ loc[t].got => pc[t] \in Asking \ {"f_served"}
    /\ pc[t] \in Asking \union {"feed", "idle", "wait"} /\ Misses(t) => buffer[t] = {}

\* The flags of the server are cleared when the last event was activated.
ServedInv ==
  /\ fEventsServed \/ ~ fHasTracks => fNactive = NEvents
  /\ \A t \in Workers : /\ pc[t] = "g_nomore" => fNactive = NEvents
                        /\ pc[t] = "a_flag" => loc[t].n <= fNactive
                        /\ pc[t] = "exit" => fDoneEvents = Events

\* Only the present event has primaries left, and a worker gives up on an event
\* that has none.
DispatchedInv ==
  /\ \A e \in Events : Activated(e) /\ HasPrimaries(e) => e = fEvent
  /\ \A t \in Workers : pc[t] \in Trying \/ (pc[t] = "g_valid" /\ ~ Valid(t)) => ~ HasPrimaries(loc[t].ev)

\* An event that has no track left is about to be ended.
LastInv ==
  \A e \in Events : Activated(e) /\ e \notin fDoneEvents /\ fNtracks[e] = fNdone[e] =>
    \E t \in Workers : pc[t] \in {"s_left", "t_done"} /\ loc[t].ev = e /\ loc[t].n = fNtracks[e]

\* There is always an event that is not done, or about to be generated.
GenerateInv ==
  \/ fNload = NEvents
  \/ \E e \in Events : e < fNload /\ e \notin fDoneEvents
  \/ \E t \in Workers : pc[t] \in {"t_slot", "n_lock", "n_load"}

\* After the last event somebody leaves, and starts the next one.
LeaverInv ==
  fDoneEvents = Events =>
    \/ \A t \in Workers : pc[t] = "exit"
    \/ \A p \in Propagators : fCanStart[p]
    \/ \E t \in Workers : pc[t] \in Busy \union {"feed"}

Open == fHasTracks /\ ~ fInitialPhase
BookerInv == Open /\ HasPrimaries(fEvent) => \E t \in Workers : WillBook(t)
ActivatorInv == Open /\ fPendingEvents # <<>> => \E t \in Workers : WillActivate(t)

OnePropagator == \A t, u \in Workers : Propagator[t] = Propagator[u]

AwakeInv == /\ FlushInv /\ ServedInv /\ DispatchedInv /\ LastInv /\ GenerateInv /\ LeaverInv
            /\ BookerInv /\ ActivatorInv

\* A step is one worker's.
LEMMA OthersKept ==
  ASSUME ServerInv, NEW t \in Workers, Step(t), NEW u \in Workers, u # t
  PROVE  pc'[u] = pc[u] /\ loc'[u] = loc[u] /\ buffer'[u] = buffer[u] /\ flushed'[u] = flushed[u]
<1>0. /\ pc \in [Workers -> Labels] /\ loc \in [Workers -> Locals]
      /\ buffer \in [Workers -> SUBSET Tracks] /\ flushed \in [Workers -> BOOLEAN]
  BY DEF ServerInv, TypeInv
<1> DEFINE Kept == pc'[u] = pc[u] /\ loc'[u] = loc[u] /\ buffer'[u] = buffer[u] /\ flushed'[u] = flushed[u]
<1>1. CASE Suspend(t) \/ Wake(t) \/ Exit(t) \/ BackToFeed(t)
  BY <1>0, <1>1 DEF Suspend, Wake, Exit, BackToFeed, Goto, idle
<1>2. CASE FeedNothing(t) \/ Feed(t) \/ CountServed(t)
  BY <1>0, <1>2 DEF FeedNothing, Feed, CountServed, Return, Goto, Keep, idle
<1>3. CASE LoadEvent(t) \/ Book(t) \/ CheckBooked(t) \/ Clone(t)
  BY <1>0, <1>3 DEF LoadEvent, Book, CheckBooked, Clone, Return, Goto, Keep, idle
<1>4. CASE CheckServed(t) \/ NoMoreTracks(t) \/ TakeSlot(t) \/ NoSlot(t)
  BY <1>0, <1>4 DEF CheckServed, NoMoreTracks, TakeSlot, NoSlot, Return, Goto, Keep, idle
<1>5. CASE ClearOld(t) \/ ClearDispatched(t) \/ TakePending(t) \/ NoPending(t) \/ ReturnSlot(t)
  BY <1>0, <1>5 DEF ClearOld, ClearDispatched, TakePending, NoPending, ReturnSlot, Return, Goto, Keep, idle
<1>6. CASE Replace(t) \/ Overtaken(t) \/ UndoPending(t) \/ UndoSlot(t)
  BY <1>0, <1>6 DEF Replace, Overtaken, UndoPending, UndoSlot, Goto, Keep, idle
<1>7. CASE CountActive(t) \/ FlagServed(t) \/ FlagHasTracks(t)
  BY <1>0, <1>7 DEF CountActive, FlagServed, FlagHasTracks, Goto, Keep, idle
<1>8. ASSUME NEW k \in buffer[t], AddTrack(t, k) \/ StopTrack(t, k) PROVE Kept
  BY <1>0, <1>8 DEF AddTrack, StopTrack, Goto, idle
<1>9. CASE CheckLeft(t) \/ Prioritize(t) \/ CountPriority(t) \/ EventTransported(t)
  BY <1>0, <1>9 DEF CheckLeft, Prioritize, CountPriority, EventTransported, Resume, Goto, idle
<1>10. CASE CompletedEvent(t) \/ LockGenerator(t) \/ GenerateNewEvent(t) \/ AddEvent(t)
  BY <1>0, <1>10 DEF CompletedEvent, LockGenerator, GenerateNewEvent, AddEvent, Resume, Goto, Keep, idle
<1>11. CASE CountStored(t) \/ ResetServed(t) \/ ResetHasTracks(t)
  BY <1>0, <1>11 DEF CountStored, ResetServed, ResetHasTracks, Resume, Goto, idle
<1> QED
  BY <1>1, <1>2, <1>3, <1>4, <1>5, <1>6, <1>7, <1>8, <1>9, <1>10, <1>11
  DEF Step, Work, GetTracks, ActivateEvent, Transport

\* Which actions write the state of the server that the workers look at.
LEMMA Writers ==
  ASSUME NEW t \in Workers, Step(t)
  PROVE  /\ fHasTracks' = fHasTracks \/ NoMoreTracks(t) \/ FlagHasTracks(t) \/ ResetHasTracks(t)
         /\ fEventsServed' = fEventsServed \/ FlagServed(t) \/ ResetServed(t)
         /\ fInitialPhase' = fInitialPhase \/ CountServed(t)
         /\ fEvent' = fEvent \/ Replace(t)
         /\ fNactive' = fNactive \/ CountActive(t)
         /\ fDoneEvents' = fDoneEvents \/ EventTransported(t)
         /\ fNload' = fNload \/ GenerateNewEvent(t)
         /\ fCanStart' = fCanStart \/ Wake(t) \/ Exit(t)
         /\ fPendingEvents' = fPendingEvents \/ TakePending(t) \/ UndoPending(t) \/ AddEvent(t)
         /\ fNdispatched' = fNdispatched \/ Book(t) \/ ClearDispatched(t)
         /\ fNprimaries' = fNprimaries \/ ClearOld(t) \/ GenerateNewEvent(t)
         /\ fNtracks' = fNtracks \/ ClearOld(t) \/ GenerateNewEvent(t) \/ \E k \in buffer[t] : AddTrack(t, k)
         /\ fNdone' = fNdone \/ ClearOld(t) \/ \E k \in buffer[t] : StopTrack(t, k)
<1>1. CASE Suspend(t) \/ Wake(t) \/ Exit(t) \/ BackToFeed(t)
  BY <1>1 DEF Suspend, Wake, Exit, BackToFeed, queues, flags, server, phase, event, manager, idle
<1>2. CASE FeedNothing(t) \/ Feed(t) \/ CountServed(t)
  BY <1>2 DEF FeedNothing, Feed, CountServed, queues, flags, server, phase, event, manager, idle
<1>3. CASE LoadEvent(t) \/ Book(t) \/ CheckBooked(t) \/ Clone(t)
  BY <1>3 DEF LoadEvent, Book, CheckBooked, Clone, queues, flags, server, phase, event, manager, idle
<1>4. CASE CheckServed(t) \/ NoMoreTracks(t) \/ TakeSlot(t) \/ NoSlot(t)
  BY <1>4 DEF CheckServed, NoMoreTracks, TakeSlot, NoSlot, queues, flags, server, phase, event, manager, idle
<1>5. CASE ClearOld(t) \/ ClearDispatched(t) \/ TakePending(t) \/ NoPending(t) \/ ReturnSlot(t)
  BY <1>5 DEF ClearOld, ClearDispatched, TakePending, NoPending, ReturnSlot, queues, flags, server, phase, event, manager, idle
<1>6. CASE Replace(t) \/ Overtaken(t) \/ UndoPending(t) \/ UndoSlot(t)
  BY <1>6 DEF Replace, Overtaken, UndoPending, UndoSlot, queues, flags, server, phase, event, manager, idle
<1>7. CASE CountActive(t) \/ FlagServed(t) \/ FlagHasTracks(t)
  BY <1>7 DEF CountActive, FlagServed, FlagHasTracks, queues, flags, server, phase, event, manager, idle
<1>8. CASE \E k \in buffer[t] : AddTrack(t, k) \/ StopTrack(t, k)
  BY <1>8 DEF AddTrack, StopTrack, queues, flags, server, phase, event, manager, idle
<1>9. CASE CheckLeft(t) \/ Prioritize(t) \/ CountPriority(t) \/ EventTransported(t)
  BY <1>9 DEF CheckLeft, Prioritize, CountPriority, EventTransported, queues, flags, server, phase, event, manager, idle
<1>10. CASE CompletedEvent(t) \/ LockGenerator(t) \/ GenerateNewEvent(t) \/ AddEvent(t)
  BY <1>10 DEF CompletedEvent, LockGenerator, GenerateNewEvent, AddEvent, queues, flags, server, phase, event, manager, idle
<1>11. CASE CountStored(t) \/ ResetServed(t) \/ ResetHasTracks(t)
  BY <1>11 DEF CountStored, ResetServed, ResetHasTracks, queues, flags, server, phase, event, manager, idle
<1> QED
  BY <1>1, <1>2, <1>3, <1>4, <1>5, <1>6, <1>7, <1>8, <1>9, <1>10, <1>11
  DEF Step, Work, GetTracks, ActivateEvent, Transport

\* Where a worker is after its attempt.
LEMMA Returned ==
  ASSUME ServerInv, NEW t \in Workers, NEW injected \in BOOLEAN, Return(t, injected)
  PROVE  /\ injected => pc'[t] = "step"
         /\ ~ injected /\ flushed[t] => pc'[t] = "idle"
         /\ ~ injected /\ ~ flushed[t] => pc'[t] = "flush"
         /\ flushed'[t] <=> ~ injected
         /\ loc'[t] = NoLocals /\ loc'[t].got = FALSE
BY DEF ServerInv, TypeInv, Return, Goto, NoLocals

\* A worker that is about to suspend itself has flushed, and got nothing since.
LEMMA FlushStep ==
  ASSUME ServerInv, FlushInv, NEW t \in Workers, Step(t)
  PROVE  FlushInv'
<1> DEFINE Ok(u) == /\ pc[u] = "step" => ~ flushed[u]
                    /\ pc[u] \in {"flush", "idle", "wait"} => flushed[u]
                    /\ loc[u].got => pc[u] \in Asking \ {"f_served"}
                    /\ pc[u] \in Asking \union {"feed", "idle", "wait"} /\ Misses(u) => buffer[u] = {}
<1>0. /\ pc \in [Workers -> Labels] /\ loc \in [Workers -> Locals]
      /\ buffer \in [Workers -> SUBSET Tracks] /\ flushed \in [Workers -> BOOLEAN]
  BY DEF ServerInv, TypeInv
<1>ok. Ok(t)
  BY DEF FlushInv
<1>kept. ASSUME NEW u \in Workers, u # t PROVE Ok(u)'
  <2>1. Ok(u)
    BY DEF FlushInv
  <2> QED
    BY <1>kept, <2>1, OthersKept DEF Misses
<1> SUFFICES Ok(t)'
  BY <1>kept DEF FlushInv
<1>1. CASE Suspend(t) \/ Wake(t) \/ Exit(t) \/ BackToFeed(t)
  BY <1>0, <1>ok, <1>1 DEF Suspend, Wake, Exit, BackToFeed, Goto, idle, Misses, Asking, Trying, Locals
<1>2. CASE FeedNothing(t)
  <2>1. Return(t, FALSE) /\ pc[t] = "feed" /\ buffer' = buffer
    BY <1>2 DEF FeedNothing
  <2> QED
    BY <1>ok, <2>1, Returned DEF Misses, Asking, Trying
<1>13. CASE Feed(t) \/ CountServed(t)
  BY <1>0, <1>ok, <1>13 DEF Feed, CountServed, Goto, Keep, idle, Misses, Asking, Trying, Locals
<1>3. CASE LoadEvent(t) \/ Book(t) \/ CheckBooked(t)
  BY <1>0, <1>ok, <1>3 DEF LoadEvent, Book, CheckBooked, Goto, Keep, idle, Misses, Asking, Trying, Locals
<1>4. CASE Clone(t)
  <2>1. CASE loc[t].room > 1
    <3>1. /\ pc[t] = "g_clone" /\ pc'[t] = "g_load" /\ flushed' = flushed
          /\ loc'[t].got = TRUE
      BY <1>0, <1>4, <2>1 DEF Clone, NoLocals, Goto
    <3> QED
      BY <1>ok, <3>1 DEF Misses, Asking, Trying
  <2>2. CASE ~ (loc[t].room > 1)
    <3>1. Return(t, TRUE)
      BY <1>4, <2>2 DEF Clone
    <3> QED
      BY <3>1, Returned DEF Misses, Asking, Trying
  <2> QED
    BY <2>1, <2>2
<1>5. CASE NoMoreTracks(t) \/ NoSlot(t) \/ ReturnSlot(t)
  <2>1. Return(t, loc[t].got) /\ pc[t] \in {"g_nomore", "a_slot", "a_giveup"} /\ buffer' = buffer
    BY <1>5 DEF NoMoreTracks, NoSlot, ReturnSlot
  <2>2. loc[t].got \in BOOLEAN
    BY <1>0 DEF Locals
  <2> QED
    BY <1>ok, <2>1, <2>2, Returned DEF Misses, Asking, Trying
<1>14. CASE CheckServed(t) \/ TakeSlot(t)
  BY <1>0, <1>ok, <1>14 DEF CheckServed, TakeSlot, Goto, Keep, idle, Misses, Asking, Trying, Locals
<1>6. CASE ClearOld(t) \/ ClearDispatched(t)
  BY <1>0, <1>ok, <1>6 DEF ClearOld, ClearDispatched, Goto, Keep, idle, Misses, Asking, Trying, Locals
<1>15. CASE TakePending(t) \/ NoPending(t)
  BY <1>0, <1>ok, <1>15 DEF TakePending, NoPending, Goto, idle, Misses, Asking, Trying, Locals
<1>7. CASE Replace(t) \/ Overtaken(t)
  BY <1>0, <1>ok, <1>7 DEF Replace, Overtaken, Goto, Keep, idle, Misses, Asking, Trying, Locals
<1>16. CASE UndoPending(t) \/ UndoSlot(t)
  BY <1>0, <1>ok, <1>16 DEF UndoPending, UndoSlot, Goto, Keep, idle, Misses, Asking, Trying, Locals
<1>8. CASE CountActive(t) \/ FlagServed(t) \/ FlagHasTracks(t)
  BY <1>0, <1>ok, <1>8 DEF CountActive, FlagServed, FlagHasTracks, Goto, Keep, idle, Misses, Asking, Trying, Locals
<1>9. CASE \E k \in buffer[t] : AddTrack(t, k) \/ StopTrack(t, k)
  BY <1>0, <1>ok, <1>9 DEF AddTrack, StopTrack, Stepping, Goto, idle, Misses, Asking, Trying, Locals
<1>10. CASE CheckLeft(t) \/ Prioritize(t) \/ CountPriority(t) \/ EventTransported(t)
  BY <1>0, <1>ok, <1>10 DEF CheckLeft, Prioritize, CountPriority, EventTransported, Resume, NoLocals, Goto, idle, Misses, Asking, Trying, Locals
<1>11. CASE CompletedEvent(t) \/ LockGenerator(t) \/ GenerateNewEvent(t) \/ AddEvent(t)
  BY <1>0, <1>ok, <1>11 DEF CompletedEvent, LockGenerator, GenerateNewEvent, AddEvent, Resume, NoLocals, Goto, Keep, idle, Misses, Asking, Trying, Locals
<1>12. CASE CountStored(t) \/ ResetServed(t) \/ ResetHasTracks(t)
  BY <1>0, <1>ok, <1>12 DEF CountStored, ResetServed, ResetHasTracks, Resume, NoLocals, Goto, idle, Misses, Asking, Trying, Locals
<1> QED
  BY <1>1, <1>2, <1>3, <1>4, <1>5, <1>6, <1>7, <1>8, <1>9, <1>10, <1>11, <1>12, <1>13, <1>14, <1>15, <1>16
  DEF Step, Work, GetTracks, ActivateEvent, Transport

\* Where a worker comes from.
LEMMA LabelStep ==
  ASSUME ServerInv, NEW t \in Workers, Step(t)
  PROVE  /\ pc[t] # "exit"
         /\ pc[t] \in Busy => pc'[t] \in Busy \union {"feed"}
         /\ pc[t] = "feed" => FeedNothing(t) \/ Feed(t) \/ Exit(t)
         /\ pc[t] = "t_slot" => pc'[t] = "n_lock"
         /\ pc[t] = "n_lock" => pc'[t] = "n_load"
         /\ pc[t] = "n_load" => GenerateNewEvent(t)
         /\ pc[t] = "t_done" => EventTransported(t)
         /\ pc[t] = "s_left" => CheckLeft(t)
         /\ pc'[t] = "g_nomore" => CheckServed(t)
         /\ pc'[t] = "a_flag" => CountActive(t)
         /\ pc'[t] = "exit" => Exit(t)
<1>0. pc \in [Workers -> Labels]
  BY DEF ServerInv, TypeInv
<1>1. CASE Suspend(t) \/ Wake(t) \/ Exit(t) \/ BackToFeed(t)
  BY <1>0, <1>1 DEF Suspend, Wake, Exit, BackToFeed, Goto, Busy
<1>2. CASE FeedNothing(t) \/ Feed(t) \/ CountServed(t)
  BY <1>0, <1>2 DEF FeedNothing, Feed, CountServed, Return, Goto, Busy
<1>3. CASE LoadEvent(t) \/ Book(t) \/ CheckBooked(t) \/ Clone(t)
  BY <1>0, <1>3 DEF LoadEvent, Book, CheckBooked, Clone, Return, Goto, Busy
<1>4. CASE CheckServed(t) \/ NoMoreTracks(t) \/ TakeSlot(t) \/ NoSlot(t)
  BY <1>0, <1>4 DEF CheckServed, NoMoreTracks, TakeSlot, NoSlot, Return, Goto, Busy
<1>5. CASE ClearOld(t) \/ ClearDispatched(t) \/ TakePending(t) \/ NoPending(t) \/ ReturnSlot(t)
  BY <1>0, <1>5 DEF ClearOld, ClearDispatched, TakePending, NoPending, ReturnSlot, Return, Goto, Busy
<1>6. CASE Replace(t) \/ Overtaken(t) \/ UndoPending(t) \/ UndoSlot(t)
  BY <1>0, <1>6 DEF Replace, Overtaken, UndoPending, UndoSlot, Goto, Busy
<1>7. CASE CountActive(t) \/ FlagServed(t) \/ FlagHasTracks(t)
  BY <1>0, <1>7 DEF CountActive, FlagServed, FlagHasTracks, Goto, Busy
<1>8. CASE \E k \in buffer[t] : AddTrack(t, k) \/ StopTrack(t, k)
  BY <1>0, <1>8 DEF AddTrack, StopTrack, Stepping, Goto, Busy
<1>9. CASE CheckLeft(t) \/ Prioritize(t) \/ CountPriority(t) \/ EventTransported(t)
  BY <1>0, <1>9 DEF CheckLeft, Prioritize, CountPriority, EventTransported, Resume, Goto, Busy
<1>10. CASE CompletedEvent(t) \/ LockGenerator(t) \/ GenerateNewEvent(t) \/ AddEvent(t)
  BY <1>0, <1>10 DEF CompletedEvent, LockGenerator, GenerateNewEvent, AddEvent, Resume, Goto, Busy
<1>11. CASE CountStored(t) \/ ResetServed(t) \/ ResetHasTracks(t)
  BY <1>0, <1>11 DEF CountStored, ResetServed, ResetHasTracks, Resume, Goto, Busy
<1> QED
  BY <1>1, <1>2, <1>3, <1>4, <1>5, <1>6, <1>7, <1>8, <1>9, <1>10, <1>11
  DEF Step, Work, GetTracks, ActivateEvent, Transport

\* A worker comes to ActivateEvent, or on in it, with the event that it found
\* dispatched.
LEMMA TryingStep ==
  ASSUME ServerInv, NEW t \in Workers, Step(t), ~ Book(t),
         pc'[t] \in Trying \/ pc'[t] = "g_valid"
  PROVE  /\ pc[t] \in Trying \/ (pc[t] = "g_valid" /\ ~ Valid(t))
         /\ loc'[t].ev = loc[t].ev
<1>0. pc \in [Workers -> Labels] /\ loc \in [Workers -> Locals]
  BY DEF ServerInv, TypeInv
<1>1. CASE Suspend(t) \/ Wake(t) \/ Exit(t) \/ BackToFeed(t)
  BY <1>0, <1>1 DEF Suspend, Wake, Exit, BackToFeed, Goto, Trying
<1>2. CASE FeedNothing(t) \/ Feed(t) \/ CountServed(t)
  BY <1>0, <1>2 DEF FeedNothing, Feed, CountServed, Return, Goto, Trying
<1>3. CASE LoadEvent(t) \/ CheckBooked(t) \/ Clone(t)
  BY <1>0, <1>3 DEF LoadEvent, CheckBooked, Clone, Return, Goto, Keep, Trying, Locals
<1>4. CASE NoMoreTracks(t) \/ NoSlot(t) \/ ReturnSlot(t)
  <2>1. Return(t, loc[t].got) /\ loc[t].got \in BOOLEAN /\ flushed[t] \in BOOLEAN
    BY <1>4 DEF NoMoreTracks, NoSlot, ReturnSlot, ServerInv, TypeInv, Locals
  <2> QED
    BY <2>1, Returned DEF Trying
<1>12. CASE CheckServed(t) \/ TakeSlot(t)
  BY <1>0, <1>12 DEF CheckServed, TakeSlot, Goto, Keep, Trying, Locals
<1>5. CASE ClearOld(t) \/ ClearDispatched(t)
  BY <1>0, <1>5 DEF ClearOld, ClearDispatched, Goto, Keep, Trying, Locals
<1>13. CASE TakePending(t) \/ NoPending(t)
  BY <1>0, <1>13 DEF TakePending, NoPending, Goto, Trying
<1>6. CASE Replace(t) \/ Overtaken(t) \/ UndoPending(t) \/ UndoSlot(t)
  BY <1>0, <1>6 DEF Replace, Overtaken, UndoPending, UndoSlot, Goto, Trying
<1>7. CASE CountActive(t) \/ FlagServed(t) \/ FlagHasTracks(t)
  BY <1>0, <1>7 DEF CountActive, FlagServed, FlagHasTracks, Goto, Trying
<1>8. CASE \E k \in buffer[t] : AddTrack(t, k) \/ StopTrack(t, k)
  BY <1>0, <1>8 DEF AddTrack, StopTrack, Stepping, Goto, Trying
<1>9. CASE CheckLeft(t) \/ Prioritize(t) \/ CountPriority(t) \/ EventTransported(t)
  BY <1>0, <1>9 DEF CheckLeft, Prioritize, CountPriority, EventTransported, Resume, Goto, Trying
<1>10. CASE CompletedEvent(t) \/ LockGenerator(t) \/ GenerateNewEvent(t) \/ AddEvent(t)
  BY <1>0, <1>10 DEF CompletedEvent, LockGenerator, GenerateNewEvent, AddEvent, Resume, Goto, Trying
<1>11. CASE CountStored(t) \/ ResetServed(t) \/ ResetHasTracks(t)
  BY <1>0, <1>11 DEF CountStored, ResetServed, ResetHasTracks, Resume, Goto, Trying
<1> QED
  BY <1>1, <1>2, <1>3, <1>4, <1>5, <1>6, <1>7, <1>8, <1>9, <1>10, <1>11, <1>12, <1>13
  DEF Step, Work, GetTracks, ActivateEvent, Transport

\* Replace activates an event, and nothing else does.
LEMMA ActivatedKept ==
  ASSUME ServerInv, NEW t \in Workers, Step(t), NEW e \in Events
  PROVE  Activated(e)' <=> Activated(e) \/ (Replace(t) /\ e = fEvent')
<1>1. CASE Replace(t)
  <2>1. PICK e0 \in Events : e0 = fEvent'
    BY <1>1, PlacesReplace
  <2>2. /\ Waiting(e)' <=> Waiting(e) /\ e # e0
        /\ Waiting(e0)
    BY <1>1, <2>1, PlacesReplace
  <2>3. e0 < fNload /\ fNload' = fNload
    BY <1>1, <2>2 DEF Replace, ServerInv, Places, PlaceInv, NotYet
  <2> QED
    BY <1>1, <2>1, <2>2, <2>3 DEF Activated
<1>2. CASE GenerateNewEvent(t) /\ fNload < NEvents
  <2>0. ~ (fNload >= NEvents) /\ fNload \in Nat /\ e \in Nat
    BY <1>2, SizesAssumption, EventFacts DEF ServerInv, TypeInv
  <2>1. (Waiting(e)' <=> Waiting(e) \/ e = fNload) /\ fNload' = fNload + 1 /\ ~ Replace(t)
    BY <1>2, <2>0, PlacesGenerate DEF GenerateNewEvent, Replace
  <2>2. e < fNload + 1 <=> e < fNload \/ e = fNload
    BY <2>0
  <2>3. ~ (fNload < fNload)
    BY <2>0
  <2> QED
    BY <2>1, <2>2, <2>3 DEF Activated
<1>3. CASE ~ Replace(t) /\ ~ (GenerateNewEvent(t) /\ fNload < NEvents)
  <2>1. Waiting(e)' <=> Waiting(e)
    <3>1. CASE GetTracks(t) \/ Exit(t) \/ BackToFeed(t)
      BY <3>1, PlacesStill
    <3>2. CASE ActivateEvent(t)
      BY <1>3, <3>2, PlacesStill, PlacesStillHolder, PlacesTakeSlot, PlacesClearOld, PlacesTakePending,
         PlacesReturnSlot, PlacesUndoPending, PlacesUndoSlot DEF ActivateEvent
    <3>3. CASE Transport(t)
      BY <1>3, <3>3, PlacesStill, PlacesTransported, PlacesCompleted, PlacesAddEvent DEF Transport
    <3> QED
      BY <3>1, <3>2, <3>3 DEF Step, Work
  <2>2. fNload' = fNload
    <3>1. CountStored(t) => fNload' = fNload
      BY DEF CountStored
    <3> QED
      BY <1>3, <3>1, CountersKept
  <2> QED
    BY <1>3, <2>1, <2>2 DEF Activated
<1> QED
  BY <1>1, <1>2, <1>3

\* fNactive does not pass the number of events.
LEMMA ActiveBound == ASSUME ServerInv, CountInv PROVE fNactive \in Nat /\ fNactive <= NEvents
<1>1. IsFiniteSet(Events) /\ Cardinality(Events) = NEvents
  BY SizesAssumption, FS_Interval DEF Events
<1>2. Activateds \subseteq Events
  BY DEF Activateds
<1>3. Cardinality(Activateds) <= NEvents
  BY <1>1, <1>2, FS_Subset
<1>4. Cardinality(Counting) \in Nat /\ Cardinality(Activateds) \in Nat
  BY CountsFinite
<1> QED
  BY <1>3, <1>4, SizesAssumption DEF ServerInv, TypeInv, CountInv

\* Nor does it after a step.
LEMMA ActiveBoundNext == ASSUME ServerInv', CountInv' PROVE fNactive' \in Nat /\ fNactive' <= NEvents
<1>1. IsFiniteSet(Events) /\ Cardinality(Events) = NEvents
  BY SizesAssumption, FS_Interval DEF Events
<1>2. Activateds' \subseteq Events /\ Counting' \subseteq Workers
  BY DEF Activateds, Counting
<1>3. IsFiniteSet(Activateds') /\ Cardinality(Activateds') <= NEvents /\ IsFiniteSet(Counting')
  BY <1>1, <1>2, WorkersAssumption, FS_Subset
<1>4. Cardinality(Counting') \in Nat /\ Cardinality(Activateds') \in Nat
  BY <1>3, FS_CardinalityType
<1> QED
  BY <1>3, <1>4, SizesAssumption DEF ServerInv, TypeInv, CountInv

\* When all events are activated none is pending.
LEMMA AllActivated ==
  ASSUME ServerInv, CountInv, fNactive = NEvents
  PROVE  /\ \A e \in Events : Activated(e)
         /\ fPendingEvents = <<>>
<1>1. IsFiniteSet(Events) /\ Cardinality(Events) = NEvents /\ NEvents \in Nat
  BY SizesAssumption, FS_Interval DEF Events
<1>2. Activateds \subseteq Events
  BY DEF Activateds
<1>3. Cardinality(Counting) \in Nat /\ Cardinality(Activateds) \in Nat
  BY CountsFinite
<1>4. Cardinality(Activateds) <= NEvents
  BY <1>1, <1>2, FS_Subset
<1>5. Cardinality(Activateds) = NEvents
  BY <1>1, <1>3, <1>4 DEF CountInv
<1>6. Activateds = Events
  BY <1>1, <1>2, <1>5, FS_Subset
<1>7. \A e \in Events : ~ Pending(e)
  BY <1>6 DEF Activateds, Activated, Waiting
<1>8. fPendingEvents \in Seq(Events)
  BY DEF ServerInv, TypeInv
<1>9. ASSUME fPendingEvents # <<>> PROVE FALSE
  <2>1. 1 \in DOMAIN fPendingEvents /\ fPendingEvents[1] \in Events
    BY <1>8, <1>9
  <2> QED
    BY <1>7, <2>1 DEF Pending, Range
<1> QED
  BY <1>6, <1>9 DEF Activateds

\* The flags are only cleared, and workers only leave, at the end.
LEMMA ServedStep ==
  ASSUME ServerInv, CountInv, ServerInv', CountInv', ServedInv, NEW t \in Workers, Step(t)
  PROVE  ServedInv'
<1>0. /\ pc \in [Workers -> Labels] /\ loc \in [Workers -> Locals]
      /\ fNactive \in Nat /\ fNactive <= NEvents /\ NEvents \in Nat
      /\ fNactive' \in Nat /\ fNactive' <= NEvents
      /\ fDoneEvents \subseteq Events /\ fDoneEvents' \subseteq Events
  BY ActiveBound, ActiveBoundNext, SizesAssumption DEF ServerInv, TypeInv
<1>1. fNactive' = fNactive \/ fNactive' = fNactive + 1
  BY Writers DEF CountActive
<1>2. fNactive = NEvents => fNactive' = NEvents
  BY <1>0, <1>1
<1>3. fDoneEvents = Events => fDoneEvents' = Events
  BY <1>0, Writers DEF EventTransported
<1>4. ASSUME fEventsServed' \/ ~ fHasTracks' PROVE fNactive' = NEvents
  <2>1. CASE FlagServed(t)
    <3>1. loc[t].n <= fNactive /\ loc[t].n \in Nat
      BY <1>0, <2>1 DEF FlagServed, ServedInv, Locals
    <3>2. fHasTracks' = fHasTracks /\ fNactive' = fNactive /\ (fEventsServed' => fEventsServed \/ loc[t].n = NEvents)
      BY <2>1 DEF FlagServed, server
    <3>3. fEventsServed \/ ~ fHasTracks \/ loc[t].n = NEvents
      BY <1>4, <3>2
    <3>4. fNactive = NEvents
      BY <1>0, <3>1, <3>3 DEF ServedInv
    <3> QED
      BY <3>2, <3>4
  <2>2. CASE NoMoreTracks(t)
    BY <1>2, <2>2 DEF NoMoreTracks, ServedInv
  <2>3. CASE ~ FlagServed(t) /\ ~ NoMoreTracks(t)
    BY <1>2, <1>4, <2>3, Writers DEF ResetServed, FlagHasTracks, ResetHasTracks, ServedInv
  <2> QED
    BY <2>1, <2>2, <2>3
<1>5. ASSUME NEW u \in Workers, pc'[u] = "g_nomore" PROVE fNactive' = NEvents
  <2>1. CASE u # t
    BY <1>2, <1>5, <2>1, OthersKept DEF ServedInv
  <2>2. CASE u = t
    <3>1. CheckServed(t)
      BY <1>0, <1>5, <2>2, LabelStep
    <3> QED
      BY <1>0, <1>2, <1>5, <2>2, <3>1 DEF CheckServed, Goto, ServedInv
  <2> QED
    BY <2>1, <2>2
<1>6. ASSUME NEW u \in Workers, pc'[u] = "a_flag" PROVE loc'[u].n <= fNactive'
  <2>1. CASE u # t
    <3>1. loc'[u].n = loc[u].n /\ loc[u].n <= fNactive /\ loc[u].n \in Nat
      BY <1>0, <1>6, <2>1, OthersKept DEF ServedInv, Locals
    <3> QED
      BY <1>0, <1>1, <3>1
  <2>2. CASE u = t
    <3>1. CountActive(t)
      BY <1>0, <1>6, <2>2, LabelStep
    <3> QED
      BY <1>0, <2>2, <3>1 DEF CountActive, Locals
  <2> QED
    BY <2>1, <2>2
<1>7. ASSUME NEW u \in Workers, pc'[u] = "exit" PROVE fDoneEvents' = Events
  <2>1. CASE u # t
    BY <1>3, <1>7, <2>1, OthersKept DEF ServedInv
  <2>2. CASE u = t
    <3>1. Exit(t)
      BY <1>0, <1>7, <2>2, LabelStep
    <3> QED
      BY <1>3, <3>1 DEF Exit
  <2> QED
    BY <2>1, <2>2
<1> QED
  BY <1>4, <1>5, <1>6, <1>7 DEF ServedInv

\* What a step does to an event that was activated: its slot is only cleared
\* when it is done, and its primaries are only given out.
LEMMA EventKept ==
  ASSUME ServerInv, ServerInv', NEW t \in Workers, Step(t), NEW e \in Events, Activated(e)
  PROVE  /\ fNprimaries'[e] = fNprimaries[e] \/ fNprimaries'[e] = 0
         /\ e \notin fDoneEvents => fNprimaries'[e] = fNprimaries[e]
         /\ HasPrimaries(e)' => HasPrimaries(e)
         /\ e \notin fDoneEvents =>
              \/ fNtracks'[e] = fNtracks[e] /\ fNdone'[e] = fNdone[e]
              \/ fNtracks'[e] = fNtracks[e] + 1 /\ fNdone'[e] = fNdone[e]
              \/ /\ fNtracks'[e] = fNtracks[e] /\ fNdone'[e] = fNdone[e] + 1
                 /\ pc'[t] = "s_left" /\ loc'[t].ev = e /\ loc'[t].n = fNdone'[e]
<1>0. /\ pc \in [Workers -> Labels] /\ loc \in [Workers -> Locals]
      /\ fNprimaries \in [Events -> Nat] /\ fNtracks \in [Events -> Nat] /\ fNdone \in [Events -> Nat]
      /\ fNdispatched \in [Events -> Nat]
  BY DEF ServerInv, TypeInv, Counts
<1>1. ClearOld(t) =>
        \/ UNCHANGED <<fNprimaries, fNtracks, fNdone>>
        \/ \E e0 \in Events :
             /\ e0 \in fDoneEvents
             /\ fNprimaries' = [fNprimaries EXCEPT ![e0] = 0] /\ fNtracks' = [fNtracks EXCEPT ![e0] = 0]
             /\ fNdone' = [fNdone EXCEPT ![e0] = 0]
  <2> SUFFICES ASSUME ClearOld(t), fEvents[loc[t].slot] # Null
      PROVE  fEvents[loc[t].slot] \in Events /\ fEvents[loc[t].slot] \in fDoneEvents
    BY DEF ClearOld
  <2>1. loc[t].slot \in Slots /\ fEvents[loc[t].slot] \in Events /\ Vacant(loc[t].slot)
    BY LocalTypes DEF ServerInv, TypeInv, EventOrNull, ClearOld, Places, HolderInv
  <2> QED
    BY <2>1 DEF Vacant, Needed
<1>2. GenerateNewEvent(t) =>
        \/ UNCHANGED <<fNprimaries, fNtracks, fNdone>>
        \/ /\ fNprimaries' = [fNprimaries EXCEPT ![fNload] = Primaries[fNload]]
           /\ fNtracks' = [fNtracks EXCEPT ![fNload] = Primaries[fNload]]
           /\ UNCHANGED fNdone
  BY DEF GenerateNewEvent
<1>3. e # fNload
  BY EventFacts DEF Activated
<1>4. /\ fNprimaries'[e] = fNprimaries[e] \/ fNprimaries'[e] = 0
      /\ e \notin fDoneEvents => fNprimaries'[e] = fNprimaries[e]
  BY <1>0, <1>1, <1>2, <1>3, Writers
<1>5. ASSUME HasPrimaries(e)' PROVE HasPrimaries(e)
  <2>1. fNprimaries'[e] = fNprimaries[e] /\ fNprimaries[e] > 0
    <3>1. fNdispatched'[e] \in Nat
      BY DEF ServerInv, TypeInv, Counts
    <3> QED
      BY <1>0, <1>4, <1>5, <3>1 DEF HasPrimaries
  <2>2. CASE ClearDispatched(t)
    <3>1. loc[t].old \in Events /\ fNprimaries[loc[t].old] = 0
      BY <2>2 DEF ClearDispatched, ServerInv, TypeInv, Accounts, ClearInv, Cleared
    <3>2. e # loc[t].old
      BY <2>1, <3>1
    <3> QED
      BY <1>0, <1>5, <2>1, <2>2, <3>2 DEF ClearDispatched, HasPrimaries
  <2>3. CASE Book(t)
    <3>1. fNdispatched' = [fNdispatched EXCEPT ![loc[t].ev] = Min2(@ + 1, Primaries[loc[t].ev])]
      BY <2>3 DEF Book
    <3>2. CASE e = loc[t].ev
      <4>1. fNprimaries[e] = Primaries[e]
        BY <2>1 DEF ServerInv, Accounts, CounterInv, Cleared
      <4>2. fNdispatched'[e] = Min2(fNdispatched[e] + 1, Primaries[e])
        BY <1>0, <3>1, <3>2
      <4> QED
        BY <1>0, <1>5, <2>1, <4>1, <4>2 DEF HasPrimaries, Min2
    <3>3. CASE e # loc[t].ev
      BY <1>0, <1>5, <2>1, <3>1, <3>3 DEF HasPrimaries
    <3> QED
      BY <3>2, <3>3
  <2>4. CASE fNdispatched' = fNdispatched
    BY <1>5, <2>1, <2>4 DEF HasPrimaries
  <2> QED
    BY <2>2, <2>3, <2>4, Writers
<1>6. ASSUME e \notin fDoneEvents
      PROVE  \/ fNtracks'[e] = fNtracks[e] /\ fNdone'[e] = fNdone[e]
             \/ fNtracks'[e] = fNtracks[e] + 1 /\ fNdone'[e] = fNdone[e]
             \/ /\ fNtracks'[e] = fNtracks[e] /\ fNdone'[e] = fNdone[e] + 1
                /\ pc'[t] = "s_left" /\ loc'[t].ev = e /\ loc'[t].n = fNdone'[e]
  <2>1. CASE \E k \in buffer[t] : AddTrack(t, k)
    <3>1. PICK k \in buffer[t] : AddTrack(t, k)
      BY <2>1
    <3>2. k.ev \in Events /\ fEvents[k.slot] = k.ev
      BY TrackFound
    <3>3. fNtracks' = [fNtracks EXCEPT ![k.ev] = @ + 1] /\ fNdone' = fNdone
      BY <3>1, <3>2 DEF AddTrack
    <3> QED
      BY <1>0, <3>2, <3>3
  <2>2. CASE \E k \in buffer[t] : StopTrack(t, k)
    <3>1. PICK k \in buffer[t] : StopTrack(t, k)
      BY <2>2
    <3>2. k.ev \in Events /\ fEvents[k.slot] = k.ev
      BY TrackFound
    <3>3. /\ fNdone' = [fNdone EXCEPT ![k.ev] = @ + 1] /\ fNtracks' = fNtracks
          /\ pc' = [pc EXCEPT ![t] = "s_left"]
          /\ loc' = [loc EXCEPT ![t].ev = k.ev, ![t].n = fNdone[k.ev] + 1]
      BY <3>1, <3>2 DEF StopTrack, Goto
    <3>4. pc'[t] = "s_left" /\ loc'[t].ev = k.ev /\ loc'[t].n = fNdone[k.ev] + 1
      BY <1>0, <3>3 DEF Locals
    <3> QED
      BY <1>0, <3>2, <3>3, <3>4
  <2>3. CASE ~ (\E k \in buffer[t] : AddTrack(t, k) \/ StopTrack(t, k))
    BY <1>0, <1>1, <1>2, <1>3, <1>6, <2>3, Writers
  <2> QED
    BY <2>1, <2>2, <2>3
<1> QED
  BY <1>4, <1>5, <1>6

\* Only the present event has primaries left.
LEMMA DispatchedStep ==
  ASSUME ServerInv, ServerInv', DispatchedInv, NEW t \in Workers, Step(t)
  PROVE  DispatchedInv'
<1>0. /\ pc \in [Workers -> Labels] /\ loc \in [Workers -> Locals]
      /\ fEvent \in Events /\ fNprimaries \in [Events -> Nat] /\ fNdispatched \in [Events -> Nat]
  BY DEF ServerInv, TypeInv, Counts
<1>1. \A u \in Workers : pc[u] \in Trying \union {"g_book", "g_valid", "b_book", "b_valid"} =>
        loc[u].ev \in Events /\ Activated(loc[u].ev)
  BY DEF ServerInv, Places, WorkInv, AtEvent, Trying
<1>2. ASSUME NEW e \in Events, Activated(e)', HasPrimaries(e)' PROVE e = fEvent'
  <2>1. CASE Replace(t) /\ e = fEvent'
    BY <2>1
  <2>2. CASE Activated(e)
    <3>1. HasPrimaries(e) /\ e = fEvent
      BY <1>2, <2>2, EventKept DEF DispatchedInv
    <3>2. ASSUME Replace(t) PROVE FALSE
      BY <3>1, <3>2 DEF Replace, DispatchedInv, Trying
    <3> QED
      BY <3>1, <3>2, Writers
  <2> QED
    BY <1>2, <2>1, <2>2, ActivatedKept
<1>3. ASSUME NEW u \in Workers, u # t, pc'[u] \in Trying \/ (pc'[u] = "g_valid" /\ ~ Valid(u)')
      PROVE  ~ HasPrimaries(loc[u].ev)'
  <2>1. pc'[u] = pc[u] /\ loc'[u] = loc[u]
    BY <1>3, OthersKept
  <2>2. PICK e \in Events : e = loc[u].ev /\ Activated(e)
    BY <1>1, <1>3, <2>1
  <2>3. CASE pc[u] \in Trying \/ (pc[u] = "g_valid" /\ ~ Valid(u))
    <3>1. ~ HasPrimaries(e)'
      BY <2>2, <2>3, EventKept DEF DispatchedInv
    <3> QED
      BY <2>1, <2>2, <3>1 DEF HasPrimaries
  <2>4. CASE pc[u] = "g_valid" /\ Valid(u)
    <3>1. fNprimaries'[e] = 0
      BY <1>3, <2>1, <2>2, <2>4, EventKept DEF Valid, Trying
    <3>2. fNdispatched'[e] \in Nat
      BY DEF ServerInv, TypeInv, Counts
    <3> QED
      BY <2>1, <2>2, <3>1, <3>2 DEF HasPrimaries
  <2> QED
    BY <1>3, <2>1, <2>3, <2>4
<1>4. ASSUME pc'[t] \in Trying \/ (pc'[t] = "g_valid" /\ ~ Valid(t)')
      PROVE  ~ HasPrimaries(loc[t].ev)'
  <2>1. CASE Book(t)
    <3>1. PICK e \in Events : e = loc[t].ev /\ Activated(e)
      BY <1>1, <2>1 DEF Book
    <3>2. /\ loc'[t].ev = e /\ loc'[t].itr = fNdispatched[e] /\ fNprimaries' = fNprimaries
          /\ pc'[t] \in {"g_valid", "b_valid"}
          /\ fNdispatched'[e] = Min2(fNdispatched[e] + 1, Primaries[e])
      BY <1>0, <2>1, <3>1 DEF Book, Keep, Goto, Locals
    <3>3. fNprimaries[e] = Primaries[e] \/ fNprimaries[e] = 0
      BY <3>1 DEF ServerInv, Accounts, CounterInv, Cleared
    <3>4. ~ (fNdispatched[e] < fNprimaries[e])
      BY <1>4, <3>2 DEF Valid, Trying
    <3>5. Primaries[e] \in Nat /\ fNdispatched[e] \in Nat /\ fNprimaries[e] \in Nat
      BY <1>0, EventFacts
    <3>6. ~ (fNdispatched'[e] < fNprimaries'[e])
      BY <3>2, <3>3, <3>4, <3>5 DEF Min2
    <3> QED
      BY <3>2, <3>6 DEF HasPrimaries
  <2>2. CASE ~ Book(t)
    <3>1. /\ pc[t] \in Trying \/ (pc[t] = "g_valid" /\ ~ Valid(t))
          /\ loc'[t].ev = loc[t].ev
      BY <1>4, <2>2, TryingStep
    <3>2. PICK e \in Events : e = loc[t].ev /\ Activated(e)
      BY <1>1, <3>1
    <3>3. ~ HasPrimaries(e)'
      BY <3>1, <3>2, EventKept DEF DispatchedInv
    <3> QED
      BY <3>1, <3>2, <3>3 DEF HasPrimaries
  <2> QED
    BY <2>1, <2>2
<1>5. ASSUME NEW u \in Workers, pc'[u] \in Trying \/ (pc'[u] = "g_valid" /\ ~ Valid(u)')
      PROVE  ~ HasPrimaries(loc[u].ev)'
  BY <1>3, <1>4, <1>5
<1> QED
  BY <1>2, <1>5 DEF DispatchedInv

\* An event that lost its last track is about to be ended.
LEMMA LastStep ==
  ASSUME ServerInv, ServerInv', LastInv, NEW t \in Workers, Step(t)
  PROVE  LastInv'
<1> SUFFICES ASSUME NEW e \in Events, Activated(e)', e \notin fDoneEvents', fNtracks'[e] = fNdone'[e]
    PROVE  \E u \in Workers : pc'[u] \in {"s_left", "t_done"} /\ loc'[u].ev = e /\ loc'[u].n = fNtracks'[e]
  BY DEF LastInv
<1>0. /\ pc \in [Workers -> Labels] /\ loc \in [Workers -> Locals]
      /\ fNprimaries[e] \in Nat /\ fNtracks[e] \in Nat /\ fNdone[e] \in Nat
      /\ Primaries[e] \in Nat \ {0}
  BY EventFacts DEF ServerInv, TypeInv, Counts
<1>1. e \notin fDoneEvents
  BY Writers DEF EventTransported
<1>2. CASE ~ Activated(e)
  <2>1. Replace(t) /\ Waiting(e)
    BY <1>2, ActivatedKept, PlacesReplace
  <2>2. fNtracks'[e] = Primaries[e] /\ fNdone'[e] = 0
    BY <2>1 DEF Replace, event, ServerInv, Accounts, CounterInv, Fresh
  <2> QED
    BY <1>0, <2>2
<1>3. CASE Activated(e)
  <2>1. fNdone[e] <= fNtracks[e] /\ fNprimaries[e] = Primaries[e] /\ Primaries[e] <= fNtracks[e]
    BY <1>0, <1>1, <1>3, WhatIsLeft DEF ServerInv, Accounts, CounterInv
  <2>2. CASE fNtracks'[e] = fNtracks[e] /\ fNdone'[e] = fNdone[e]
    <3>1. PICK u \in Workers : pc[u] \in {"s_left", "t_done"} /\ loc[u].ev = e /\ loc[u].n = fNtracks[e]
      BY <1>1, <1>3, <2>2 DEF LastInv
    <3>2. CASE u # t
      BY <2>2, <3>1, <3>2, OthersKept
    <3>3. CASE u = t /\ pc[t] = "t_done"
      <4>1. EventTransported(t)
        BY <3>3, LabelStep
      <4> QED
        BY <3>1, <3>3, <4>1 DEF EventTransported
    <3>4. CASE u = t /\ pc[t] = "s_left"
      <4>1. CheckLeft(t)
        BY <3>4, LabelStep
      <4>2. LastTrack(t)
        BY <1>0, <2>1, <3>1, <3>4 DEF LastTrack, InFlight
      <4>3. pc'[t] = "t_done" /\ loc' = loc
        BY <1>0, <4>1, <4>2 DEF CheckLeft, Goto
      <4> QED
        BY <2>2, <3>1, <3>4, <4>3
    <3> QED
      BY <3>1, <3>2, <3>3, <3>4
  <2> QED
    BY <1>0, <1>1, <1>3, <2>1, <2>2, EventKept
<1> QED
  BY <1>2, <1>3

\* There is always an event to transport, until all are done.
LEMMA GenerateStep ==
  ASSUME ServerInv, GenerateInv, NEW t \in Workers, Step(t)
  PROVE  GenerateInv'
<1>0. /\ pc \in [Workers -> Labels] /\ fNload \in Nat /\ fNload <= NEvents /\ NEvents \in Nat
  BY SizesAssumption DEF ServerInv, TypeInv
<1>1. CASE EventTransported(t)
  BY <1>0, <1>1 DEF EventTransported, Goto, GenerateInv
<1>2. CASE GenerateNewEvent(t)
  <2>1. CASE fNload >= NEvents
    BY <1>0, <1>2, <2>1 DEF GenerateNewEvent, GenerateInv
  <2>2. CASE ~ (fNload >= NEvents)
    <3>1. fNload \in Events /\ fNload' = fNload + 1 /\ fDoneEvents' = fDoneEvents
      BY <1>0, <1>2, <2>2 DEF GenerateNewEvent, Events, manager
    <3>2. fNload \notin fDoneEvents
      BY <1>0, <3>1 DEF ServerInv, Places, PlaceInv, Generated
    <3> QED
      BY <1>0, <3>1, <3>2 DEF GenerateInv
  <2> QED
    BY <2>1, <2>2
<1>3. CASE ~ EventTransported(t) /\ ~ GenerateNewEvent(t)
  <2>1. fNload' = fNload /\ fDoneEvents' = fDoneEvents
    BY <1>3, Writers
  <2>2. ASSUME NEW u \in Workers, pc[u] \in {"t_slot", "n_lock", "n_load"}
        PROVE  pc'[u] \in {"t_slot", "n_lock", "n_load"}
    BY <1>3, <2>2, OthersKept, LabelStep
  <2> QED
    BY <2>1, <2>2 DEF GenerateInv
<1> QED
  BY <1>1, <1>2, <1>3

\* After the last event somebody leaves, and starts the next one.
LEMMA LeaverStep ==
  ASSUME OnePropagator, ServerInv, ServerInv', LeaverInv, NEW t \in Workers, Step(t)
  PROVE  LeaverInv'
<1>0. /\ pc \in [Workers -> Labels] /\ fCanStart \in [Propagators -> BOOLEAN]
      /\ fDoneEvents \subseteq Events /\ fDoneEvents' \subseteq Events
  BY DEF ServerInv, TypeInv
<1> SUFFICES ASSUME fDoneEvents' = Events
    PROVE  \/ \A u \in Workers : pc'[u] = "exit"
           \/ \A p \in Propagators : fCanStart'[p]
           \/ \E u \in Workers : pc'[u] \in Busy \union {"feed"}
  BY DEF LeaverInv
<1>1. CASE EventTransported(t)
  BY <1>0, <1>1 DEF EventTransported, Goto, Busy
<1>2. CASE Exit(t)
  BY <1>0, <1>2 DEF Exit, OnePropagator, Propagators
<1>3. CASE Wake(t)
  BY <1>0, <1>3 DEF Wake, Goto
<1>4. CASE ~ EventTransported(t) /\ ~ Exit(t) /\ ~ Wake(t)
  <2>1. fDoneEvents = Events /\ fCanStart' = fCanStart
    BY <1>4, Writers
  <2>2. pc[t] # "exit" /\ (pc[t] \in Busy => pc'[t] \in Busy \union {"feed"})
    BY LabelStep
  <2>3. pc[t] # "feed"
    BY <1>4, <2>1, LabelStep DEF Feed, FeedNothing
  <2>4. ASSUME NEW u \in Workers, pc[u] \in Busy \union {"feed"}
        PROVE  pc'[u] \in Busy \union {"feed"}
    BY <2>2, <2>3, <2>4, OthersKept
  <2> QED
    BY <2>1, <2>2, <2>4 DEF LeaverInv
<1> QED
  BY <1>1, <1>2, <1>3, <1>4

\* When every event is done there is nothing left to give out or to activate.
LEMMA NothingLeft ==
  ASSUME ServerInv, fDoneEvents = Events
  PROVE  ~ HasPrimaries(fEvent) /\ fPendingEvents = <<>>
<1>1. fEvent \in Events /\ fPendingEvents \in Seq(Events) /\ fNdispatched[fEvent] \in Nat
  BY DEF ServerInv, TypeInv, Counts
<1>2. ~ HasPrimaries(fEvent)
  BY <1>1, EventFacts DEF HasPrimaries, ServerInv, Accounts, CounterInv, Cleared
<1>3. ASSUME fPendingEvents # <<>> PROVE FALSE
  <2>1. 1 \in DOMAIN fPendingEvents /\ fPendingEvents[1] \in Events
    BY <1>1, <1>3
  <2>2. Waiting(fPendingEvents[1])
    BY <2>1 DEF Waiting, Pending, Range
  <2> QED
    BY <2>1, <2>2 DEF ServerInv, Places, PlaceInv, NotYet
<1> QED
  BY <1>2, <1>3

\* After its step the worker will still book; or it would not have before, and
\* opened nothing; or there is nothing to book.
LEMMA BookerFlow ==
  ASSUME ServerInv, ServerInv', NEW t \in Workers, Step(t)
  PROVE  \/ WillBook(t)'
         \/ ~ WillBook(t) /\ ~ Replace(t) /\ ~ CountServed(t) /\ ~ FlagHasTracks(t) /\ ~ ResetHasTracks(t)
         \/ ~ (Open' /\ HasPrimaries(fEvent)')
<1> DEFINE Opens == Replace(t) \/ CountServed(t) \/ FlagHasTracks(t) \/ ResetHasTracks(t)
           Will == ~ Resting(t)' /\ (Misses(t)' => pc'[t] \notin Trying \union {"g_book", "g_valid"})
<1>0. /\ pc \in [Workers -> Labels] /\ loc \in [Workers -> Locals] /\ flushed \in [Workers -> BOOLEAN]
      /\ fHasTracks \in BOOLEAN /\ fInitialPhase \in BOOLEAN
  BY DEF ServerInv, TypeInv
<1>w. Will => WillBook(t)'
  BY DEF WillBook
<1>1. ASSUME Wake(t) \/ BackToFeed(t) \/ Feed(t) \/ CountServed(t) PROVE Will
  BY <1>0, <1>1 DEF Wake, BackToFeed, Feed, CountServed, Goto, Resting, Trying
<1>2. ASSUME Suspend(t) PROVE ~ WillBook(t) /\ ~ Opens
  BY <1>2 DEF Suspend, WillBook, Resting, Replace, CountServed, FlagHasTracks, ResetHasTracks
<1>3. ASSUME FeedNothing(t) \/ NoMoreTracks(t) PROVE ~ Open'
  <2>1. CASE FeedNothing(t)
    <3>1. (~ fHasTracks \/ fInitialPhase) /\ fHasTracks' = fHasTracks /\ fInitialPhase' = fInitialPhase
      BY <2>1 DEF FeedNothing, flags, phase
    <3> QED
      BY <3>1 DEF Open
  <2>2. CASE NoMoreTracks(t)
    BY <2>2 DEF NoMoreTracks, Open
  <2> QED
    BY <1>3, <2>1, <2>2
<1>4. ASSUME Exit(t) PROVE ~ HasPrimaries(fEvent)'
  BY <1>4, NothingLeft DEF Exit, HasPrimaries, server, event
<1>5. ASSUME LoadEvent(t) PROVE WillBook(t)'
  BY <1>0, <1>5 DEF LoadEvent, WillBook, Goto, Keep, Resting, Trying, server, Locals
<1>6. ASSUME Book(t) PROVE WillBook(t)' \/ (~ WillBook(t) /\ ~ Opens) \/ ~ HasPrimaries(fEvent)'
  <2>1. CASE pc[t] = "b_book"
    <3>1. Will
      BY <1>0, <1>6, <2>1 DEF Book, Goto, Resting, Trying
    <3> QED
      BY <1>w, <3>1
  <2>2. CASE pc[t] = "g_book"
    <3>1. ~ Opens
      BY <2>2 DEF Replace, CountServed, FlagHasTracks, ResetHasTracks
    <3>2. /\ pc'[t] = "g_valid" /\ loc'[t].itr = fNdispatched[loc[t].ev] /\ loc'[t].ev = loc[t].ev
          /\ loc'[t].got = loc[t].got /\ flushed' = flushed /\ fNprimaries' = fNprimaries /\ fEvent' = fEvent
          /\ fNdispatched' = [fNdispatched EXCEPT ![loc[t].ev] = Min2(@ + 1, Primaries[loc[t].ev])]
      BY <1>0, <1>6, <2>2 DEF Book, Goto, Keep, idle, server, Locals
    <3>3. CASE ~ Misses(t) \/ loc[t].ev # fEvent
      BY <2>2, <3>1, <3>2, <3>3 DEF WillBook, Misses, Resting, Trying
    <3>4. CASE loc[t].ev = fEvent /\ Valid(t)'
      BY <3>2, <3>4 DEF WillBook, Resting, Trying
    <3>5. CASE loc[t].ev = fEvent /\ ~ Valid(t)'
      <4> DEFINE e == fEvent
      <4>1. e \in Events /\ Activated(e)
        BY DEF ServerInv, TypeInv, Places, WorkInv
      <4>2. fNprimaries[e] = Primaries[e] \/ fNprimaries[e] = 0
        BY <4>1 DEF ServerInv, Accounts, CounterInv, Cleared
      <4>3. /\ Primaries[e] \in Nat /\ fNdispatched \in [Events -> Nat] /\ fNprimaries[e] \in Nat
        BY <4>1, EventFacts DEF ServerInv, TypeInv, Counts
      <4>4. ~ (fNdispatched[e] < fNprimaries[e]) /\ fNdispatched'[e] = Min2(fNdispatched[e] + 1, Primaries[e])
        BY <3>2, <3>5, <4>1, <4>3 DEF Valid
      <4>5. ~ (fNdispatched'[e] < fNprimaries'[e])
        BY <3>2, <4>2, <4>3, <4>4 DEF Min2
      <4> QED
        BY <3>2, <4>5 DEF HasPrimaries
    <3> QED
      BY <3>3, <3>4, <3>5
  <2> QED
    BY <1>6, <2>1, <2>2 DEF Book
<1>7. ASSUME CheckBooked(t) PROVE Will \/ (~ WillBook(t) /\ ~ Opens)
  <2>1. CASE pc'[t] = "a_served"
    <3>1. /\ pc[t] = "g_valid" /\ ~ Valid(t) /\ loc'[t].got = loc[t].got /\ flushed' = flushed
      BY <1>0, <1>7, <2>1 DEF CheckBooked, Goto, Keep, idle, Locals
    <3> QED
      BY <2>1, <3>1 DEF WillBook, Misses, Resting, Replace, CountServed, FlagHasTracks, ResetHasTracks
  <2>2. CASE pc'[t] # "a_served"
    BY <1>0, <1>7, <2>2 DEF CheckBooked, Goto, Resting, Trying
  <2> QED
    BY <2>1, <2>2
<1>8. ASSUME Clone(t) PROVE Will
  <2>1. CASE loc[t].room > 1
    BY <1>0, <1>8, <2>1 DEF Clone, Goto, Resting, Trying
  <2>2. CASE ~ (loc[t].room > 1)
    <3>1. Return(t, TRUE)
      BY <1>8, <2>2 DEF Clone
    <3> QED
      BY <3>1, Returned DEF Resting, Trying
  <2> QED
    BY <2>1, <2>2
<1>9. ASSUME NoSlot(t) \/ ReturnSlot(t) PROVE Will \/ (~ WillBook(t) /\ ~ Opens)
  <2>1. Return(t, loc[t].got) /\ pc[t] \in {"a_slot", "a_giveup"} /\ loc[t].got \in BOOLEAN /\ flushed[t] \in BOOLEAN
    BY <1>0, <1>9 DEF NoSlot, ReturnSlot, Locals
  <2>2. CASE Misses(t)
    BY <2>1, <2>2 DEF WillBook, Trying, Replace, CountServed, FlagHasTracks, ResetHasTracks
  <2>3. CASE ~ Misses(t)
    BY <2>1, <2>3, Returned DEF Misses, Resting, Trying
  <2> QED
    BY <2>2, <2>3
<1>10. ASSUME pc[t] \in Trying, loc'[t].got = loc[t].got, flushed' = flushed, ~ Resting(t)', ~ Replace(t),
              pc'[t] \in Trying \union {"a_undo"}
       PROVE  Will \/ (~ WillBook(t) /\ ~ Opens)
  BY <1>10 DEF WillBook, Misses, Resting, Trying, CountServed, FlagHasTracks, ResetHasTracks
<1>11. ASSUME CheckServed(t) \/ TakeSlot(t) \/ TakePending(t) \/ NoPending(t)
       PROVE  Will \/ (~ WillBook(t) /\ ~ Opens)
  BY <1>0, <1>10, <1>11 DEF CheckServed, TakeSlot, TakePending, NoPending, Goto, Keep, Resting, Trying, Replace, idle, Locals
<1>12. ASSUME ClearOld(t) \/ ClearDispatched(t) \/ Overtaken(t)
       PROVE  Will \/ (~ WillBook(t) /\ ~ Opens)
  BY <1>0, <1>10, <1>12 DEF ClearOld, ClearDispatched, Overtaken, Goto, Keep, Resting, Trying, Replace, idle, Locals
<1>13. ASSUME Replace(t) \/ UndoPending(t) \/ UndoSlot(t) \/ CountActive(t) \/ FlagServed(t) \/ FlagHasTracks(t)
       PROVE  Will
  BY <1>0, <1>13 DEF Replace, UndoPending, UndoSlot, CountActive, FlagServed, FlagHasTracks, Goto, Resting, Trying
<1>14. ASSUME Transport(t) PROVE Will
  <2>1. pc[t] \in Busy
    BY <1>14 DEF Transport, AddTrack, StopTrack, Stepping, CheckLeft, Prioritize, CountPriority, EventTransported,
       CompletedEvent, LockGenerator, GenerateNewEvent, AddEvent, CountStored, ResetServed, ResetHasTracks, Busy
  <2> QED
    BY <2>1, LabelStep DEF Busy, Resting, Trying
<1> QED
  BY <1>w, <1>1, <1>2, <1>3, <1>4, <1>5, <1>6, <1>7, <1>8, <1>9, <1>11, <1>12, <1>13, <1>14
  DEF Step, Work, GetTracks, ActivateEvent

\* There is a worker to book what the present event has left.
LEMMA BookerStep ==
  ASSUME ServerInv, ServerInv', BookerInv, NEW t \in Workers, Step(t)
  PROVE  BookerInv'
<1> SUFFICES ASSUME Open', HasPrimaries(fEvent)', ~ WillBook(t)' PROVE \E u \in Workers : WillBook(u)'
  BY DEF BookerInv
<1>1. ~ WillBook(t) /\ ~ Replace(t) /\ ~ CountServed(t) /\ ~ FlagHasTracks(t) /\ ~ ResetHasTracks(t)
  BY BookerFlow
<1>2. fEvent' = fEvent /\ Open
  BY <1>1, Writers DEF Open, NoMoreTracks
<1>3. fEvent \in Events /\ Activated(fEvent)
  BY DEF ServerInv, TypeInv, Places, WorkInv
<1>4. HasPrimaries(fEvent)
  BY <1>2, <1>3, EventKept DEF HasPrimaries
<1>5. PICK u \in Workers : WillBook(u)
  BY <1>2, <1>4 DEF BookerInv
<1>6. u # t /\ pc'[u] = pc[u] /\ loc'[u] = loc[u] /\ flushed'[u] = flushed[u]
  BY <1>1, <1>5, OthersKept
<1>7. ASSUME pc[u] = "g_valid", Valid(u) PROVE Valid(u)'
  <2>1. loc[u].ev \in Events /\ Activated(loc[u].ev) /\ loc[u].ev \notin fDoneEvents
    BY <1>7 DEF ServerInv, Places, WorkInv, AtEvent, Accounts, BookedInv, Booked
  <2>2. fNprimaries'[loc[u].ev] = fNprimaries[loc[u].ev]
    BY <2>1, EventKept
  <2> QED
    BY <1>6, <1>7, <2>2 DEF Valid
<1> QED
  BY <1>2, <1>5, <1>6, <1>7 DEF WillBook, Misses, Resting

\* Whoever has a track, has booked one or ends an event asks again afterwards.
LEMMA Carrier ==
  ASSUME ServerInv, FlushInv, ServedInv, NEW u \in Workers, buffer[u] # {}, fDoneEvents # Events
  PROVE  WillActivate(u) /\ (pc[u] \in Asking => ~ Misses(u)) /\ ~ Resting(u)
<1>1. pc[u] # "exit"
  BY DEF ServedInv
<1>2. ~ (pc[u] \in {"idle", "wait"})
  BY DEF FlushInv, Misses, Asking, Trying
<1>3. pc[u] \in Asking => ~ Misses(u)
  BY DEF FlushInv
<1> QED
  BY <1>1, <1>2, <1>3 DEF WillActivate, Resting, Asking, Trying

LEMMA BookerActivates == ASSUME NEW u \in Workers, WillBook(u) PROVE WillActivate(u)
BY DEF WillBook, WillActivate, Trying

\* An event that is activated and not done keeps a worker busy.
LEMMA ActiveIsServed ==
  ASSUME ServerInv, FlushInv, ServedInv, DispatchedInv, LastInv,
         HasPrimaries(fEvent) => \E u \in Workers : WillBook(u),
         NEW e \in Events, Activated(e), e \notin fDoneEvents
  PROVE  \E u \in Workers : /\ WillActivate(u)
                            /\ ~ (Misses(u) /\ pc[u] = "a_slot")
<1>1. CASE TracksOf(e) # {}
  <2>1. PICK u \in Workers : buffer[u] # {}
    BY <1>1 DEF TracksOf, InTransport
  <2> QED
    BY <2>1, Carrier DEF Asking, Trying
<1>2. CASE BookedOf(e) # {}
  <2>1. PICK u \in Workers : Booked(u)
    BY <1>2 DEF BookedOf
  <2> QED
    BY <2>1 DEF Booked, WillActivate, Resting
<1>3. CASE HasPrimaries(e)
  <2>1. PICK u \in Workers : WillBook(u)
    BY <1>3 DEF DispatchedInv
  <2> QED
    BY <2>1, BookerActivates DEF WillBook, Trying
<1>4. CASE TracksOf(e) = {} /\ BookedOf(e) = {} /\ ~ HasPrimaries(e)
  <2>1. /\ fNtracks[e] - fNdone[e]
             = Cardinality(TracksOf(e)) + Cardinality(BookedOf(e)) + fNprimaries[e] - fNdispatched[e]
        /\ fNprimaries[e] = Primaries[e] /\ fNdispatched[e] <= Primaries[e]
    BY DEF ServerInv, Accounts, AccountInv, CounterInv
  <2>2. fNtracks[e] \in Nat /\ fNdone[e] \in Nat /\ fNdispatched[e] \in Nat /\ Primaries[e] \in Nat
    BY EventFacts DEF ServerInv, TypeInv, Counts
  <2>3. Cardinality(TracksOf(e)) = 0 /\ Cardinality(BookedOf(e)) = 0
    BY <1>4, FS_EmptySet
  <2>4. fNdispatched[e] = fNprimaries[e]
    <3>1. ~ (fNdispatched[e] < fNprimaries[e])
      BY <1>4 DEF HasPrimaries
    <3> QED
      BY <2>1, <2>2, <3>1
  <2>5. fNtracks[e] = fNdone[e]
    BY <2>1, <2>2, <2>3, <2>4
  <2>6. PICK u \in Workers : pc[u] \in {"s_left", "t_done"}
    BY <2>5 DEF LastInv
  <2> QED
    BY <2>6 DEF WillActivate, Resting
<1> QED
  BY <1>1, <1>2, <1>3, <1>4

\* With a slot for every worker there is always one that is free, or taken by
\* an event whose end will release it.
LEMMA SlotLeft ==
  ASSUME ServerInv, NThreads <= NSlots, NEW t \in Workers, pc[t] \notin HoldLabels
  PROVE  \E s \in Slots : \A u \in Workers : ~ Holds(u, s)
<1> DEFINE W == Workers \ {t}
           F == {loc[u].slot : u \in W}
           f == [u \in W |-> loc[u].slot]
<1>1. IsFiniteSet(W) /\ Cardinality(W) = NThreads - 1
  BY WorkersAssumption, FS_RemoveElement DEF NThreads
<1>2. IsFiniteSet(F) /\ Cardinality(F) <= Cardinality(W)
  <2>1. f \in Surjection(W, F)
    BY DEF Surjection
  <2> HIDE DEF F, W, f
  <2> QED
    BY <1>1, <2>1, FS_Surjection
<1>3. IsFiniteSet(Slots) /\ Cardinality(Slots) = NSlots
  BY SizesAssumption, FS_Interval DEF Slots
<1>4. \A u \in Workers : loc[u].slot \in Slots
  BY DEF ServerInv, TypeInv, Locals
<1>5. Cardinality(F) \in Nat
  BY <1>2, FS_CardinalityType
<1>6. F # Slots
  <2> HIDE DEF F, W
  <2> QED
    BY <1>1, <1>2, <1>3, <1>5, EventFacts, SizesAssumption
<1>7. PICK s \in Slots : s \notin F
  <2>1. F \subseteq Slots
    BY <1>4
  <2> QED
    BY <1>6, <2>1
<1>8. \A u \in Workers : ~ Holds(u, s)
  BY <1>7 DEF Holds, HoldLabels
<1> QED
  BY <1>8

\* A worker that finds no slot is not the last one to look for a pending event.
LEMMA SomeoneElse ==
  ASSUME ServerInv, FlushInv, ServedInv, DispatchedInv, LastInv, BookerInv, Open, NThreads <= NSlots,
         NEW t \in Workers, pc[t] = "a_slot", Misses(t), fFreeSlots = <<>>
  PROVE  \E u \in Workers \ {t} : WillActivate(u)
<1>1. PICK s \in Slots : \A u \in Workers : ~ Holds(u, s)
  BY SlotLeft DEF HoldLabels
<1>2. ~ Free(s)
  BY DEF Free, Range
<1>3. ~ Vacant(s)
  BY <1>1, <1>2 DEF ServerInv, Places, SlotInv
<1>4. PICK e \in Events : e = fEvents[s]
  BY <1>3 DEF Vacant, ServerInv, TypeInv, EventOrNull
<1>5. Occupied(s) /\ Needed(e)
  BY <1>1, <1>3, <1>4 DEF Vacant, Occupied
<1>6. Activated(e)
  BY <1>4, <1>5, EventFacts DEF Activated, ServerInv, Places, PlaceInv, NotYet, Generated
<1>7. CASE e \in fDoneEvents
  <2>1. PICK u \in Workers : pc[u] = "t_slot"
    BY <1>5, <1>7 DEF Needed
  <2> QED
    BY <2>1 DEF WillActivate, Resting
<1>8. CASE e \notin fDoneEvents
  BY <1>6, <1>8, ActiveIsServed DEF BookerInv
<1> QED
  BY <1>7, <1>8

\* After its step the worker will still look for a pending event; or it would not
\* have before, and opened nothing; or there is nothing to look for; or it found
\* no slot, for the second time.
LEMMA ActivatorFlow ==
  ASSUME ServerInv, CountInv, ServedInv, NEW t \in Workers, Step(t)
  PROVE  \/ WillActivate(t)'
         \/ /\ ~ WillActivate(t) /\ ~ AddEvent(t) /\ ~ UndoPending(t)
            /\ ~ CountServed(t) /\ ~ FlagHasTracks(t) /\ ~ ResetHasTracks(t)
         \/ ~ (Open' /\ fPendingEvents' # <<>>)
         \/ NoSlot(t) /\ Misses(t)
<1> DEFINE Opens == AddEvent(t) \/ UndoPending(t) \/ CountServed(t) \/ FlagHasTracks(t) \/ ResetHasTracks(t)
           Will == ~ Resting(t)' /\ pc'[t] \notin {"g_nomore", "a_giveup"}
<1>0. /\ pc \in [Workers -> Labels] /\ loc \in [Workers -> Locals] /\ flushed \in [Workers -> BOOLEAN]
  BY DEF ServerInv, TypeInv
<1>w. Will => WillActivate(t)'
  BY DEF WillActivate
<1>1. ASSUME Wake(t) \/ BackToFeed(t) \/ Feed(t) \/ CountServed(t) PROVE Will
  BY <1>0, <1>1 DEF Wake, BackToFeed, Feed, CountServed, Goto, Resting
<1>2. ASSUME Suspend(t) PROVE ~ WillActivate(t) /\ ~ Opens
  BY <1>2 DEF Suspend, WillActivate, Resting, AddEvent, UndoPending, CountServed, FlagHasTracks, ResetHasTracks
<1>3. ASSUME FeedNothing(t) PROVE ~ Open'
  <2>1. (~ fHasTracks \/ fInitialPhase) /\ fHasTracks' = fHasTracks /\ fInitialPhase' = fInitialPhase
    BY <1>3 DEF FeedNothing, flags, phase
  <2> QED
    BY <2>1 DEF Open
<1>4. ASSUME NoMoreTracks(t) PROVE ~ Open'
  BY <1>4 DEF NoMoreTracks, Open
<1>5. ASSUME Exit(t) PROVE fPendingEvents' = <<>>
  BY <1>5, NothingLeft DEF Exit, queues
<1>6. ASSUME LoadEvent(t) \/ Book(t) \/ CheckBooked(t) PROVE Will
  BY <1>0, <1>6 DEF LoadEvent, Book, CheckBooked, Goto, Resting
<1>7. ASSUME Clone(t) PROVE Will
  BY <1>0, <1>7, Returned DEF Clone, Goto, Resting
<1>8. ASSUME CheckServed(t) PROVE Will \/ fPendingEvents' = <<>>
  <2>1. CASE fEventsServed
    <3>1. fPendingEvents = <<>>
      BY <2>1, AllActivated DEF ServedInv
    <3> QED
      BY <1>8, <3>1 DEF CheckServed, queues
  <2>2. CASE ~ fEventsServed
    BY <1>0, <1>8, <2>2 DEF CheckServed, Goto, Resting
  <2> QED
    BY <2>1, <2>2
<1>9. ASSUME NoSlot(t) \/ ReturnSlot(t) PROVE Will \/ (~ WillActivate(t) /\ ~ Opens) \/ (NoSlot(t) /\ Misses(t))
  <2>1. Return(t, loc[t].got) /\ loc[t].got \in BOOLEAN /\ flushed[t] \in BOOLEAN
    BY <1>0, <1>9 DEF NoSlot, ReturnSlot, Locals
  <2>2. CASE Misses(t) /\ ReturnSlot(t)
    BY <2>2 DEF ReturnSlot, WillActivate, AddEvent, UndoPending, CountServed, FlagHasTracks, ResetHasTracks
  <2>3. CASE ~ Misses(t)
    BY <2>1, <2>3, Returned DEF Misses, Resting
  <2> QED
    BY <1>9, <2>2, <2>3
<1>10. ASSUME TakeSlot(t) \/ ClearOld(t) \/ ClearDispatched(t) \/ TakePending(t) PROVE Will
  BY <1>0, <1>10 DEF TakeSlot, ClearOld, ClearDispatched, TakePending, Goto, Resting
<1>11. ASSUME NoPending(t) PROVE fPendingEvents' = <<>>
  BY <1>11 DEF NoPending, queues
<1>12. ASSUME Replace(t) \/ Overtaken(t) \/ UndoPending(t) \/ UndoSlot(t) PROVE Will
  BY <1>0, <1>12 DEF Replace, Overtaken, UndoPending, UndoSlot, Goto, Resting
<1>13. ASSUME CountActive(t) \/ FlagServed(t) \/ FlagHasTracks(t) PROVE Will
  BY <1>0, <1>13 DEF CountActive, FlagServed, FlagHasTracks, Goto, Resting
<1>14. ASSUME Transport(t) PROVE Will
  <2>1. pc[t] \in Busy
    BY <1>14 DEF Transport, AddTrack, StopTrack, Stepping, CheckLeft, Prioritize, CountPriority, EventTransported,
       CompletedEvent, LockGenerator, GenerateNewEvent, AddEvent, CountStored, ResetServed, ResetHasTracks, Busy
  <2> QED
    BY <2>1, LabelStep DEF Busy, Resting
<1> QED
  BY <1>w, <1>1, <1>2, <1>3, <1>4, <1>5, <1>6, <1>7, <1>8, <1>9, <1>10, <1>11, <1>12, <1>13, <1>14
  DEF Step, Work, GetTracks, ActivateEvent

\* There is a worker to activate an event that is pending.
LEMMA ActivatorStep ==
  ASSUME ServerInv, CountInv, FlushInv, ServedInv, DispatchedInv, LastInv, BookerInv, ActivatorInv,
         NThreads <= NSlots, NEW t \in Workers, Step(t)
  PROVE  ActivatorInv'
<1> SUFFICES ASSUME Open', fPendingEvents' # <<>>, ~ WillActivate(t)' PROVE \E u \in Workers : WillActivate(u)'
  BY DEF ActivatorInv
<1>1. ASSUME NEW u \in Workers \ {t}, WillActivate(u) PROVE WillActivate(u)'
  BY <1>1, OthersKept DEF WillActivate, Misses, Resting
<1>2. CASE NoSlot(t) /\ Misses(t)
  <2>1. pc[t] = "a_slot" /\ fFreeSlots = <<>> /\ fHasTracks' = fHasTracks /\ fInitialPhase' = fInitialPhase
    BY <1>2 DEF NoSlot, flags, phase
  <2>2. Open
    BY <2>1 DEF Open
  <2>3. \E u \in Workers \ {t} : WillActivate(u)
    BY <1>2, <2>1, <2>2, SomeoneElse
  <2> QED
    BY <1>1, <2>3
<1>3. CASE /\ ~ WillActivate(t) /\ ~ AddEvent(t) /\ ~ UndoPending(t)
           /\ ~ CountServed(t) /\ ~ FlagHasTracks(t) /\ ~ ResetHasTracks(t)
  <2>1. ASSUME NoMoreTracks(t) PROVE FALSE
    BY <2>1 DEF NoMoreTracks, Open
  <2>2. Open
    BY <1>3, <2>1, Writers DEF Open
  <2>3. fPendingEvents # <<>>
    BY <1>3, Writers DEF TakePending
  <2>4. PICK u \in Workers : WillActivate(u)
    BY <2>2, <2>3 DEF ActivatorInv
  <2> QED
    BY <1>1, <1>3, <2>4
<1> QED
  BY <1>2, <1>3, ActivatorFlow

\* At the start every worker comes for tracks, and the first event is there.
LEMMA AwakeInit == Init => AwakeInv
<1> SUFFICES ASSUME Init PROVE AwakeInv
  OBVIOUS
<1>1. ServerInv
  BY InvInit DEF IInv
<1>2. /\ \A t \in Workers : pc[t] = "feed" /\ loc[t].got = FALSE /\ flushed[t] = FALSE /\ buffer[t] = {}
      /\ fEvent = 0 /\ fDoneEvents = {} /\ fNload = NGenerated /\ fNactive = 1
      /\ fEventsServed = (NEvents = 1) /\ fHasTracks = TRUE
  BY DEF Init, NoLocals
<1>3. \A t \in Workers : ~ Misses(t) /\ WillBook(t) /\ WillActivate(t)
  BY <1>2 DEF Misses, WillBook, WillActivate, Resting
<1>4. \A e \in Events : Activated(e) => e = 0
  <2>1. fPendingEvents = [i \in 1 .. NGenerated - 1 |-> i]
    BY DEF Init
  <2>2. Range(fPendingEvents) = 1 .. NGenerated - 1
    BY <2>1 DEF Range
  <2> QED
    BY <1>2, <2>2, EventFacts, SizesAssumption DEF Activated, Waiting, Pending, Events
<1>5. FlushInv /\ ServedInv
  BY <1>2, <1>3 DEF FlushInv, ServedInv
<1>6. DispatchedInv
  BY <1>2, <1>4 DEF DispatchedInv, Trying
<1>7. LastInv
  <2>1. ASSUME NEW e \in Events, Activated(e) PROVE fNtracks[e] # fNdone[e]
    <3>1. fNtracks[e] = fNprimaries[e] /\ fNdone[e] = 0 /\ fNprimaries[e] = IF e < NGenerated THEN Primaries[e] ELSE 0
      BY DEF Init
    <3>2. Primaries[e] # 0 /\ e < NGenerated
      BY <1>4, <2>1, EventFacts
    <3> QED
      BY <3>1, <3>2
  <2> QED
    BY <2>1 DEF LastInv
<1>8. GenerateInv
  BY <1>2, EventFacts DEF GenerateInv
<1>9. LeaverInv
  BY <1>2, EventFacts DEF LeaverInv
<1>10. BookerInv /\ ActivatorInv
  BY <1>3, WorkersAssumption DEF BookerInv, ActivatorInv
<1> QED
  BY <1>5, <1>6, <1>7, <1>8, <1>9, <1>10 DEF AwakeInv

\* Every step keeps it.
LEMMA AwakeStep ==
  ASSUME OnePropagator, NThreads <= NSlots
  PROVE  IInv /\ AwakeInv /\ [Next]_vars => AwakeInv'
<1> SUFFICES ASSUME IInv, AwakeInv, [Next]_vars PROVE AwakeInv'
  OBVIOUS
<1>0. ServerInv /\ CountInv /\ ServerInv' /\ CountInv'
  BY InvStep DEF IInv
<1>i. /\ FlushInv /\ ServedInv /\ DispatchedInv /\ LastInv /\ GenerateInv /\ LeaverInv
      /\ BookerInv /\ ActivatorInv
  BY DEF AwakeInv
<1>1. ASSUME NEW t \in Workers, Step(t) PROVE AwakeInv'
  <2>1. FlushInv' /\ ServedInv' /\ DispatchedInv' /\ LastInv' /\ GenerateInv' /\ LeaverInv'
    BY <1>0, <1>i, <1>1, FlushStep, ServedStep, DispatchedStep, LastStep, GenerateStep, LeaverStep
  <2>2. BookerInv'
    BY <1>0, <1>i, <1>1, BookerStep
  <2>3. ActivatorInv'
    BY <1>0, <1>i, <1>1, ActivatorStep
  <2> QED
    BY <2>1, <2>2, <2>3 DEF AwakeInv
<1>2. ASSUME UNCHANGED vars PROVE AwakeInv'
  <2>0. /\ UNCHANGED <<fPendingEvents, fEventsServed, fHasTracks, fInitialPhase, fNload, fEvents, fEvent, fNactive>>
        /\ UNCHANGED <<fNprimaries, fNtracks, fNdone, fNdispatched, fDoneEvents, fCanStart, flushed, pc, loc, buffer>>
    BY <1>2 DEF vars, queues, flags, server, phase, event, manager, idle
  <2>1. \A t \in Workers : /\ Misses(t)' <=> Misses(t)
                           /\ Resting(t)' <=> Resting(t)
                           /\ Valid(t)' <=> Valid(t)
    BY <2>0 DEF Misses, Resting, Valid
  <2>2. \A t \in Workers : /\ WillBook(t)' <=> WillBook(t)
                           /\ WillActivate(t)' <=> WillActivate(t)
    BY <2>0, <2>1 DEF WillBook, WillActivate
  <2>3. \A e \in Events : /\ Activated(e)' <=> Activated(e)
                          /\ HasPrimaries(e)' <=> HasPrimaries(e)
    BY <2>0 DEF Activated, Waiting, Pending, Adding, Activating, HasPrimaries
  <2>4. FlushInv' /\ ServedInv'
    BY <1>i, <2>0, <2>1 DEF FlushInv, ServedInv
  <2>5. DispatchedInv'
    <3>1. \A t \in Workers : HasPrimaries(loc[t].ev)' <=> HasPrimaries(loc[t].ev)
      BY <2>0 DEF HasPrimaries
    <3> QED
      BY <1>i, <2>0, <2>1, <2>3, <3>1 DEF DispatchedInv
  <2>6. LastInv' /\ GenerateInv'
    BY <1>i, <2>0, <2>3 DEF LastInv, GenerateInv
  <2>7. LeaverInv'
    BY <1>i, <2>0 DEF LeaverInv
  <2>8. BookerInv' /\ ActivatorInv'
    <3>1. HasPrimaries(fEvent)' <=> HasPrimaries(fEvent)
      BY <2>0 DEF HasPrimaries
    <3>2. Open' <=> Open
      BY <2>0 DEF Open
    <3> QED
      BY <1>i, <2>0, <2>2, <3>1, <3>2 DEF BookerInv, ActivatorInv
  <2> QED
    BY <2>4, <2>5, <2>6, <2>7, <2>8 DEF AwakeInv
<1> QED
  BY <1>1, <1>2 DEF Next, Finished

\* With one propagator and a slot for every thread, whenever the server has
\* something to give out some worker is about to take it.
THEOREM ServerAwakeInvariant ==
  ASSUME OnePropagator, NThreads <= NSlots
  PROVE  Spec => []AwakeInv
<1>1. IInv /\ AwakeInv /\ [Next]_vars => AwakeInv'
  BY AwakeStep
<1> QED
  BY <1>1, AwakeInit, ServerInvariant, PTL DEF Spec

\* When everybody sleeps nobody has left: it would have started one of them.
LEMMA AllWait ==
  ASSUME IInv, AwakeInv, ~ NeverAllAsleep
  PROVE  fDoneEvents # Events /\ \A u \in Workers : pc[u] = "wait"
<1>0. ServedInv /\ LeaverInv
  BY DEF AwakeInv
<1>1. PICK t0 \in Workers : pc[t0] = "wait" /\ ~ fCanStart[Propagator[t0]]
  BY DEF NeverAllAsleep
<1>2. \A u \in Workers : pc[u] \in {"wait", "exit"}
  BY DEF NeverAllAsleep
<1>3. fDoneEvents # Events
  BY <1>0, <1>1, <1>2, EventFacts DEF LeaverInv, Busy
<1> QED
  BY <1>0, <1>2, <1>3 DEF ServedInv

\* Whoever has a track, or could have one, does not sleep; so an event is pending.
LEMMA AllAsleep ==
  ASSUME IInv, AwakeInv, ~ NeverAllAsleep, HasPrimaries(fEvent) => \E u \in Workers : WillBook(u)
  PROVE  fPendingEvents # <<>>
<1>0. ServerInv /\ FlushInv /\ ServedInv /\ DispatchedInv /\ LastInv /\ GenerateInv
  BY DEF IInv, AwakeInv
<1>1. fDoneEvents # Events /\ \A u \in Workers : pc[u] = "wait"
  BY AllWait
<1>2. \A u \in Workers : ~ WillActivate(u)
  BY <1>1 DEF WillActivate, Resting
<1>3. PICK e \in Events : e < fNload /\ e \notin fDoneEvents
  <2>1. CASE fNload = NEvents
    BY <1>0, <1>1, <2>1, EventFacts DEF ServerInv, TypeInv
  <2> QED
    BY <1>0, <1>1, <2>1 DEF GenerateInv
<1>4. ~ Activated(e)
  BY <1>0, <1>2, <1>3, ActiveIsServed
<1>5. Pending(e)
  BY <1>1, <1>3, <1>4 DEF Activated, Waiting, Adding, Activating
<1> QED
  BY <1>5 DEF Pending, Range

\* The workers are all asleep for two reasons only: the initial phase has not
\* ended, or the flag that the server has tracks was cleared.
LEMMA NotAsleep ==
  ASSUME IInv, AwakeInv, Open
  PROVE  NeverAllAsleep
<1> SUFFICES ASSUME ~ NeverAllAsleep PROVE FALSE
  OBVIOUS
<1>1. fPendingEvents # <<>> /\ \A u \in Workers : pc[u] = "wait"
  BY AllWait, AllAsleep DEF AwakeInv, BookerInv
<1>2. \E u \in Workers : WillActivate(u)
  BY <1>1 DEF AwakeInv, ActivatorInv
<1> QED
  BY <1>1, <1>2 DEF WillActivate, Resting

------------------------------------------------------------------------------
(* How far the run is when they all sleep: either the initial phase goes on *)
(* although every thread has asked for two baskets or its whole share, or   *)
(* the last event was activated and its primaries are left.  A single       *)
(* worker never comes to either.                                            *)

\* The baskets asked for in the initial phase, one by one.
InitialBaskets == UNION {{t} \X (1 .. fNinitialB[t]) : t \in Workers}
Serving == {t \in Workers : pc[t] = "f_served"}

PhaseInv ==
  fInitialPhase =>
    /\ NThreads > 1
    /\ fNserved = 0 \/ fNserved < fNbasketsInit
    /\ IsFiniteSet(InitialBaskets)
    /\ Cardinality(InitialBaskets) = fNserved + Cardinality(Serving)

\* A worker that flushed asked for a basket, unless it has no share left; one
\* that sleeps asked twice.
QuotaInv ==
  fInitialPhase /\ fNactive < NEvents /\ fMaxInit > 0 =>
    \A t \in Workers :
      /\ flushed[t] => fNinitialB[t] >= 1
      /\ pc[t] \in Asking => fNinitialB[t] >= (IF flushed[t] THEN 2 ELSE 1)
      /\ pc[t] \in {"idle", "wait"} => fNinitialB[t] >= Min2(2, fMaxInit)

\* A single worker has no event but the present one.
AloneInv ==
  NThreads = 1 =>
    /\ ~ fHasTracks => ~ HasPrimaries(fEvent)
    /\ \A t \in Workers : pc[t] \in Trying \union {"g_book", "g_valid"} => loc[t].ev = fEvent

AwayInv == PhaseInv /\ QuotaInv /\ AloneInv

LEMMA QuotientPositive == ASSUME NEW a \in Nat, NEW b \in Nat \ {0}, b <= a PROVE a \div b > 0
BY SMT

\* The shares of the initial phase are numbers: nothing is divided by zero, as
\* every slot has an event with a primary.
LEMMA SharesAreNat ==
  fInitialBsize \in Nat \ {0} /\ fNbasketsInit \in Nat /\ fMaxInit \in Nat
<1> DEFINE all == UNION {{e} \X (0 .. Primaries[e] - 1) : e \in 0 .. NSlots - 1}
           f == [s \in Slots |-> <<s, 0>>]
<1>1. IsFiniteSet(all)
  <2> DEFINE P(e) == {e} \X (0 .. Primaries[e] - 1)
             g == [e \in Slots |-> P(e)]
             T == {P(e) : e \in Slots}
  <2>1. g \in Surjection(Slots, T) /\ IsFiniteSet(Slots)
    <3>1. g \in Surjection(Slots, T)
      BY DEF Surjection
    <3>2. IsFiniteSet(Slots)
      BY SizesAssumption, FS_Interval DEF Slots
    <3> HIDE DEF g, T
    <3> QED
      BY <3>1, <3>2
  <2>2. IsFiniteSet(T)
    <3> HIDE DEF g, T
    <3> QED
      BY <2>1, FS_Surjection
  <2>3. ASSUME NEW U \in T PROVE IsFiniteSet(U)
    <3>1. PICK e \in Slots : U = {e} \X (0 .. Primaries[e] - 1)
      OBVIOUS
    <3>2. Primaries[e] \in Nat
      BY EventFacts
    <3>3. IsFiniteSet({e}) /\ IsFiniteSet(0 .. Primaries[e] - 1)
      <4>1. 0 \in Int /\ Primaries[e] - 1 \in Int
        BY <3>2
      <4> QED
        BY <4>1, FS_Singleton, FS_Interval
    <3> HIDE DEF T
    <3> QED
      BY <3>1, <3>3, FS_Product
  <2>4. all = UNION T
    BY DEF Slots
  <2> HIDE DEF all, T
  <2> QED
    BY <2>2, <2>3, <2>4, FS_UNION
<1>2. f \in Injection(Slots, all)
  <2>1. \A s \in Slots : <<s, 0>> \in all
    BY EventFacts DEF Slots
  <2> HIDE DEF all
  <2> QED
    BY <2>1 DEF Injection, IsInjective
<1>3. IsFiniteSet(Slots) /\ Cardinality(Slots) = NSlots
  BY SizesAssumption, FS_Interval DEF Slots
<1>4. fNtracksInit \in Nat /\ NSlots <= fNtracksInit
  <2>1. Cardinality(Slots) <= Cardinality(all) /\ Cardinality(all) \in Nat
    <3> HIDE DEF all, f
    <3> QED
      BY <1>1, <1>2, <1>3, FS_Injection, FS_CardinalityType
  <2> QED
    BY <1>3, <2>1 DEF fNtracksInit
<1>5. ASSUME NEW a \in Nat, NEW b \in Nat \ {0} PROVE a \div b \in Nat /\ a % b \in Nat
  OBVIOUS
<1>6. fNtracksInit \div NThreads \in Nat /\ fNtracksInit \div NSlots \in Nat
  BY <1>4, <1>5, EventFacts, SizesAssumption
<1>7. fNtracksInit \div NSlots > 0
  BY <1>4, SizesAssumption, QuotientPositive
<1>8. fInitialBsize \in Nat \ {0}
  BY <1>6, <1>7, SizesAssumption DEF fInitialBsize, Min2, Max2
<1>9. fNbasketsInit \in Nat
  BY <1>4, <1>5, <1>8 DEF fNbasketsInit
<1>10. fMaxInit \in Nat
  BY <1>5, <1>9, EventFacts DEF fMaxInit
<1> QED
  BY <1>8, <1>9, <1>10

\* The steps that count baskets.
LEMMA ServingKept ==
  ASSUME ServerInv, NEW t \in Workers, Step(t), ~ CountServed(t)
  PROVE  \/ Feed(t)
         \/ fNserved' = fNserved /\ fNinitialB' = fNinitialB /\ pc[t] # "f_served" /\ pc'[t] # "f_served"
<1>0. pc \in [Workers -> Labels]
  BY DEF ServerInv, TypeInv
<1>1. CASE Suspend(t) \/ Wake(t) \/ Exit(t) \/ BackToFeed(t)
  BY <1>0, <1>1 DEF Suspend, Wake, Exit, BackToFeed, Goto, phase
<1>2. CASE FeedNothing(t)
  BY <1>0, <1>2 DEF FeedNothing, Return, Goto, phase
<1>3. CASE LoadEvent(t) \/ Book(t) \/ CheckBooked(t) \/ Clone(t)
  BY <1>0, <1>3 DEF LoadEvent, Book, CheckBooked, Clone, Return, Goto, phase
<1>4. CASE CheckServed(t) \/ NoMoreTracks(t) \/ TakeSlot(t) \/ NoSlot(t)
  BY <1>0, <1>4 DEF CheckServed, NoMoreTracks, TakeSlot, NoSlot, Return, Goto, phase
<1>5. CASE ClearOld(t) \/ ClearDispatched(t) \/ TakePending(t) \/ NoPending(t) \/ ReturnSlot(t)
  BY <1>0, <1>5 DEF ClearOld, ClearDispatched, TakePending, NoPending, ReturnSlot, Return, Goto, phase
<1>6. CASE Replace(t) \/ Overtaken(t) \/ UndoPending(t) \/ UndoSlot(t)
  BY <1>0, <1>6 DEF Replace, Overtaken, UndoPending, UndoSlot, Goto, phase
<1>7. CASE CountActive(t) \/ FlagServed(t) \/ FlagHasTracks(t)
  BY <1>0, <1>7 DEF CountActive, FlagServed, FlagHasTracks, Goto, phase
<1>8. CASE \E k \in buffer[t] : AddTrack(t, k) \/ StopTrack(t, k)
  BY <1>0, <1>8 DEF AddTrack, StopTrack, Stepping, Goto, phase
<1>9. CASE CheckLeft(t) \/ Prioritize(t) \/ CountPriority(t) \/ EventTransported(t)
  BY <1>0, <1>9 DEF CheckLeft, Prioritize, CountPriority, EventTransported, Resume, Goto, phase
<1>10. CASE CompletedEvent(t) \/ LockGenerator(t) \/ GenerateNewEvent(t) \/ AddEvent(t)
  BY <1>0, <1>10 DEF CompletedEvent, LockGenerator, GenerateNewEvent, AddEvent, Resume, Goto, phase
<1>11. CASE CountStored(t) \/ ResetServed(t) \/ ResetHasTracks(t)
  BY <1>0, <1>11 DEF CountStored, ResetServed, ResetHasTracks, Resume, Goto, phase
<1> QED
  BY <1>1, <1>2, <1>3, <1>4, <1>5, <1>6, <1>7, <1>8, <1>9, <1>10, <1>11
  DEF Step, Work, GetTracks, ActivateEvent, Transport

\* The baskets of the initial phase are counted when they were asked for.
LEMMA PhaseStep ==
  ASSUME ServerInv, PhaseInv, NEW t \in Workers, Step(t)
  PROVE  PhaseInv'
<1> SUFFICES ASSUME fInitialPhase'
    PROVE  /\ fNserved' = 0 \/ fNserved' < fNbasketsInit
           /\ IsFiniteSet(InitialBaskets')
           /\ Cardinality(InitialBaskets') = fNserved' + Cardinality(Serving')
           /\ NThreads > 1
  BY DEF PhaseInv
<1>0. /\ pc \in [Workers -> Labels] /\ fNserved \in Nat /\ fNinitialB \in [Workers -> Nat]
      /\ fInitialPhase \in BOOLEAN
  BY DEF ServerInv, TypeInv
<1>1. fInitialPhase
  BY <1>0, Writers DEF CountServed
<1>2. /\ fNserved = 0 \/ fNserved < fNbasketsInit
      /\ IsFiniteSet(InitialBaskets) /\ Cardinality(InitialBaskets) = fNserved + Cardinality(Serving)
  BY <1>1 DEF PhaseInv
<1>i. NThreads > 1
  BY <1>1 DEF PhaseInv
<1>3. IsFiniteSet(Serving) /\ Cardinality(Serving) \in Nat
  BY WorkersAssumption, FS_Subset, FS_CardinalityType DEF Serving
<1>k. \A u \in Workers : u # t => pc'[u] = pc[u]
  BY OthersKept
<1>4. CASE CountServed(t)
  <2>1. fNserved' = fNserved + 1 /\ fNserved + 1 < fNbasketsInit /\ fNinitialB' = fNinitialB
    BY <1>4 DEF CountServed
  <2>2. Serving' = Serving \ {t} /\ t \in Serving
    BY <1>0, <1>4, <1>k DEF CountServed, Goto, Serving
  <2>3. Cardinality(Serving') = Cardinality(Serving) - 1
    BY <1>3, <2>2, FS_RemoveElement
  <2>4. InitialBaskets' = InitialBaskets
    BY <2>1 DEF InitialBaskets
  <2> QED
    BY <1>0, <1>2, <1>3, <1>i, <2>1, <2>3, <2>4
<1>5. CASE Feed(t) /\ ~ CountServed(t)
  <2> DEFINE n == fNinitialB[t] + 1
  <2>1. fNserved' = fNserved /\ fNinitialB' = [fNinitialB EXCEPT ![t] = @ + 1] /\ pc'[t] = "f_served" /\ pc[t] # "f_served"
    BY <1>0, <1>1, <1>5 DEF Feed, Goto
  <2>2. Serving' = Serving \union {t} /\ t \notin Serving
    BY <1>k, <2>1 DEF Serving
  <2>3. Cardinality(Serving') = Cardinality(Serving) + 1
    BY <1>3, <2>2, FS_AddElement
  <2>4. InitialBaskets' = InitialBaskets \union {<<t, n>>} /\ <<t, n>> \notin InitialBaskets
    <3>1. \A u \in Workers, i \in Nat : <<u, i>> \in InitialBaskets <=> 1 <= i /\ i <= fNinitialB[u]
      BY <1>0 DEF InitialBaskets
    <3>2. \A u \in Workers, i \in Nat : <<u, i>> \in InitialBaskets' <=> 1 <= i /\ i <= fNinitialB'[u]
      BY <1>0, <2>1 DEF InitialBaskets
    <3>3. InitialBaskets \subseteq Workers \X Nat /\ InitialBaskets' \subseteq Workers \X Nat
      BY <1>0, <2>1 DEF InitialBaskets
    <3>4. n \in Nat /\ \A u \in Workers : fNinitialB[u] \in Nat /\ fNinitialB'[u] = IF u = t THEN n ELSE fNinitialB[u]
      BY <1>0, <2>1
    <3>5. ASSUME NEW u \in Workers, NEW i \in Nat
          PROVE  <<u, i>> \in InitialBaskets' <=> <<u, i>> \in InitialBaskets \/ (u = t /\ i = n)
      <4>1. /\ <<u, i>> \in InitialBaskets <=> 1 <= i /\ i <= fNinitialB[u]
            /\ <<u, i>> \in InitialBaskets' <=> 1 <= i /\ i <= fNinitialB'[u]
        BY <3>1, <3>2
      <4>2. fNinitialB[u] \in Nat /\ fNinitialB'[u] = IF u = t THEN n ELSE fNinitialB[u]
        BY <3>4
      <4>3. CASE u = t
        BY <4>1, <4>2, <4>3
      <4>4. CASE u # t
        BY <4>1, <4>2, <4>4
      <4> QED
        BY <4>3, <4>4
    <3> QED
      BY <3>1, <3>3, <3>4, <3>5
  <2>5. IsFiniteSet(InitialBaskets') /\ Cardinality(InitialBaskets') = Cardinality(InitialBaskets) + 1
    BY <1>2, <2>4, FS_AddElement
  <2> QED
    BY <1>0, <1>2, <1>3, <1>i, <2>1, <2>3, <2>5
<1>6. CASE ~ Feed(t) /\ ~ CountServed(t)
  <2>1. fNserved' = fNserved /\ fNinitialB' = fNinitialB /\ pc[t] # "f_served" /\ pc'[t] # "f_served"
    BY <1>6, ServingKept
  <2>2. Serving' = Serving /\ InitialBaskets' = InitialBaskets
    BY <1>k, <2>1 DEF Serving, InitialBaskets
  <2> QED
    BY <1>2, <1>i, <2>1, <2>2
<1> QED
  BY <1>4, <1>5, <1>6

\* In the initial phase, before the last event is activated, a worker gets
\* nothing only after it asked for a basket, or with no share left.
LEMMA QuotaStep ==
  ASSUME ServerInv, CountInv, ServerInv', CountInv', ServedInv, PhaseInv, QuotaInv,
         NEW t \in Workers, Step(t)
  PROVE  QuotaInv'
<1> DEFINE Ok(u) == /\ flushed[u] => fNinitialB[u] >= 1
                    /\ pc[u] \in Asking => fNinitialB[u] >= (IF flushed[u] THEN 2 ELSE 1)
                    /\ pc[u] \in {"idle", "wait"} => fNinitialB[u] >= Min2(2, fMaxInit)
<1> SUFFICES ASSUME fInitialPhase', fNactive' < NEvents, fMaxInit > 0, NEW u \in Workers PROVE Ok(u)'
  BY DEF QuotaInv
<1>0. /\ pc \in [Workers -> Labels] /\ flushed \in [Workers -> BOOLEAN] /\ loc \in [Workers -> Locals]
      /\ fNinitialB \in [Workers -> Nat] /\ fInitialPhase \in BOOLEAN /\ fMaxInit \in Nat
      /\ fNactive \in Nat /\ fNactive' \in Nat /\ NEvents \in Nat
  BY SharesAreNat, ActiveBound, ActiveBoundNext, SizesAssumption DEF ServerInv, TypeInv
<1>1. fInitialPhase
  BY <1>0, Writers DEF CountServed
<1>2. fNactive < NEvents /\ fHasTracks
  <2>1. fNactive' = fNactive \/ fNactive' = fNactive + 1
    BY Writers DEF CountActive
  <2> QED
    BY <1>0, <2>1 DEF ServedInv
<1>3. fMaxInit > 0
  OBVIOUS
<1>4. \A v \in Workers : Ok(v)
  BY <1>1, <1>2, <1>3 DEF QuotaInv
<1>5. Min2(2, fMaxInit) \in 1 .. 2 /\ Min2(2, fMaxInit) <= fMaxInit
  BY <1>0, <1>3 DEF Min2
<1>6. CASE u # t
  <2>1. pc'[u] = pc[u] /\ flushed'[u] = flushed[u]
    BY <1>6, OthersKept
  <2>2. fNinitialB'[u] = fNinitialB[u]
    BY <1>0, <1>6, ServingKept DEF Feed, CountServed
  <2> QED
    BY <1>4, <2>1, <2>2
<1>7. CASE u = t
  <2> DEFINE b == fNinitialB[t]
  <2>0. Ok(t) /\ b \in Nat
    BY <1>0, <1>4
  <2> SUFFICES Ok(t)'
    BY <1>7
  <2>1. CASE FeedNothing(t)
    <3>1. Return(t, FALSE) /\ b >= fMaxInit /\ fNinitialB' = fNinitialB
      BY <1>2, <2>1 DEF FeedNothing, phase
    <3>2. b >= 1 /\ b >= Min2(2, fMaxInit)
      BY <1>0, <1>3, <1>5, <2>0, <3>1
    <3>3. pc'[t] \in {"idle", "flush"}
      BY <1>0, <3>1, Returned
    <3> QED
      BY <3>1, <3>2, <3>3 DEF Asking, Trying
  <2>2. CASE Feed(t)
    <3>1. fNinitialB'[t] = b + 1 /\ flushed' = flushed /\ pc'[t] = "f_served"
      BY <1>0, <1>1, <2>2 DEF Feed, Goto, idle
    <3> QED
      BY <2>0, <3>1
  <2>3. CASE ~ Feed(t)
    <3>1. fNinitialB' = fNinitialB
      BY <2>3, ServingKept DEF CountServed
    <3>2. CASE pc[t] \in Asking /\ pc'[t] \in Asking /\ flushed' = flushed
      BY <2>0, <3>1, <3>2 DEF Asking, Trying
    <3>3. CASE pc[t] \in Asking /\ \E injected \in BOOLEAN : Return(t, injected)
      <4>1. PICK injected \in BOOLEAN : Return(t, injected)
        BY <3>3
      <4>2. CASE injected
        <5>1. pc'[t] = "step" /\ ~ flushed'[t]
          BY <4>1, <4>2, Returned
        <5> QED
          BY <5>1 DEF Asking, Trying
      <4>3. CASE ~ injected
        <5>1. pc'[t] = (IF flushed[t] THEN "idle" ELSE "flush")
          BY <1>0, <4>1, <4>3, Returned
        <5>2. b >= 1 /\ (flushed[t] => b >= 2)
          BY <1>0, <2>0, <3>3
        <5>3. flushed[t] => b >= Min2(2, fMaxInit)
          BY <1>5, <2>0, <5>2
        <5> QED
          BY <3>1, <5>1, <5>2, <5>3 DEF Asking, Trying
      <4> QED
        BY <4>2, <4>3
    <3>4. CASE flushed' = flushed /\ (pc'[t] \in {"idle", "wait"} => pc[t] \in {"idle", "wait"}) /\ pc'[t] \notin Asking
      BY <2>0, <3>1, <3>4
    <3>5. CASE Suspend(t) \/ Wake(t) \/ Exit(t) \/ BackToFeed(t)
      <4>1. flushed' = flushed /\ (pc'[t] \in {"idle", "wait"} => pc[t] \in {"idle", "wait"}) /\ pc'[t] \notin Asking
        BY <1>0, <3>5 DEF Suspend, Wake, Exit, BackToFeed, Goto, idle, Asking, Trying
      <4> QED
        BY <3>4, <4>1
    <3>6. CASE CountServed(t) \/ LoadEvent(t) \/ Book(t) \/ CheckBooked(t)
      <4>1. pc[t] \in Asking /\ pc'[t] \in Asking /\ flushed' = flushed
        BY <1>0, <3>6 DEF CountServed, LoadEvent, Book, CheckBooked, Goto, idle, Asking, Trying
      <4> QED
        BY <3>2, <4>1
    <3>7. CASE Clone(t)
      <4>1. \/ pc[t] \in Asking /\ pc'[t] \in Asking /\ flushed' = flushed
            \/ pc[t] \in Asking /\ Return(t, TRUE)
        BY <1>0, <3>7 DEF Clone, Goto, idle, Asking, Trying
      <4> QED
        BY <3>2, <3>3, <4>1
    <3>8. CASE NoMoreTracks(t) \/ NoSlot(t) \/ ReturnSlot(t)
      <4>1. pc[t] \in Asking /\ Return(t, loc[t].got) /\ loc[t].got \in BOOLEAN
        BY <1>0, <3>8 DEF NoMoreTracks, NoSlot, ReturnSlot, Asking, Trying, Locals
      <4> QED
        BY <3>3, <4>1
    <3>9. CASE CheckServed(t) \/ TakeSlot(t) \/ ClearOld(t) \/ ClearDispatched(t) \/ TakePending(t) \/ NoPending(t)
      <4>1. pc[t] \in Asking /\ pc'[t] \in Asking /\ flushed' = flushed
        BY <1>0, <3>9 DEF CheckServed, TakeSlot, ClearOld, ClearDispatched, TakePending, NoPending, Goto, idle, Asking, Trying
      <4> QED
        BY <3>2, <4>1
    <3>10. CASE Replace(t) \/ Overtaken(t) \/ UndoPending(t) \/ UndoSlot(t) \/ CountActive(t) \/ FlagServed(t) \/ FlagHasTracks(t)
      <4>1. pc[t] \in Asking /\ pc'[t] \in Asking /\ flushed' = flushed
        BY <1>0, <3>10 DEF Replace, Overtaken, UndoPending, UndoSlot, CountActive, FlagServed, FlagHasTracks, Goto, idle, Asking, Trying
      <4> QED
        BY <3>2, <4>1
    <3>11. CASE Transport(t)
      <4>1. pc[t] \in Busy /\ flushed' = flushed
        <5>1. flushed' = flushed
          BY <3>11 DEF Transport, AddTrack, StopTrack, CheckLeft, Prioritize, CountPriority, EventTransported,
             CompletedEvent, LockGenerator, GenerateNewEvent, AddEvent, CountStored, ResetServed, ResetHasTracks, idle
        <5>2. pc[t] \in Busy
          BY <3>11 DEF Transport, AddTrack, StopTrack, Stepping, CheckLeft, Prioritize, CountPriority, EventTransported,
             CompletedEvent, LockGenerator, GenerateNewEvent, AddEvent, CountStored, ResetServed, ResetHasTracks, Busy
        <5> QED
          BY <5>1, <5>2
      <4>2. pc'[t] \in Busy \union {"feed"}
        BY <4>1, LabelStep
      <4> QED
        BY <3>4, <4>1, <4>2 DEF Busy, Asking, Trying
    <3> QED
      BY <2>1, <2>3, <3>5, <3>6, <3>7, <3>8, <3>9, <3>10, <3>11 DEF Step, Work, GetTracks, ActivateEvent
  <2> QED
    BY <2>2, <2>3
<1> QED
  BY <1>6, <1>7

\* Whoever is about to book has just loaded the present event.
LEMMA LoadStep ==
  ASSUME ServerInv, NEW t \in Workers, Step(t), pc'[t] = "g_book"
  PROVE  LoadEvent(t)
<1>0. pc \in [Workers -> Labels] /\ loc \in [Workers -> Locals]
  BY DEF ServerInv, TypeInv
<1>1. CASE Suspend(t) \/ Wake(t) \/ Exit(t) \/ BackToFeed(t)
  BY <1>0, <1>1 DEF Suspend, Wake, Exit, BackToFeed, Goto
<1>2. CASE FeedNothing(t) \/ Feed(t) \/ CountServed(t)
  BY <1>0, <1>2 DEF FeedNothing, Feed, CountServed, Return, Goto
<1>3. CASE LoadEvent(t) \/ Book(t) \/ CheckBooked(t) \/ Clone(t)
  BY <1>0, <1>3 DEF LoadEvent, Book, CheckBooked, Clone, Return, Goto
<1>4. CASE CheckServed(t) \/ NoMoreTracks(t) \/ TakeSlot(t) \/ NoSlot(t)
  BY <1>0, <1>4 DEF CheckServed, NoMoreTracks, TakeSlot, NoSlot, Return, Goto
<1>5. CASE ClearOld(t) \/ ClearDispatched(t) \/ TakePending(t) \/ NoPending(t) \/ ReturnSlot(t)
  BY <1>0, <1>5 DEF ClearOld, ClearDispatched, TakePending, NoPending, ReturnSlot, Return, Goto
<1>6. CASE Replace(t) \/ Overtaken(t) \/ UndoPending(t) \/ UndoSlot(t)
  BY <1>0, <1>6 DEF Replace, Overtaken, UndoPending, UndoSlot, Goto
<1>7. CASE CountActive(t) \/ FlagServed(t) \/ FlagHasTracks(t)
  BY <1>0, <1>7 DEF CountActive, FlagServed, FlagHasTracks, Goto
<1>8. CASE \E k \in buffer[t] : AddTrack(t, k) \/ StopTrack(t, k)
  BY <1>0, <1>8 DEF AddTrack, StopTrack, Stepping, Goto
<1>9. CASE CheckLeft(t) \/ Prioritize(t) \/ CountPriority(t) \/ EventTransported(t)
  BY <1>0, <1>9 DEF CheckLeft, Prioritize, CountPriority, EventTransported, Resume, Goto
<1>10. CASE CompletedEvent(t) \/ LockGenerator(t) \/ GenerateNewEvent(t) \/ AddEvent(t)
  BY <1>0, <1>10 DEF CompletedEvent, LockGenerator, GenerateNewEvent, AddEvent, Resume, Goto
<1>11. CASE CountStored(t) \/ ResetServed(t) \/ ResetHasTracks(t)
  BY <1>0, <1>11 DEF CountStored, ResetServed, ResetHasTracks, Resume, Goto
<1> QED
  BY <1>1, <1>2, <1>3, <1>4, <1>5, <1>6, <1>7, <1>8, <1>9, <1>10, <1>11
  DEF Step, Work, GetTracks, ActivateEvent, Transport

\* A single worker works on the present event: nobody else replaces it.
LEMMA AloneStep ==
  ASSUME ServerInv, ServerInv', CountInv, ServedInv, DispatchedInv, AloneInv, NEW t \in Workers, Step(t)
  PROVE  AloneInv'
<1> SUFFICES ASSUME NThreads = 1
    PROVE  /\ ~ fHasTracks' => ~ HasPrimaries(fEvent)'
           /\ \A u \in Workers : pc'[u] \in Trying \union {"g_book", "g_valid"} => loc'[u].ev = fEvent'
  BY DEF AloneInv
<1>0. /\ pc \in [Workers -> Labels] /\ loc \in [Workers -> Locals]
      /\ fEvent \in Events /\ Activated(fEvent)
  BY DEF ServerInv, TypeInv, Places, WorkInv
<1>1. Workers = {t}
  <2>1. PICK x : Workers = {x}
    BY WorkersAssumption, FS_CardinalityType, FS_Singleton DEF NThreads
  <2> QED
    BY <2>1
<1>2. ASSUME ~ fHasTracks' PROVE ~ HasPrimaries(fEvent)'
  <2>1. CASE Replace(t)
    <3>1. ~ fHasTracks
      BY <1>2, <2>1 DEF Replace, flags
    <3>2. \A e \in Events : ~ Waiting(e)
      BY <3>1, AllActivated DEF ServedInv, Activated
    <3> QED
      BY <2>1, <3>2, PlacesReplace
  <2>2. CASE ~ Replace(t)
    <3>1. fEvent' = fEvent
      BY <2>2, Writers
    <3>2. ~ HasPrimaries(fEvent)
      <4>1. CASE ~ fHasTracks
        BY <4>1 DEF AloneInv
      <4>2. CASE NoMoreTracks(t)
        <5>1. pc[t] = "g_nomore"
          BY <4>2 DEF NoMoreTracks
        <5> QED
          BY <5>1 DEF AloneInv, DispatchedInv, Trying
      <4> QED
        BY <1>2, <4>1, <4>2, Writers DEF FlagHasTracks, ResetHasTracks
    <3> QED
      BY <1>0, <3>1, <3>2, EventKept DEF HasPrimaries
  <2> QED
    BY <2>1, <2>2
<1>3. ASSUME pc'[t] \in Trying \union {"g_book", "g_valid"} PROVE loc'[t].ev = fEvent'
  <2>1. ~ Replace(t)
    BY <1>0, <1>3 DEF Replace, Goto, Trying
  <2>2. fEvent' = fEvent
    BY <2>1, Writers
  <2>3. CASE Book(t)
    <3>1. pc[t] \in {"g_book", "b_book"} /\ (pc[t] = "b_book" => pc'[t] = "b_valid") /\ loc'[t].ev = loc[t].ev
      BY <1>0, <2>3 DEF Book, Goto, Keep, Locals
    <3> QED
      BY <1>3, <2>2, <3>1 DEF AloneInv, Trying
  <2>4. CASE pc'[t] = "g_book"
    <3>1. LoadEvent(t)
      BY <2>4, LoadStep
    <3> QED
      BY <1>0, <2>2, <3>1 DEF LoadEvent, Keep, Locals
  <2>5. CASE ~ Book(t) /\ pc'[t] # "g_book"
    BY <1>3, <2>2, <2>5, TryingStep DEF AloneInv
  <2> QED
    BY <2>3, <2>4, <2>5
<1> QED
  BY <1>1, <1>2, <1>3

LEMMA AwayInit == Init => AwayInv
<1> SUFFICES ASSUME Init PROVE AwayInv
  OBVIOUS
<1>1. /\ \A t \in Workers : pc[t] = "feed" /\ flushed[t] = FALSE
      /\ fEvent = 0 /\ fHasTracks = TRUE /\ fNserved = 0 /\ fNinitialB = [t \in Workers |-> 0]
      /\ fInitialPhase = (NThreads > 1) /\ fNload = NGenerated
  BY DEF Init
<1>3. PhaseInv
  <2>1. InitialBaskets = {} /\ Serving = {}
    BY <1>1 DEF InitialBaskets, Serving
  <2> QED
    <3>1. IsFiniteSet(InitialBaskets) /\ Cardinality(InitialBaskets) = 0 /\ Cardinality(Serving) = 0
      BY <2>1, FS_EmptySet
    <3>2. fInitialPhase => NThreads > 1
      BY <1>1
    <3> QED
      BY <1>1, <3>1, <3>2 DEF PhaseInv
<1>4. QuotaInv
  BY <1>1 DEF QuotaInv, Asking, Trying
<1>5. AloneInv
  BY <1>1 DEF AloneInv, Trying
<1> QED
  BY <1>3, <1>4, <1>5 DEF AwayInv

LEMMA AwayStep ==
  IInv /\ AwakeInv /\ AwayInv /\ [Next]_vars => AwayInv'
<1> SUFFICES ASSUME IInv, AwakeInv, AwayInv, [Next]_vars PROVE AwayInv'
  OBVIOUS
<1>0. ServerInv /\ CountInv /\ ServerInv' /\ CountInv'
  BY InvStep DEF IInv
<1>i. ServedInv /\ DispatchedInv /\ PhaseInv /\ QuotaInv /\ AloneInv
  BY DEF AwakeInv, AwayInv
<1>1. ASSUME NEW t \in Workers, Step(t) PROVE AwayInv'
  BY <1>0, <1>i, <1>1, PhaseStep, QuotaStep, AloneStep DEF AwayInv
<1>2. ASSUME UNCHANGED vars PROVE AwayInv'
  <2>0. /\ UNCHANGED <<fPendingEvents, fHasTracks, fInitialPhase, fNserved, fNinitialB, fNload, fEvents, fEvent, fNactive>>
        /\ UNCHANGED <<fNprimaries, fNdispatched, flushed, pc, loc>>
    BY <1>2 DEF vars, queues, flags, server, phase, event, manager, idle
  <2>1. HasPrimaries(fEvent)' <=> HasPrimaries(fEvent)
    BY <2>0 DEF HasPrimaries
  <2>2. PhaseInv' /\ QuotaInv'
    BY <1>i, <2>0 DEF PhaseInv, QuotaInv, InitialBaskets, Serving
  <2>3. AloneInv'
    BY <1>i, <2>0, <2>1 DEF AloneInv
  <2> QED
    BY <2>2, <2>3 DEF AwayInv
<1> QED
  BY <1>1, <1>2 DEF Next, Finished

\* The initial phase goes on after every thread asked for two baskets, or for
\* its whole share of them.
PhaseUnfinished ==
  /\ fInitialPhase /\ fNactive < NEvents
  /\ NThreads * Min2(2, fMaxInit) <= fNserved
  /\ fNserved = 0 \/ fNserved < fNbasketsInit

\* The last event was activated and still has primaries.
LastUnfinished ==
  /\ fNactive = NEvents /\ HasPrimaries(fEvent)
  /\ fInitialPhase \/ ~ fHasTracks

\* Who sleeps in the initial phase has asked twice, or for his whole share.
LEMMA PhaseAsleep ==
  ASSUME ServerInv, PhaseInv, QuotaInv, fInitialPhase, fNactive < NEvents,
         \A u \in Workers : pc[u] = "wait"
  PROVE  PhaseUnfinished
<1> DEFINE Q == Min2(2, fMaxInit)
           two == Workers \X (1 .. Q)
<1>1. /\ fNserved \in Nat /\ fMaxInit \in Nat /\ NThreads \in Nat \ {0}
      /\ fNinitialB \in [Workers -> Nat]
  BY SharesAreNat, EventFacts DEF ServerInv, TypeInv
<1>2. /\ IsFiniteSet(InitialBaskets)
      /\ fNserved = 0 \/ fNserved < fNbasketsInit
      /\ Cardinality(InitialBaskets) = fNserved + Cardinality(Serving)
  BY DEF PhaseInv
<1>3. CASE fMaxInit = 0
  <2>1. NThreads * Min2(2, fMaxInit) = 0
    <3>1. Min2(2, fMaxInit) = 0
      BY <1>3 DEF Min2
    <3> QED
      BY <1>1, <3>1
  <2> QED
    BY <1>1, <1>2, <2>1 DEF PhaseUnfinished
<1>4. CASE fMaxInit > 0
  <2>1. Q \in Nat \ {0}
    BY <1>1, <1>4 DEF Min2
  <2>2. Serving = {} /\ Cardinality(Serving) = 0
    BY FS_EmptySet DEF Serving
  <2>3. two \subseteq InitialBaskets
    <3>1. \A u \in Workers : fNinitialB[u] \in Nat /\ fNinitialB[u] >= Q
      BY <1>1, <1>4 DEF QuotaInv
    <3>2. \A u \in Workers : \A i \in 1 .. Q : i \in 1 .. fNinitialB[u]
      <4> HIDE DEF Q
      <4> QED
        BY <2>1, <3>1
    <3> HIDE DEF Q
    <3> QED
      BY <3>2 DEF InitialBaskets
  <2>4. IsFiniteSet(two) /\ Cardinality(two) = NThreads * Q
    <3> HIDE DEF Q
    <3>1. 1 \in Int /\ Q \in Int
      BY <2>1
    <3>2. IsFiniteSet(1 .. Q) /\ Cardinality(1 .. Q) = Q
      BY <2>1, <3>1, FS_Interval
    <3> QED
      BY <3>2, WorkersAssumption, FS_Product DEF NThreads
  <2>5. NThreads * Q <= fNserved
    <3> HIDE DEF two, Q
    <3>1. Cardinality(two) <= Cardinality(InitialBaskets)
      BY <1>2, <2>3, FS_Subset
    <3> QED
      BY <1>1, <1>2, <2>2, <2>4, <3>1
  <2> QED
    BY <1>2, <2>5 DEF PhaseUnfinished
<1> QED
  BY <1>1, <1>3, <1>4

\* What is unfinished when everybody sleeps.
LEMMA Asleep ==
  ASSUME IInv, AwakeInv, AwayInv
  PROVE  NeverAllAsleep \/ PhaseUnfinished \/ LastUnfinished
<1> SUFFICES ASSUME ~ NeverAllAsleep PROVE PhaseUnfinished \/ LastUnfinished
  OBVIOUS
<1>0. ServerInv /\ CountInv /\ ServedInv /\ PhaseInv /\ QuotaInv
  BY DEF IInv, AwakeInv, AwayInv
<1>1. \A u \in Workers : pc[u] = "wait"
  BY AllWait
<1>2. ~ Open
  BY NotAsleep
<1>3. fInitialPhase \in BOOLEAN /\ fHasTracks \in BOOLEAN /\ fNactive \in Nat /\ fNactive <= NEvents
  BY <1>0, ActiveBound DEF ServerInv, TypeInv
<1>4. CASE fNactive # NEvents
  <2>1. fInitialPhase /\ fNactive < NEvents
    BY <1>0, <1>2, <1>3, <1>4, SizesAssumption DEF ServedInv, Open
  <2> QED
    BY <1>0, <1>1, <2>1, PhaseAsleep
<1>5. CASE fNactive = NEvents
  <2>1. fPendingEvents = <<>>
    BY <1>0, <1>5, AllActivated
  <2>2. HasPrimaries(fEvent)
    BY <2>1, AllAsleep
  <2> QED
    BY <1>2, <1>3, <1>5, <2>2 DEF LastUnfinished, Open
<1> QED
  BY <1>4, <1>5

LEMMA AwayInvariant ==
  ASSUME OnePropagator, NThreads <= NSlots
  PROVE  Spec => []AwayInv
<1>1. IInv /\ AwakeInv /\ AwayInv /\ [Next]_vars => AwayInv'
  BY AwayStep
<1> QED
  BY <1>1, AwayInit, ServerInvariant, ServerAwakeInvariant, PTL DEF Spec

\* With one propagator and a slot for every thread the workers are all asleep in
\* two cases only: the initial phase has not ended, though every thread asked
\* for two baskets or its whole share; or the last event was activated and the
\* rest of its primaries is offered to nobody, because fHasTracks was cleared or
\* the initial phase goes on (TransportTracksV3, EventServer::GetNextTrack).
THEOREM ServerSleepsForTwoReasons ==
  ASSUME OnePropagator, NThreads <= NSlots
  PROVE  Spec => [](NeverAllAsleep \/ PhaseUnfinished \/ LastUnfinished)
<1>1. IInv /\ AwakeInv /\ AwayInv => NeverAllAsleep \/ PhaseUnfinished \/ LastUnfinished
  BY Asleep
<1> QED
  BY <1>1, ServerInvariant, ServerAwakeInvariant, AwayInvariant, PTL

\* A single thread never sleeps for ever.
THEOREM ServerAloneNeverAsleep ==
  ASSUME NThreads = 1
  PROVE  Spec => []NeverAllAsleep
<1>1. OnePropagator
  <2>1. PICK x : Workers = {x}
    BY WorkersAssumption, FS_CardinalityType, FS_Singleton DEF NThreads
  <2> QED
    BY <2>1 DEF OnePropagator
<1>2. NThreads <= NSlots
  BY SizesAssumption
<1>3. AwayInv /\ (NeverAllAsleep \/ PhaseUnfinished \/ LastUnfinished) => NeverAllAsleep
  <2> SUFFICES ASSUME AwayInv, PhaseUnfinished \/ LastUnfinished PROVE FALSE
    OBVIOUS
  <2>1. ~ fInitialPhase
    BY DEF AwayInv, PhaseInv
  <2> QED
    BY <2>1 DEF PhaseUnfinished, LastUnfinished, AwayInv, AloneInv
<1> QED
  BY <1>1, <1>2, <1>3, AwayInvariant, ServerSleepsForTwoReasons, PTL

=============================================================================
