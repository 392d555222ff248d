----------------------------- MODULE TrackSteps -----------------------------
(***************************************************************************)
(* The life of the tracks of a run, without the workers: the stages a      *)
(* track visits in a step, what each handler may do to it, the secondaries *)
(* it leaves, and the accounting that tells when its event is transported. *)
(***************************************************************************)
EXTENDS Naturals, FiniteSets

CONSTANTS Tracks, Events,
          PrimaryOf,         \* the event of each primary track
          Charged,           \* the tracks that are bent: charged, in a field
          AtRestCandidates,  \* the tracks whose particle has an at-rest process
          fDoFastSim,        \* the fast simulation stage is connected
          fNstepsKillThr,    \* number of steps after which a track is killed
          MaxGeneration      \* bound: the last generation of secondaries

Primaries == DOMAIN PrimaryOf

ASSUME FiniteAssumption == IsFiniteSet(Tracks)
ASSUME TrackAssumption ==
  /\ Primaries \subseteq Tracks
  /\ PrimaryOf \in [Primaries -> Events]
  /\ \A e \in Events : \E p \in Primaries : PrimaryOf[p] = e
  /\ fDoFastSim \in BOOLEAN
  /\ {fNstepsKillThr, MaxGeneration} \subseteq Nat

(* ESimulationStage                                                        *)
kPreStep == 0
kFastSim == 1
kComputeIntL == 2
kGeometryStep == 3
kPrePropagation == 4
kPropagation == 5
kPostPropagation == 6
kAlongStep == 7
kPostStep == 8
kAtRest == 9
kSteppingActions == 10

Stages == 0..10

(* Propagator::CreateSimulationStages: the follow-up of each stage (0, the *)
(* member's initial value, where none is set), and the stages whose        *)
(* follow-up overrides what a handler chose.                               *)
FollowUp ==
  [s \in Stages |->
     CASE s = kPreStep -> IF fDoFastSim THEN kFastSim ELSE kComputeIntL
       [] s \in {kAtRest, kSteppingActions} -> kPreStep
       [] s = kPostStep -> kSteppingActions
       [] OTHER -> s + 1]

UniqueFollowUp == {kComputeIntL, kPrePropagation, kPostPropagation}

Statuses == {"New", "InFlight", "Boundary", "Exiting", "Physics", "Killed"}

VARIABLES todo,         \* the primaries the event server still has
          track,        \* the state of each live track
          ntracks,      \* Event::fNtracks
          ndone,        \* Event::fNdone
          transported   \* the events for which EventTransported was called

trackVars == <<todo, track, ntracks, ndone, transported>>

Live == DOMAIN track

(***************************************************************************)
(* The handlers.  Process sets the follow-up first; a handler that selects *)
(* the track may change it.                                                *)
(***************************************************************************)
Default(r) == [r EXCEPT !.stage = FollowUp[@]]
Moved(r, statuses) == {[Default(r) EXCEPT !.status = s] : s \in statuses}
Kill(r) == [r EXCEPT !.status = "Killed", !.stage = kSteppingActions]

\* The user may stop a new track in BeginTrack.
PreStepDoIt(r) ==
  Moved(r, {"InFlight"}) \union (IF r.status = "New" THEN {Kill(r)} ELSE {})

\* A track that is selected for fast simulation ends there.
FastSimDoIt(r) == {Default(r), [Kill(r) EXCEPT !.stopped = TRUE]}

\* No track has its pre-propagation flag set: geometry always goes on to
\* pre-propagation.
GeomQueryDoIt(r) == {[r EXCEPT !.stage = kPrePropagation]}

\* Up to the boundary or to the interaction; a stuck track is killed.
LinearPropagationDoIt(r) ==
  Moved(r, {"Boundary", "Exiting", "Physics"}) \union {Kill([r EXCEPT !.stopped = TRUE])}

\* A partial step goes back to the geometry stage.
PartialStep(r) == [r EXCEPT !.status = "InFlight", !.stage = kGeometryStep]
FieldPropagationDoIt(r) ==
  Moved(r, {"Boundary", "Exiting", "Physics"}) \union {PartialStep(r)}

\* Mutant of Halt: the stage of the track is not changed.
HaltInPlace(t, r) == {[Default(r) EXCEPT !.stopped = TRUE]}
\* The track has no kinetic energy left.
Halt(t, r) ==
  {Kill([r EXCEPT !.stopped = TRUE])} \union
  (IF t \in AtRestCandidates THEN {[r EXCEPT !.stopped = TRUE, !.stage = kAtRest]} ELSE {})

AlongStepDoIt(t, r) == {Default(r)} \union Halt(t, r)

Interacts(r) == r.stage = kPostStep /\ r.status = "Physics"
PostStepDoIt(t, r) ==
  {Default(r)} \union (IF Interacts(r) THEN Halt(t, r) ELSE {})

Decays(t, r) == r.stage = kAtRest /\ r.stopped /\ t \in AtRestCandidates
AtRestDoIt(t, r) == IF Decays(t, r) THEN {Kill(r)} ELSE {Default(r)}

\* What a stage before the stepping actions may make of a track.
Outcomes(t, r) ==
  CASE r.stage = kPreStep -> PreStepDoIt(r)
    [] r.stage = kFastSim -> FastSimDoIt(r)
    [] r.stage = kGeometryStep -> GeomQueryDoIt(r)
    [] r.stage = kPropagation ->
         IF t \in Charged THEN FieldPropagationDoIt(r) ELSE LinearPropagationDoIt(r)
    [] r.stage = kAlongStep -> AlongStepDoIt(t, r)
    [] r.stage = kPostStep -> PostStepDoIt(t, r)
    [] r.stage = kAtRest -> AtRestDoIt(t, r)
    [] OTHER -> {Default(r)}

\* The secondaries of a step: any track objects that are free.
MayBear(t, r) == (Interacts(r) \/ Decays(t, r)) /\ r.generation < MaxGeneration
Births(t, r) == IF MayBear(t, r) THEN SUBSET (Tracks \ (Live \union Primaries)) ELSE {{}}

NewTrack(event, generation, stage) ==
  [event |-> event, generation |-> generation, stage |-> stage,
   status |-> "New", nsteps |-> 0, stopped |-> FALSE]

Extend(f, S, v) == [y \in DOMAIN f \union S |-> IF y \in S THEN v ELSE f[y]]

------------------------------------------------------------------------------
(* GetNextTrack gives a primary of an event to a worker.                   *)
Dispatch(t) ==
  /\ t \in todo
  /\ todo' = todo \ {t}
  /\ track' = Extend(track, {t}, NewTrack(PrimaryOf[t], 0, kPreStep))
  /\ UNCHANGED <<ntracks, ndone, transported>>

\* Mutant of Register: the secondaries of a step count as one.
RegisterOne(e, births) == [ntracks EXCEPT ![e] = @ + (IF births = {} THEN 0 ELSE 1)]
\* Propagator::AddTrack for each secondary of a step.
Register(e, births) == [ntracks EXCEPT ![e] = @ + Cardinality(births)]

\* A stage before the stepping actions.  The secondaries are registered in
\* the event before the track can be stopped, and go to the stepping actions.
Move(t, r, births) ==
  LET parent == track[t] IN
  /\ parent.stage # kSteppingActions
  /\ r \in Outcomes(t, parent)
  /\ births \in Births(t, parent)
  /\ track' = Extend([track EXCEPT ![t] = r], births,
                     NewTrack(parent.event, parent.generation + 1, kSteppingActions))
  /\ ntracks' = Register(parent.event, births)
  /\ UNCHANGED <<todo, ndone, transported>>

\* SteppingActionsHandler::DoIt.  A new track has made no step yet.
AfterStep(r) ==
  LET n == r.nsteps + (IF r.status = "New" THEN 0 ELSE 1)
  IN  [r EXCEPT !.nsteps = n, !.stage = FollowUp[@],
                !.status = IF n > fNstepsKillThr THEN "Killed" ELSE @,
                !.stopped = @ \/ n > fNstepsKillThr]

Dies(r) == AfterStep(r).status \in {"Killed", "Exiting"}

Survive(t) ==
  /\ track[t].stage = kSteppingActions
  /\ ~ Dies(track[t])
  /\ track' = [track EXCEPT ![t] = AfterStep(@)]
  /\ UNCHANGED <<todo, ntracks, ndone, transported>>

\* Propagator::StopTrack and Event::StopTrack, then the object is released.
Nprimaries(e) == Cardinality({p \in Primaries : PrimaryOf[p] = e})

\* Mutant of IsTransported: secondaries are forgotten.
IsTransportedAtPrimaries(e, done) == done >= Nprimaries(e)
IsTransported(e, done) == done >= Nprimaries(e) /\ ntracks[e] = done

Finish(t) ==
  LET e == track[t].event
      done == ndone[e] + 1 IN
  /\ track[t].stage = kSteppingActions
  /\ Dies(track[t])
  /\ ndone' = [ndone EXCEPT ![e] = done]
  /\ transported' = IF IsTransported(e, done) THEN transported \union {e} ELSE transported
  /\ track' = [y \in Live \ {t} |-> track[y]]
  /\ UNCHANGED <<todo, ntracks>>

------------------------------------------------------------------------------
TrackInit ==
  /\ todo = Primaries
  /\ track = [t \in {} |-> NewTrack(CHOOSE e \in Events : TRUE, 0, kPreStep)]
  /\ ntracks = [e \in Events |-> Nprimaries(e)]
  /\ ndone = [e \in Events |-> 0]
  /\ transported = {}

TrackNext ==
  \/ \E t \in todo : Dispatch(t)
  \/ \E t \in Live : \/ \E r \in Outcomes(t, track[t]), births \in Births(t, track[t]) : Move(t, r, births)
                     \/ Survive(t)
                     \/ Finish(t)

TrackSpec == TrackInit /\ [][TrackNext]_trackVars

------------------------------------------------------------------------------
(* Properties                                                              *)

LiveOf(e) == {t \in Live : track[t].event = e}
TodoOf(e) == {t \in todo : PrimaryOf[t] = e}

\* An event has registered exactly the tracks that are stopped, alive or still
\* to be served: what StopTrack compares at every end of a track.
TracksAccounted ==
  \A e \in Events :
    ntracks[e] = ndone[e] + Cardinality(LiveOf(e)) + Cardinality(TodoOf(e))

\* An event is given back as transported when none of its tracks is left, not
\* while a secondary or an unserved primary is on its way, and never forgotten.
TransportedIsOver ==
  \A e \in Events : e \in transported <=> LiveOf(e) = {} /\ TodoOf(e) = {}

\* A track that was killed or has no kinetic energy left is not propagated any
\* more: it goes to the at-rest action or straight to the stepping actions.
StoppedGoesNowhere ==
  \A t \in Live :
    /\ track[t].status = "Killed" => track[t].stage = kSteppingActions
    /\ track[t].stopped => track[t].stage \in {kAtRest, kSteppingActions}
=============================================================================
