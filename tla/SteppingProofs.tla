--------------------------- MODULE SteppingProofs ---------------------------
(***************************************************************************)
(* First of TrackSteps: the accounting of tracks holds for any number of   *)
(* events and tracks, any choice of charged and at-rest particles, and any *)
(* bound on generations.                                                   *)
(*                                                                         *)
(* Then of Stepping, for any number of workers, any basketized stages and  *)
(* any thresholds: the workers take the tracks through the stages as       *)
(* TrackSteps says, every live track is in one place, and a worker that    *)
(* reports itself flushed has none.                                        *)
(***************************************************************************)
EXTENDS Stepping, QueueLemmas

------------------------------------------------------------------------------
(* The life of a track                                                     *)

Records == [event : Events, generation : Nat, stage : Stages, status : Statuses,
            nsteps : Nat, stopped : BOOLEAN]

TrackTypeOK ==
  /\ todo \subseteq Primaries
  /\ Live \subseteq Tracks
  /\ track \in [Live -> Records]
  /\ ntracks \in [Events -> Nat]
  /\ ndone \in [Events -> Nat]
  /\ transported \subseteq Events
  /\ todo \cap Live = {}

\* A track without energy waits for its at-rest process, or for the stepping
\* actions to end it.
HaltedInv ==
  \A t \in Live :
    /\ track[t].status = "Killed" => track[t].stage = kSteppingActions
    /\ track[t].stopped =>
         \/ track[t].stage = kAtRest /\ t \in AtRestCandidates
         \/ track[t].stage = kSteppingActions /\ track[t].status = "Killed"

\* The primaries of an event are registered in it from the start.
PrimariesRegistered == \A e \in Events : ntracks[e] >= Nprimaries(e)

\* The inductive invariant.
TrackInv ==
  TrackTypeOK /\ HaltedInv /\ TracksAccounted /\ PrimariesRegistered /\ TransportedIsOver

------------------------------------------------------------------------------
(* Stages and handlers                                                     *)

\* The follow-up of a stage is a stage.
LEMMA FollowUpType ==
  /\ \A s \in Stages : FollowUp[s] \in Stages
  /\ FollowUp[kPreStep] \in {kFastSim, kComputeIntL}
  /\ \A s \in 1 .. 7 : FollowUp[s] = s + 1
  /\ FollowUp[kPostStep] = kSteppingActions
  /\ FollowUp[kSteppingActions] = kPreStep
BY TrackAssumption
   DEF FollowUp, Stages, kPreStep, kFastSim, kComputeIntL, kAtRest, kSteppingActions, kPostStep

\* A record of the same track: of its event and of its generation.
SameTrack(q, r) == q \in Records /\ q.event = r.event /\ q.generation = r.generation

\* The changes the handlers make to the record of a track.
LEMMA RecordUpdates ==
  ASSUME NEW r \in Records
  PROVE  /\ SameTrack(Kill(r), r)
         /\ SameTrack([r EXCEPT !.stopped = TRUE], r)
         /\ \A s \in Stages : SameTrack([r EXCEPT !.stage = s], r)
         /\ \A s \in Statuses : SameTrack([r EXCEPT !.status = s], r)
         /\ \A s \in Stages : SameTrack([r EXCEPT !.stopped = TRUE, !.stage = s], r)
<1>1. SameTrack([r EXCEPT !.stopped = TRUE], r)
  BY DEF SameTrack, Records
<1>2. \A s \in Stages : SameTrack([r EXCEPT !.stage = s], r)
  BY DEF SameTrack, Records
<1>3. \A s \in Statuses : SameTrack([r EXCEPT !.status = s], r)
  BY DEF SameTrack, Records
<1>4. ASSUME NEW s \in Stages
      PROVE  SameTrack([r EXCEPT !.stopped = TRUE, !.stage = s], r)
  BY DEF SameTrack, Records
<1>5. SameTrack(Kill(r), r)
  <2>1. kSteppingActions \in Stages /\ "Killed" \in Statuses
    BY DEF kSteppingActions, Stages, Statuses
  <2> QED
    BY <2>1 DEF SameTrack, Kill, Records
<1> QED
  BY <1>1, <1>2, <1>3, <1>4, <1>5

\* What a handler makes of a track is the same track.
LEMMA OutcomesType ==
  ASSUME NEW t, NEW r \in Records, NEW q \in Outcomes(t, r)
  PROVE  q \in Records /\ q.event = r.event /\ q.generation = r.generation
<1> DEFINE OK(x) == SameTrack(x, r)
<1>0. OK(r)
  BY DEF SameTrack
<1>1. \A x : OK(x) => /\ OK(Kill(x)) /\ OK([x EXCEPT !.stopped = TRUE])
                      /\ \A s \in Stages : OK([x EXCEPT !.stage = s])
                      /\ \A s \in Statuses : OK([x EXCEPT !.status = s])
                      /\ \A s \in Stages : OK([x EXCEPT !.stopped = TRUE, !.stage = s])
  BY RecordUpdates DEF SameTrack
<1>2. OK(Default(r))
  <2>1. r.stage \in Stages
    BY DEF Records
  <2>2. FollowUp[r.stage] \in Stages
    BY <2>1, FollowUpType
  <2> QED
    BY <2>2, <1>0, <1>1 DEF Default
<1> HIDE DEF OK
<1>3. \A S \in SUBSET Statuses : \A x \in Moved(r, S) : OK(x)
  BY <1>1, <1>2 DEF Moved
<1>4. {kAtRest, kPrePropagation, kGeometryStep} \subseteq Stages
  BY DEF Stages, kAtRest, kPrePropagation, kGeometryStep
<1>5. {"InFlight", "Boundary", "Exiting", "Physics"} \in SUBSET Statuses
  BY DEF Statuses
<1>6. \A x \in Halt(t, r) : OK(x)
  BY <1>0, <1>1, <1>4 DEF Halt
<1>7. \A x \in PreStepDoIt(r) : OK(x)
  BY <1>0, <1>1, <1>3, <1>5 DEF PreStepDoIt
<1>8. \A x \in FastSimDoIt(r) : OK(x)
  BY <1>0, <1>1, <1>2 DEF FastSimDoIt
<1>9. \A x \in GeomQueryDoIt(r) : OK(x)
  <2>1. OK([r EXCEPT !.stage = kPrePropagation])
    BY <1>0, <1>1, <1>4
  <2> QED
    BY <2>1 DEF GeomQueryDoIt
<1>10. \A x \in LinearPropagationDoIt(r) : OK(x)
  BY <1>0, <1>1, <1>3, <1>5 DEF LinearPropagationDoIt
<1>11. \A x \in FieldPropagationDoIt(r) : OK(x)
  <2>1. OK([r EXCEPT !.status = "InFlight"])
    BY <1>0, <1>1, <1>5
  <2>2. OK(PartialStep(r))
    BY <2>1, <1>1, <1>4 DEF PartialStep
  <2> QED
    BY <1>3, <1>5, <2>2 DEF FieldPropagationDoIt
<1>12. \A x \in AlongStepDoIt(t, r) \union PostStepDoIt(t, r) \union AtRestDoIt(t, r) : OK(x)
  BY <1>0, <1>1, <1>2, <1>6 DEF AlongStepDoIt, PostStepDoIt, AtRestDoIt
<1>13. OK(q)
  BY <1>2, <1>7, <1>8, <1>9, <1>10, <1>11, <1>12 DEF Outcomes
<1> QED
  BY <1>13 DEF OK, SameTrack

\* A handler stops a track only on its way to the at-rest or the stepping
\* actions, and lets no stopped track go on.
LEMMA OutcomesHalted ==
  ASSUME NEW t, NEW r \in Records, NEW q \in Outcomes(t, r),
         r.stage # kSteppingActions,
         r.status # "Killed",
         r.stopped => r.stage = kAtRest /\ t \in AtRestCandidates
  PROVE  /\ q.status = "Killed" => q.stage = kSteppingActions
         /\ q.stopped => \/ q.stage = kAtRest /\ t \in AtRestCandidates
                         \/ q.stage = kSteppingActions /\ q.status = "Killed"
<1> DEFINE OK(x) == /\ x.status = "Killed" => x.stage = kSteppingActions
                    /\ x.stopped => \/ x.stage = kAtRest /\ t \in AtRestCandidates
                                    \/ x.stage = kSteppingActions /\ x.status = "Killed"
<1>1. /\ Kill(r).status = "Killed" /\ Kill(r).stage = kSteppingActions
      /\ [Kill(r) EXCEPT !.stopped = TRUE].status = "Killed"
      /\ [Kill(r) EXCEPT !.stopped = TRUE].stage = kSteppingActions
      /\ Kill([r EXCEPT !.stopped = TRUE]).status = "Killed"
      /\ Kill([r EXCEPT !.stopped = TRUE]).stage = kSteppingActions
  BY DEF Kill, Records
<1>2. OK(Kill(r)) /\ OK([Kill(r) EXCEPT !.stopped = TRUE]) /\ OK(Kill([r EXCEPT !.stopped = TRUE]))
  BY <1>1
<1>3. ~ r.stopped => /\ OK(Default(r))
                     /\ \A s \in Statuses \ {"Killed"} : OK([Default(r) EXCEPT !.status = s])
  <2>1. Default(r).status = r.status /\ Default(r).stopped = r.stopped
    BY DEF Default, Records
  <2>2. \A s \in Statuses : /\ [Default(r) EXCEPT !.status = s].status = s
                            /\ [Default(r) EXCEPT !.status = s].stopped = r.stopped
    BY DEF Default, Records
  <2> QED
    BY <2>1, <2>2
<1>4. ~ r.stopped => OK(PartialStep(r)) /\ OK([r EXCEPT !.stage = kPrePropagation])
  <2>1. PartialStep(r).status = "InFlight" /\ PartialStep(r).stopped = r.stopped
    BY DEF PartialStep, Records
  <2>2. /\ [r EXCEPT !.stage = kPrePropagation].status = r.status
        /\ [r EXCEPT !.stage = kPrePropagation].stopped = r.stopped
    BY DEF Records
  <2> QED
    BY <2>1, <2>2
<1>5. t \in AtRestCandidates => OK([r EXCEPT !.stopped = TRUE, !.stage = kAtRest])
  BY DEF Records
<1> HIDE DEF OK
<1>6. \A x \in Halt(t, r) : OK(x)
  BY <1>2, <1>5 DEF Halt
<1>7. CASE r.stopped
  <2>1. Outcomes(t, r) = {Kill(r)}
    BY <1>7 DEF Outcomes, AtRestDoIt, Decays, kAtRest, kPreStep, kFastSim, kGeometryStep, kPropagation,
                kAlongStep, kPostStep
  <2> QED
    BY <1>2, <2>1 DEF OK
<1>8. CASE ~ r.stopped
  <2>1. \A S \in SUBSET (Statuses \ {"Killed"}) : \A x \in Moved(r, S) : OK(x)
    BY <1>8, <1>3 DEF Moved
  <2>2. {"InFlight", "Boundary", "Exiting", "Physics"} \in SUBSET (Statuses \ {"Killed"})
    BY DEF Statuses
  <2>3. \A x \in PreStepDoIt(r) \union FastSimDoIt(r) \union GeomQueryDoIt(r) : OK(x)
    BY <1>2, <1>3, <1>4, <1>8, <2>1, <2>2 DEF PreStepDoIt, FastSimDoIt, GeomQueryDoIt
  <2>4. \A x \in LinearPropagationDoIt(r) \union FieldPropagationDoIt(r) : OK(x)
    BY <1>2, <1>4, <1>8, <2>1, <2>2 DEF LinearPropagationDoIt, FieldPropagationDoIt
  <2>5. \A x \in AlongStepDoIt(t, r) \union PostStepDoIt(t, r) \union AtRestDoIt(t, r) : OK(x)
    BY <1>2, <1>3, <1>6, <1>8 DEF AlongStepDoIt, PostStepDoIt, AtRestDoIt
  <2>6. OK(q)
    BY <1>3, <1>8, <2>3, <2>4, <2>5 DEF Outcomes
  <2> QED
    BY <2>6 DEF OK
<1> QED
  BY <1>7, <1>8

\* The stepping actions make a track of the same event, which goes on with the
\* next step; one that survives is neither killed nor newly stopped.
LEMMA AfterStepFacts ==
  ASSUME NEW r \in Records
  PROVE  /\ AfterStep(r) \in Records /\ AfterStep(r).event = r.event
         /\ AfterStep(r).generation = r.generation
         /\ AfterStep(r).stage = FollowUp[r.stage]
         /\ ~ Dies(r) => /\ AfterStep(r).status # "Killed"
                         /\ r.status # "Killed"
                         /\ AfterStep(r).stopped = r.stopped
<1> DEFINE n == r.nsteps + (IF r.status = "New" THEN 0 ELSE 1)
           st == IF n > fNstepsKillThr THEN "Killed" ELSE r.status
           sp == r.stopped \/ n > fNstepsKillThr
<1>1. n \in Nat /\ FollowUp[r.stage] \in Stages /\ st \in Statuses /\ sp \in BOOLEAN
  BY FollowUpType, TrackAssumption DEF Records, Statuses
<1>2. AfterStep(r) = [r EXCEPT !.nsteps = n, !.stage = FollowUp[r.stage], !.status = st, !.stopped = sp]
  BY DEF AfterStep, Records
<1> HIDE DEF n, st, sp
<1>3. /\ AfterStep(r) \in Records /\ AfterStep(r).event = r.event
      /\ AfterStep(r).generation = r.generation
      /\ AfterStep(r).stage = FollowUp[r.stage]
      /\ AfterStep(r).status = st /\ AfterStep(r).stopped = sp
  BY <1>1, <1>2 DEF Records
<1>4. ~ Dies(r) => st # "Killed"
  BY <1>3 DEF Dies
<1>5. st # "Killed" => r.status # "Killed" /\ sp = r.stopped
  BY DEF st, sp, Records
<1> QED
  BY <1>3, <1>4, <1>5

------------------------------------------------------------------------------
(* Sets of tracks                                                          *)

\* The tracks of an event are finitely many.
LEMMA FiniteTracks ==
  ASSUME TrackTypeOK, NEW e \in Events
  PROVE  /\ IsFiniteSet(LiveOf(e)) /\ Cardinality(LiveOf(e)) \in Nat
         /\ IsFiniteSet(TodoOf(e)) /\ Cardinality(TodoOf(e)) \in Nat
         /\ Cardinality(LiveOf(e)) = 0 <=> LiveOf(e) = {}
         /\ Cardinality(TodoOf(e)) = 0 <=> TodoOf(e) = {}
<1>1. LiveOf(e) \in SUBSET Tracks /\ TodoOf(e) \in SUBSET Tracks
  BY TrackAssumption DEF LiveOf, TodoOf, TrackTypeOK
<1>2. IsFiniteSet(LiveOf(e)) /\ IsFiniteSet(TodoOf(e))
  BY <1>1, FiniteAssumption, FS_Subset
<1> QED
  BY <1>2, FS_CardinalityType, FS_EmptySet

\* The number of primaries of an event.
LEMMA NprimariesType == ASSUME NEW e PROVE Nprimaries(e) \in Nat
<1>1. {p \in Primaries : PrimaryOf[p] = e} \in SUBSET Tracks
  BY TrackAssumption
<1> QED
  BY <1>1, FiniteAssumption, FS_Subset, FS_CardinalityType DEF Nprimaries

------------------------------------------------------------------------------
(* Steps                                                                   *)

\* The invariant holds at the start: every event has a primary to be served.
LEMMA TrackInitInv == TrackInit => TrackInv
<1> SUFFICES ASSUME TrackInit PROVE TrackInv
  OBVIOUS
<1> USE DEF TrackInit
<1>1. Live = {}
  BY DEF Live
<1>2. \A e : LiveOf(e) = {}
  BY <1>1 DEF LiveOf
<1>3. \A e : Cardinality(LiveOf(e)) = 0
  BY <1>2, FS_EmptySet
<1>4. \A e : Cardinality(TodoOf(e)) = Nprimaries(e)
  BY DEF TodoOf, Nprimaries
<1>5. TrackTypeOK
  BY <1>1, NprimariesType, TrackAssumption DEF TrackTypeOK
<1>6. HaltedInv
  BY <1>1 DEF HaltedInv
<1>7. TracksAccounted /\ PrimariesRegistered
  BY <1>3, <1>4, NprimariesType DEF TracksAccounted, PrimariesRegistered
<1>8. TransportedIsOver
  BY TrackAssumption DEF TransportedIsOver, TodoOf
<1> QED
  BY <1>5, <1>6, <1>7, <1>8 DEF TrackInv

\* A primary that is served moves from those to be served to the live ones.
LEMMA DispatchInv ==
  ASSUME TrackInv, NEW t \in todo, Dispatch(t)
  PROVE  TrackInv'
<1> DEFINE v == NewTrack(PrimaryOf[t], 0, kPreStep)
<1> USE DEF TrackInv
<1>1. t \in Primaries /\ t \notin Live /\ t \in Tracks /\ PrimaryOf[t] \in Events
  BY TrackAssumption DEF TrackTypeOK
<1>2. v \in Records /\ v.stage = kPreStep /\ v.status = "New" /\ v.stopped = FALSE /\ v.event = PrimaryOf[t]
  BY <1>1 DEF NewTrack, Records, Stages, Statuses, kPreStep
<1> HIDE DEF v
<1>3. /\ track' \in [Live \union {t} -> Records]
      /\ Live' = Live \union {t}
      /\ track'[t] = v
      /\ \A y \in Live : track'[y] = track[y]
  <2>1. track \in [Live -> Records] /\ t \notin Live
    BY <1>1 DEF TrackTypeOK
  <2>2. track' = Extend(track, {t}, v)
    BY DEF Dispatch, v
  <2>3. /\ Extend(track, {t}, v) \in [Live \union {t} -> Records]
        /\ \A y \in {t} : Extend(track, {t}, v)[y] = v
        /\ \A y \in Live \ {t} : Extend(track, {t}, v)[y] = track[y]
    BY ONLY <1>2, <2>1 DEF Extend
  <2>4. Live' = DOMAIN track'
    BY DEF Live
  <2> QED
    BY ONLY <2>1, <2>2, <2>3, <2>4
<1>4. TrackTypeOK'
  BY <1>1, <1>3 DEF TrackTypeOK, Dispatch
<1>5. HaltedInv'
  BY <1>2, <1>3 DEF HaltedInv
<1>6. ASSUME NEW e \in Events
      PROVE  /\ LiveOf(e)' = IF e = PrimaryOf[t] THEN LiveOf(e) \union {t} ELSE LiveOf(e)
             /\ TodoOf(e)' = IF e = PrimaryOf[t] THEN TodoOf(e) \ {t} ELSE TodoOf(e)
             /\ t \notin LiveOf(e)
             /\ e = PrimaryOf[t] => t \in TodoOf(e)
  BY <1>1, <1>2, <1>3 DEF LiveOf, TodoOf, Dispatch
<1>7. TracksAccounted'
  <2> SUFFICES ASSUME NEW e \in Events
               PROVE  ntracks[e] = ndone[e] + Cardinality(LiveOf(e)') + Cardinality(TodoOf(e)')
    BY DEF TracksAccounted, Dispatch
  <2>1. /\ Cardinality(LiveOf(e) \union {t}) = Cardinality(LiveOf(e)) + 1
        /\ e = PrimaryOf[t] => Cardinality(TodoOf(e) \ {t}) = Cardinality(TodoOf(e)) - 1
    BY <1>6, FiniteTracks, FS_AddElement, FS_RemoveElement
  <2>2. ntracks[e] = ndone[e] + Cardinality(LiveOf(e)) + Cardinality(TodoOf(e)) /\ ndone[e] \in Nat
    BY DEF TracksAccounted, TrackTypeOK
  <2>3. CASE e = PrimaryOf[t]
    <3>1. /\ LiveOf(e)' = LiveOf(e) \union {t} /\ TodoOf(e)' = TodoOf(e) \ {t}
          /\ Cardinality(LiveOf(e)) \in Nat /\ Cardinality(TodoOf(e)) \in Nat
      BY <1>6, <2>3, FiniteTracks
    <3> QED
      BY ONLY <2>1, <2>2, <2>3, <3>1
  <2>4. CASE e # PrimaryOf[t]
    BY <1>6, <2>2, <2>4
  <2> QED
    BY <2>3, <2>4
<1>8. TransportedIsOver'
  BY <1>6 DEF TransportedIsOver, Dispatch
<1>9. PrimariesRegistered'
  BY DEF PrimariesRegistered, Dispatch, Nprimaries
<1> QED
  BY <1>4, <1>5, <1>7, <1>8, <1>9

\* The secondaries of a step are registered in the event before they are seen.
LEMMA MoveInv ==
  ASSUME TrackInv, NEW t \in Live,
         NEW r \in Outcomes(t, track[t]), NEW births \in Births(t, track[t]), Move(t, r, births)
  PROVE  TrackInv'
<1> DEFINE parent == track[t]
           w == NewTrack(parent.event, parent.generation + 1, kSteppingActions)
<1> USE DEF TrackInv
<1>1. parent \in Records /\ parent.event \in Events /\ parent.generation \in Nat
  BY DEF TrackTypeOK, Records
<1>2. /\ w \in Records /\ w.stage = kSteppingActions
      /\ w.status = "New" /\ w.stopped = FALSE /\ w.event = parent.event
  BY <1>1 DEF NewTrack, Records, Stages, Statuses, kSteppingActions
<1>3. r \in Records /\ r.event = parent.event
  BY <1>1, OutcomesType
<1>4. births \in SUBSET (Tracks \ (Live \union Primaries))
  BY DEF Births
<1>5. /\ r.status = "Killed" => r.stage = kSteppingActions
      /\ r.stopped => \/ r.stage = kAtRest /\ t \in AtRestCandidates
                      \/ r.stage = kSteppingActions /\ r.status = "Killed"
  <2>1. /\ parent.stage # kSteppingActions
        /\ parent.status # "Killed"
        /\ parent.stopped => parent.stage = kAtRest /\ t \in AtRestCandidates
    BY DEF HaltedInv, Move
  <2> QED
    BY <1>1, <2>1, OutcomesHalted
<1>6. track' = Extend([track EXCEPT ![t] = r], births, w) /\ ntracks' = Register(parent.event, births)
  BY DEF Move
<1> HIDE DEF w, parent
<1>7. /\ track' \in [Live \union births -> Records]
      /\ Live' = Live \union births
      /\ \A y \in births : track'[y] = w
      /\ track'[t] = r
      /\ \A y \in Live \ {t} : track'[y] = track[y]
  <2>1. track \in [Live -> Records] /\ t \in Live /\ births \cap Live = {}
    BY <1>4 DEF TrackTypeOK
  <2>2. [track EXCEPT ![t] = r] \in [Live -> Records] /\ [track EXCEPT ![t] = r][t] = r
        /\ \A y \in Live \ {t} : [track EXCEPT ![t] = r][y] = track[y]
    BY ONLY <2>1, <1>3
  <2> DEFINE g == [track EXCEPT ![t] = r]
  <2>3. /\ Extend(g, births, w) \in [Live \union births -> Records]
        /\ \A y \in births : Extend(g, births, w)[y] = w
        /\ \A y \in Live : Extend(g, births, w)[y] = g[y]
    <3> HIDE DEF g
    <3>1. g \in [Live -> Records]
      BY <2>2 DEF g
    <3> QED
      BY ONLY <1>2, <2>1, <3>1 DEF Extend
  <2>4. Live' = DOMAIN track'
    BY DEF Live
  <2> QED
    BY <1>6, <2>1, <2>2, <2>3, <2>4
<1>8. track[t].event = parent.event /\ \A y \in Live : track[y].event = track[y].event
  BY DEF parent
<1>9. ASSUME NEW e \in Events
      PROVE  /\ LiveOf(e)' = IF e = parent.event THEN LiveOf(e) \union births ELSE LiveOf(e)
             /\ TodoOf(e)' = TodoOf(e)
             /\ LiveOf(e) \cap births = {}
             /\ e = parent.event => t \in LiveOf(e)
  <2>1. TodoOf(e)' = TodoOf(e)
    BY DEF TodoOf, Move
  <2>2. LiveOf(e) \cap births = {}
    BY <1>4 DEF LiveOf
  <2>3. \A y \in Live : track'[y].event = track[y].event
    BY <1>3, <1>7, <1>8
  <2>4. \A y \in births : track'[y].event = parent.event
    BY <1>2, <1>7
  <2>5. e = parent.event => t \in LiveOf(e)
    BY <1>8 DEF LiveOf
  <2>6. LiveOf(e)' = IF e = parent.event THEN LiveOf(e) \union births ELSE LiveOf(e)
    BY <1>7, <2>3, <2>4 DEF LiveOf
  <2> QED
    BY <2>1, <2>2, <2>5, <2>6
<1>10. IsFiniteSet(births) /\ Cardinality(births) \in Nat
  BY <1>4, FiniteAssumption, FS_Subset, FS_CardinalityType
<1>11. /\ ntracks' \in [Events -> Nat]
       /\ ntracks'[parent.event] = ntracks[parent.event] + Cardinality(births)
       /\ \A e \in Events \ {parent.event} : ntracks'[e] = ntracks[e]
  BY <1>1, <1>6, <1>10 DEF Register, TrackTypeOK
<1>12. TrackTypeOK'
  <2>1. todo' \subseteq Primaries
    BY DEF TrackTypeOK, Move
  <2>2. Live' \subseteq Tracks
    BY <1>4, <1>7 DEF TrackTypeOK
  <2>3. track' \in [Live' -> Records]
    BY <1>7
  <2>4. ndone' \in [Events -> Nat] /\ transported' \subseteq Events
    BY DEF TrackTypeOK, Move
  <2>5. todo' \cap Live' = {}
    BY <1>4, <1>7 DEF TrackTypeOK, Move
  <2> QED
    BY <1>11, <2>1, <2>2, <2>3, <2>4, <2>5 DEF TrackTypeOK
<1>13. HaltedInv'
  BY <1>2, <1>5, <1>7 DEF HaltedInv
<1>14. TracksAccounted'
  <2> SUFFICES ASSUME NEW e \in Events
               PROVE  ntracks'[e] = ndone[e] + Cardinality(LiveOf(e)') + Cardinality(TodoOf(e)')
    BY DEF TracksAccounted, Move
  <2>1. ntracks[e] = ndone[e] + Cardinality(LiveOf(e)) + Cardinality(TodoOf(e)) /\ ndone[e] \in Nat
    BY DEF TracksAccounted, TrackTypeOK
  <2>2. CASE e = parent.event
    <3>1. Cardinality(LiveOf(e) \union births) = Cardinality(LiveOf(e)) + Cardinality(births)
      <4>1. IsFiniteSet(LiveOf(e)) /\ LiveOf(e) \cap births = {}
        BY <1>9, FiniteTracks
      <4>2. /\ Cardinality(LiveOf(e) \union births)
                 = Cardinality(LiveOf(e)) + Cardinality(births) - Cardinality(LiveOf(e) \cap births)
            /\ Cardinality({}) = 0
        BY <4>1, <1>10, FS_Union, FS_EmptySet
      <4>3. Cardinality(LiveOf(e)) \in Nat
        BY FiniteTracks
      <4>4. Cardinality(LiveOf(e) \cap births) = 0
        BY <4>1, <4>2
      <4> QED
        BY ONLY <4>2, <4>3, <4>4, <1>10
    <3>2. /\ LiveOf(e)' = LiveOf(e) \union births /\ TodoOf(e)' = TodoOf(e)
          /\ Cardinality(LiveOf(e)) \in Nat /\ Cardinality(TodoOf(e)) \in Nat
      BY <1>9, <2>2, FiniteTracks
    <3> QED
      BY ONLY <1>10, <1>11, <2>1, <2>2, <3>1, <3>2
  <2>3. CASE e # parent.event
    BY <1>9, <1>11, <2>1, <2>3
  <2> QED
    BY <2>2, <2>3
<1>15. TransportedIsOver'
  BY <1>9 DEF TransportedIsOver, Move
<1>16. PrimariesRegistered'
  <2> SUFFICES ASSUME NEW e \in Events PROVE ntracks'[e] >= Nprimaries(e)
    BY DEF PrimariesRegistered, Nprimaries
  <2>1. ntracks[e] >= Nprimaries(e) /\ ntracks[e] \in Nat /\ Nprimaries(e) \in Nat
    BY NprimariesType DEF PrimariesRegistered, TrackTypeOK
  <2>2. ntracks'[e] = ntracks[e] \/ ntracks'[e] = ntracks[e] + Cardinality(births)
    BY <1>11
  <2> QED
    BY ONLY <1>10, <2>1, <2>2
<1> QED
  BY <1>12, <1>13, <1>14, <1>15, <1>16

\* A track that survives its step is not stopped, and stays in its event.
LEMMA SurviveInv ==
  ASSUME TrackInv, NEW t \in Live, Survive(t)
  PROVE  TrackInv'
<1> DEFINE r == track[t]
           q == AfterStep(track[t])
<1> USE DEF TrackInv
<1>1. r \in Records
  BY DEF TrackTypeOK
<1>2. q \in Records /\ q.event = r.event /\ q.status # "Killed" /\ ~ q.stopped
  <2>1. /\ q \in Records /\ q.event = r.event /\ q.status # "Killed"
        /\ r.status # "Killed" /\ q.stopped = r.stopped
    BY <1>1, AfterStepFacts DEF Survive
  <2>2. r.stage = kSteppingActions /\ kSteppingActions # kAtRest
    BY DEF Survive, kSteppingActions, kAtRest
  <2>3. r.stopped \in BOOLEAN /\ ~ r.stopped
    BY <1>1, <2>1, <2>2 DEF HaltedInv, Records
  <2> QED
    BY <2>1, <2>3
<1>3. track' = [track EXCEPT ![t] = q]
  BY DEF Survive
<1> HIDE DEF q
<1>4. /\ track' \in [Live -> Records] /\ Live' = Live
      /\ track'[t] = q /\ \A y \in Live \ {t} : track'[y] = track[y]
  BY <1>2, <1>3 DEF TrackTypeOK, Live
<1>5. \A e : LiveOf(e)' = LiveOf(e) /\ TodoOf(e)' = TodoOf(e)
  BY <1>2, <1>4 DEF LiveOf, TodoOf, Survive
<1>6. TrackTypeOK'
  BY <1>4 DEF TrackTypeOK, Survive
<1>7. HaltedInv'
  BY <1>2, <1>4 DEF HaltedInv
<1>8. TracksAccounted' /\ TransportedIsOver' /\ PrimariesRegistered'
  BY <1>5 DEF TracksAccounted, TransportedIsOver, PrimariesRegistered, Nprimaries, Survive
<1> QED
  BY <1>6, <1>7, <1>8

\* The track that ends last, and only that one, ends the transport of its event.
LEMMA FinishInv ==
  ASSUME TrackInv, NEW t \in Live, Finish(t)
  PROVE  TrackInv'
<1> USE DEF TrackInv
<1>0. PICK e \in Events : e = track[t].event
  BY DEF TrackTypeOK, Records
<1> DEFINE done == ndone[e] + 1
<1>1. e \in Events /\ ndone[e] \in Nat /\ ntracks[e] \in Nat /\ done \in Nat
  BY DEF TrackTypeOK
<1>2. track' = [y \in Live \ {t} |-> track[y]]
  BY DEF Finish
<1>3. /\ track' \in [Live \ {t} -> Records] /\ Live' = Live \ {t}
      /\ \A y \in Live \ {t} : track'[y] = track[y]
  BY <1>2 DEF TrackTypeOK, Live
<1>4. /\ ndone' = [ndone EXCEPT ![e] = done] /\ ntracks' = ntracks /\ todo' = todo
      /\ transported' = IF IsTransported(e, done) THEN transported \union {e} ELSE transported
  BY <1>0 DEF Finish
<1> HIDE DEF done
<1>5. /\ \A f \in Events : TodoOf(f)' = TodoOf(f)
      /\ \A f \in Events : f # e => LiveOf(f)' = LiveOf(f)
      /\ LiveOf(e)' = LiveOf(e) \ {t}
      /\ t \in LiveOf(e)
  BY <1>0, <1>3, <1>4 DEF LiveOf, TodoOf
<1>6. /\ Cardinality(LiveOf(e) \ {t}) = Cardinality(LiveOf(e)) - 1
      /\ Cardinality(LiveOf(e)) \in Nat /\ Cardinality(TodoOf(e)) \in Nat
      /\ IsFiniteSet(LiveOf(e) \ {t})
      /\ Cardinality(TodoOf(e)) = 0 <=> TodoOf(e) = {}
  BY <1>1, <1>5, FiniteTracks, FS_RemoveElement
<1>7. Cardinality(LiveOf(e) \ {t}) \in Nat /\ (Cardinality(LiveOf(e) \ {t}) = 0 <=> LiveOf(e) \ {t} = {})
  BY <1>6, FS_CardinalityType, FS_EmptySet
<1>8. ntracks[e] = ndone[e] + Cardinality(LiveOf(e)) + Cardinality(TodoOf(e))
  BY <1>1 DEF TracksAccounted
<1>9. done = ndone[e] + 1
  BY DEF done
<1>10. ntracks[e] = done + Cardinality(LiveOf(e) \ {t}) + Cardinality(TodoOf(e))
  BY ONLY <1>1, <1>6, <1>8, <1>9
<1>11. TrackTypeOK'
  BY <1>1, <1>3, <1>4 DEF TrackTypeOK, Finish
<1>12. HaltedInv'
  BY <1>3 DEF HaltedInv
<1>13. TracksAccounted'
  <2> SUFFICES ASSUME NEW f \in Events
               PROVE  ntracks[f] = ndone'[f] + Cardinality(LiveOf(f)') + Cardinality(TodoOf(f)')
    BY <1>4 DEF TracksAccounted
  <2>1. ndone'[f] = IF f = e THEN done ELSE ndone[f]
    BY <1>4 DEF TrackTypeOK
  <2>2. CASE f = e
    BY <1>5, <1>10, <2>1, <2>2
  <2>3. CASE f # e
    BY <1>5, <2>1, <2>3 DEF TracksAccounted
  <2> QED
    BY <2>2, <2>3
<1>14. TransportedIsOver'
  <2>1. IsTransported(e, done) <=> LiveOf(e)' = {} /\ TodoOf(e)' = {}
    <3>1. ntracks[e] >= Nprimaries(e) /\ Nprimaries(e) \in Nat
      BY <1>1, NprimariesType DEF PrimariesRegistered
    <3>2. IsTransported(e, done) <=> done >= Nprimaries(e) /\ ntracks[e] = done
      BY DEF IsTransported
    <3>3. ntracks[e] = done <=> Cardinality(LiveOf(e) \ {t}) = 0 /\ Cardinality(TodoOf(e)) = 0
      BY ONLY <1>1, <1>6, <1>7, <1>10
    <3>4. ntracks[e] = done <=> LiveOf(e)' = {} /\ TodoOf(e)' = {}
      BY <1>1, <1>5, <1>6, <1>7, <3>3
    <3> QED
      BY <3>1, <3>2, <3>4
  <2>2. e \notin transported
    BY <1>1, <1>5 DEF TransportedIsOver
  <2>3. ASSUME NEW f \in Events
        PROVE  f \in transported' <=> LiveOf(f)' = {} /\ TodoOf(f)' = {}
    <3>1. CASE f = e
      BY <1>4, <2>1, <2>2, <3>1
    <3>2. CASE f # e
      BY <1>4, <1>5, <3>2 DEF TransportedIsOver
    <3> QED
      BY <3>1, <3>2
  <2> QED
    BY <2>3 DEF TransportedIsOver
<1>15. PrimariesRegistered'
  BY <1>4 DEF PrimariesRegistered, Nprimaries
<1> QED
  BY <1>11, <1>12, <1>13, <1>14, <1>15

\* Every step keeps the invariant.
LEMMA NextTrackInv == TrackInv /\ [TrackNext]_trackVars => TrackInv'
<1> SUFFICES ASSUME TrackInv, [TrackNext]_trackVars PROVE TrackInv'
  OBVIOUS
<1>1. CASE \E t \in todo : Dispatch(t)
  BY <1>1, DispatchInv
<1>2. CASE \E t \in Live : \E r \in Outcomes(t, track[t]), births \in Births(t, track[t]) : Move(t, r, births)
  BY <1>2, MoveInv
<1>3. CASE \E t \in Live : Survive(t)
  BY <1>3, SurviveInv
<1>4. CASE \E t \in Live : Finish(t)
  BY <1>4, FinishInv
<1>5. CASE UNCHANGED trackVars
  BY <1>5 DEF trackVars, TrackInv, TrackTypeOK, HaltedInv, TracksAccounted, PrimariesRegistered,
              TransportedIsOver, LiveOf, TodoOf, Live, Nprimaries
<1> QED
  BY <1>1, <1>2, <1>3, <1>4, <1>5 DEF TrackNext

------------------------------------------------------------------------------
(* Theorems                                                                *)

\* The invariant holds in every state of a run.
THEOREM TracksInvariant == TrackSpec => []TrackInv
<1> QED
  BY TrackInitInv, NextTrackInv, PTL DEF TrackSpec

\* Event::AddTrack and Event::StopTrack: fNtracks is the number of tracks that
\* are done, alive or not yet dispatched, whatever the handlers produce.
THEOREM TracksAccountedAlways == TrackSpec => []TracksAccounted
<1>1. TrackInv => TracksAccounted
  BY DEF TrackInv
<1> QED
  BY <1>1, TracksInvariant, PTL

\* Event::StopTrack reports an event when its last track ends, and not before.
THEOREM TransportedAtTheEnd == TrackSpec => []TransportedIsOver
<1>1. TrackInv => TransportedIsOver
  BY DEF TrackInv
<1> QED
  BY <1>1, TracksInvariant, PTL

\* No choice of the handlers and no follow-up override brings a stopped track
\* back to a stage that would move it.
THEOREM StoppedStaysPut == TrackSpec => []StoppedGoesNowhere
<1>1. TrackInv => StoppedGoesNowhere
  BY DEF TrackInv, HaltedInv, StoppedGoesNowhere
<1> QED
  BY <1>1, TracksInvariant, PTL

------------------------------------------------------------------------------
(* Where the workers keep the tracks                                       *)

WorkOf == [pc : Pcs, stage : Stages, flush : BOOLEAN, flushreq : BOOLEAN, flushed : BOOLEAN,
           busy : BOOLEAN, room : Int, vec : SUBSET Tracks, cur : Tracks \union {Null}]

BuffersOK ==
  /\ fStageBuffers \in [Workers -> [Stages -> SUBSET Tracks]]
  /\ stack \in [Workers -> SUBSET Tracks]
  /\ fQshare \in [Workers -> SUBSET Tracks]
  /\ basket \in [Basketized -> SUBSET Tracks]

\* A worker holds a track only while it adds it to a handler, and a basket
\* only until it has stepped its tracks; handlers are those of basketized stages.
AtHandler == {"check", "drain", "checked", "flush", "add"}

WorkInv ==
  /\ wk \in [Workers -> WorkOf]
  /\ \A w \in Workers :
       /\ wk[w].cur # Null <=> wk[w].pc = "add"
       /\ wk[w].vec # {} => wk[w].pc \in {"vec", "unlock"}
       /\ wk[w].pc \in AtHandler => wk[w].stage \in Basketized

\* The places hold live tracks, and every live track is in one of them.
HeldInv ==
  /\ \A p \in PlaceIds : Content(p) \subseteq Live
  /\ \A t \in Live : \E p \in PlaceIds : Places(t) = {p}

\* The inductive invariant.
StepInv == TrackInv /\ BuffersOK /\ WorkInv /\ HeldInv

------------------------------------------------------------------------------
(* Places                                                                  *)

\* The track a worker is about to add to a handler.
Cur(w) == {wk[w].cur} \ {Null}

ContentIs ==
  /\ \A w \in Workers : \A s \in Stages : Content(AtStage(w, s)) = fStageBuffers[w][s]
  /\ \A w \in Workers : /\ Content(OnStack(w)) = stack[w]
                        /\ Content(InQshare(w)) = fQshare[w]
                        /\ Content(InVec(w)) = wk[w].vec
                        /\ Content(AsCur(w)) = Cur(w)
  /\ \A s \in Basketized : Content(InBasket(s)) = basket[s]

\* The content of each kind of place, before and after a step.
LEMMA ContentOf == ContentIs /\ ContentIs'
BY DEF ContentIs, Content, Cur, AtStage, OnStack, InQshare, InVec, AsCur, InBasket

\* The kinds of places.
LEMMA Kinds ==
  /\ \A w \in Workers : \A s \in Stages : AtStage(w, s) \in PlaceIds
  /\ \A w \in Workers : /\ OnStack(w) \in PlaceIds
                        /\ InQshare(w) \in PlaceIds
                        /\ InVec(w) \in PlaceIds
                        /\ AsCur(w) \in PlaceIds
  /\ \A s \in Basketized : InBasket(s) \in PlaceIds
  /\ \A p \in PlaceIds : \/ \E w \in Workers : \E s \in Stages : p = AtStage(w, s)
                         \/ \E w \in Workers : \/ p = OnStack(w)
                                               \/ p = InQshare(w)
                                               \/ p = InVec(w)
                                               \/ p = AsCur(w)
                         \/ \E s \in Basketized : p = InBasket(s)
BY DEF PlaceIds

\* Places of two kinds, of two workers or of two stages are different.
LEMMA Distinct ==
  /\ \A w, s : AtStage(w, s)[1] = "stage" /\ AtStage(w, s)[2] = w /\ AtStage(w, s)[3] = s
  /\ \A w : /\ OnStack(w)[1] = "stack" /\ OnStack(w)[2] = w
            /\ InQshare(w)[1] = "qshare" /\ InQshare(w)[2] = w
            /\ InVec(w)[1] = "vec" /\ InVec(w)[2] = w
            /\ AsCur(w)[1] = "cur" /\ AsCur(w)[2] = w
  /\ \A s : InBasket(s)[1] = "basket" /\ InBasket(s)[3] = s
BY DEF AtStage, OnStack, InQshare, InVec, AsCur, InBasket

\* Two places have no track in common.
LEMMA Apart ==
  ASSUME HeldInv, NEW p \in PlaceIds, NEW q \in PlaceIds, p # q
  PROVE  Content(p) \cap Content(q) = {}
<1> SUFFICES ASSUME NEW t \in Content(p), t \in Content(q) PROVE FALSE
  OBVIOUS
<1>1. PICK r \in PlaceIds : Places(t) = {r}
  BY DEF HeldInv
<1>2. p \in Places(t) /\ q \in Places(t)
  BY DEF Places
<1> QED
  BY <1>1, <1>2

\* The tracks of S leave their places, and those of N come to the places dst
\* says: then every live track still has one place.
Relocated(S, N, dst) ==
  /\ \A w \in Workers : \A s \in Stages :
       fStageBuffers'[w][s] = (fStageBuffers[w][s] \ S) \union {t \in N : dst[t] = AtStage(w, s)}
  /\ \A w \in Workers :
       /\ stack'[w] = (stack[w] \ S) \union {t \in N : dst[t] = OnStack(w)}
       /\ fQshare'[w] = (fQshare[w] \ S) \union {t \in N : dst[t] = InQshare(w)}
       /\ wk'[w].vec = (wk[w].vec \ S) \union {t \in N : dst[t] = InVec(w)}
       /\ Cur(w)'
            = (Cur(w) \ S) \union {t \in N : dst[t] = AsCur(w)}
  /\ \A s \in Basketized :
       basket'[s] = (basket[s] \ S) \union {t \in N : dst[t] = InBasket(s)}

\* What Relocated says of every place.
LEMMA RelocatedContent ==
  ASSUME NEW S, NEW N, NEW dst, Relocated(S, N, dst), NEW p \in PlaceIds
  PROVE  Content(p)' = (Content(p) \ S) \union {t \in N : dst[t] = p}
<1>1. CASE \E w \in Workers : \E s \in Stages : p = AtStage(w, s)
  BY <1>1, ContentOf DEF ContentIs, Relocated
<1>2. CASE \E w \in Workers : p = OnStack(w)
  <2>1. PICK w \in Workers : p = OnStack(w)
    BY <1>2
  <2>2. Content(p) = stack[w] /\ Content(p)' = stack'[w]
    BY <2>1, ContentOf DEF ContentIs
  <2> QED
    BY <2>1, <2>2 DEF Relocated
<1>3. CASE \E w \in Workers : p = InQshare(w)
  <2>1. PICK w \in Workers : p = InQshare(w)
    BY <1>3
  <2>2. Content(p) = fQshare[w] /\ Content(p)' = fQshare'[w]
    BY <2>1, ContentOf DEF ContentIs
  <2> QED
    BY <2>1, <2>2 DEF Relocated
<1>4. CASE \E w \in Workers : p = InVec(w)
  <2>1. PICK w \in Workers : p = InVec(w)
    BY <1>4
  <2>2. Content(p) = wk[w].vec /\ Content(p)' = wk'[w].vec
    BY <2>1, ContentOf DEF ContentIs
  <2> QED
    BY <2>1, <2>2 DEF Relocated
<1>5. CASE \E w \in Workers : p = AsCur(w)
  <2>1. PICK w \in Workers : p = AsCur(w)
    BY <1>5
  <2>2. Content(p) = Cur(w) /\ Content(p)' = Cur(w)'
    BY <2>1, ContentOf DEF ContentIs
  <2> QED
    BY <2>1, <2>2 DEF Relocated
<1>6. CASE \E s \in Basketized : p = InBasket(s)
  <2>1. PICK s \in Basketized : p = InBasket(s)
    BY <1>6
  <2>2. Content(p) = basket[s] /\ Content(p)' = basket'[s]
    BY <2>1, ContentOf DEF ContentIs
  <2> QED
    BY <2>1, <2>2 DEF Relocated
<1> QED
  BY <1>1, <1>2, <1>3, <1>4, <1>5, <1>6, Kinds

\* Relocation keeps every live track in one place.
LEMMA Relocate ==
  ASSUME HeldInv, NEW S, NEW N, NEW dst,
         \A t \in N : dst[t] \in PlaceIds,
         Relocated(S, N, dst),
         Live' = (Live \ S) \union N,
         N \cap (Live \ S) = {}
  PROVE  HeldInv'
<1>1. \A p \in PlaceIds : Content(p)' = (Content(p) \ S) \union {t \in N : dst[t] = p}
  BY RelocatedContent
<1>2. \A p \in PlaceIds : Content(p)' \subseteq Live'
  BY <1>1 DEF HeldInv
<1>3. ASSUME NEW t \in N
      PROVE  Places(t)' = {dst[t]}
  <2>1. \A p \in PlaceIds : t \notin Content(p) \ S
    BY DEF HeldInv
  <2> QED
    BY <1>1, <2>1 DEF Places
<1>4. ASSUME NEW t \in Live \ S
      PROVE  Places(t)' = Places(t)
  BY <1>1 DEF Places
<1>5. \A t \in Live' : \E p \in PlaceIds : Places(t)' = {p}
  BY <1>3, <1>4 DEF HeldInv
<1> QED
  BY <1>2, <1>5 DEF HeldInv

------------------------------------------------------------------------------
(* The locals of a worker                                                  *)

\* Do changes the locals of one worker.
LEMMA DoFacts ==
  ASSUME WorkInv, NEW w \in Workers, NEW c, Do(w, c)
  PROVE  /\ wk' = [wk EXCEPT ![w] = With(wk[w], c)]
         /\ wk'[w] = With(wk[w], c)
         /\ \A v \in Workers \ {w} : wk'[v] = wk[v]
         /\ wk[w] \in WorkOf
         /\ With(wk[w], c) \in WorkOf => wk' \in [Workers -> WorkOf]
BY DEF Do, WorkInv

\* The fields of a record that is changed by With.
LEMMA WithFacts ==
  ASSUME NEW r \in WorkOf, NEW c
  PROVE  /\ "pc" \in DOMAIN c => With(r, c).pc = c["pc"]
         /\ "pc" \notin DOMAIN c => With(r, c).pc = r.pc
         /\ "vec" \in DOMAIN c => With(r, c).vec = c["vec"]
         /\ "vec" \notin DOMAIN c => With(r, c).vec = r.vec
         /\ "cur" \in DOMAIN c => With(r, c).cur = c["cur"]
         /\ "cur" \notin DOMAIN c => With(r, c).cur = r.cur
         /\ "stage" \notin DOMAIN c => With(r, c).stage = r.stage
BY DEF With, WorkOf

\* A worker that neither takes nor gives up a track.
LEMMA DoKeeps ==
  ASSUME WorkInv, NEW w \in Workers, NEW c, Do(w, c), With(wk[w], c) \in WorkOf,
         "vec" \notin DOMAIN c, "cur" \notin DOMAIN c,
         wk[w].pc # "add",
         With(wk[w], c).pc # "add",
         wk[w].vec # {} => With(wk[w], c).pc \in {"vec", "unlock"},
         With(wk[w], c).pc \in AtHandler => With(wk[w], c).stage \in Basketized
  PROVE  /\ WorkInv'
         /\ \A v \in Workers : wk'[v].vec = wk[v].vec /\ wk'[v].cur = wk[v].cur
<1>1. \A v \in Workers : wk'[v].vec = wk[v].vec /\ wk'[v].cur = wk[v].cur
  BY DoFacts, WithFacts
<1>2. wk' \in [Workers -> WorkOf]
  BY DoFacts
<1>3. ASSUME NEW v \in Workers
      PROVE  /\ wk'[v].cur # Null <=> wk'[v].pc = "add"
             /\ wk'[v].vec # {} => wk'[v].pc \in {"vec", "unlock"}
             /\ wk'[v].pc \in AtHandler => wk'[v].stage \in Basketized
  <2>1. CASE v = w
    <3>1. wk'[w] = With(wk[w], c) /\ wk[w].cur = Null
      BY DoFacts DEF WorkInv
    <3> QED
      BY <1>1, <2>1, <3>1
  <2>2. CASE v # w
    BY <2>2, DoFacts DEF WorkInv
  <2> QED
    BY <2>1, <2>2
<1> QED
  BY <1>1, <1>2, <1>3 DEF WorkInv

\* A step of a worker that moves no track.
LEMMA Quiet ==
  ASSUME StepInv, UNCHANGED <<trackVars, fStageBuffers, stack, fQshare, basket>>,
         \A v \in Workers : wk'[v].vec = wk[v].vec /\ wk'[v].cur = wk[v].cur
  PROVE  TrackInv' /\ BuffersOK' /\ HeldInv'
<1>1. TrackInv'
  BY NextTrackInv DEF StepInv
<1>2. BuffersOK'
  BY DEF StepInv, BuffersOK
<1>3. HeldInv'
  <2> DEFINE none == [t \in {} |-> t]
  <2>1. Relocated({}, {}, none)
    BY DEF Relocated, Cur
  <2>2. Live' = Live
    BY DEF trackVars, Live
  <2> QED
    BY <2>1, <2>2, Relocate DEF StepInv
<1> QED
  BY <1>1, <1>2, <1>3

\* Such a step, of a worker that goes on at another place of its loops.
LEMMA Still ==
  ASSUME StepInv, UNCHANGED <<trackVars, fStageBuffers, stack, fQshare, basket>>,
         NEW w \in Workers, NEW c, Do(w, c), With(wk[w], c) \in WorkOf,
         "vec" \notin DOMAIN c, "cur" \notin DOMAIN c,
         wk[w].pc # "add",
         With(wk[w], c).pc # "add",
         wk[w].vec # {} => With(wk[w], c).pc \in {"vec", "unlock"},
         With(wk[w], c).pc \in AtHandler => With(wk[w], c).stage \in Basketized
  PROVE  StepInv'
<1>1. WorkInv' /\ \A v \in Workers : wk'[v].vec = wk[v].vec /\ wk'[v].cur = wk[v].cur
  BY DoKeeps DEF StepInv
<1> QED
  BY <1>1, Quiet DEF StepInv

------------------------------------------------------------------------------
(* Steps that move no track                                                *)

\* A worker that leaves the loop has nothing to lose.
LEMMA StopInv == ASSUME StepInv, NEW w \in Workers, Stop(w) PROVE StepInv'
<1> DEFINE c == [pc |-> "stop"]
<1>1. Do(w, c) /\ wk[w].pc = "feed" /\ wk[w] \in WorkOf
  BY DEF Stop, StepInv, WorkInv
<1>2. /\ With(wk[w], c) \in WorkOf /\ With(wk[w], c).pc = "stop" /\ "stop" \notin AtHandler
      /\ "vec" \notin DOMAIN c /\ "cur" \notin DOMAIN c
  BY <1>1 DEF With, WorkOf, Pcs, AtHandler
<1>3. wk[w].vec = {}
  BY <1>1 DEF StepInv, WorkInv
<1> HIDE DEF c
<1> QED
  BY <1>1, <1>2, <1>3, Still DEF Stop, buffers, stages

\* A worker that finds no tracks asks for the flush mode.
LEMMA NoTracksInv == ASSUME StepInv, NEW w \in Workers, NoTracks(w) PROVE StepInv'
<1> DEFINE c == [pc |-> "enter", flushed |-> TRUE]
<1>1. wk[w].pc = "feed" /\ wk[w] \in WorkOf
  BY DEF NoTracks, StepInv, WorkInv
<1>2. /\ With(wk[w], c) \in WorkOf /\ With(wk[w], c).pc = "enter" /\ "enter" \notin AtHandler
      /\ "vec" \notin DOMAIN c /\ "cur" \notin DOMAIN c
  BY <1>1 DEF With, WorkOf, Pcs, AtHandler
<1>3. wk[w].vec = {}
  BY <1>1 DEF StepInv, WorkInv
<1>4. Do(w, c) \/ UNCHANGED wk
  BY DEF NoTracks
<1> HIDE DEF c
<1>5. UNCHANGED <<trackVars, fStageBuffers, stack, fQshare, basket>>
  BY DEF NoTracks, buffers, stages
<1>6. CASE Do(w, c)
  BY <1>1, <1>2, <1>3, <1>5, <1>6, Still
<1>7. CASE UNCHANGED wk
  BY <1>5, <1>7, Quiet DEF StepInv, WorkInv
<1> QED
  BY <1>4, <1>6, <1>7

\* The next stage is entered.
LEMMA VisitInv == ASSUME StepInv, NEW w \in Workers, Visit(w) PROVE StepInv'
<1>1. wk[w].pc \in {"loop", "tracks"} /\ wk[w] \in WorkOf /\ wk[w].vec = {}
  BY DEF Visit, GoesOn, StepInv, WorkInv
<1>2. PICK s \in Stages, label \in {"tracks", "flush", "check"}, b \in BOOLEAN :
        /\ Do(w, [pc |-> label, stage |-> s, busy |-> b])
        /\ label # "tracks" => s \in Basketized
  <2>1. PICK s \in Due(w) :
          \/ \E label \in {"tracks", "flush", "check"} :
               /\ Do(w, [pc |-> label, stage |-> s,
                         busy |-> wk[w].busy \/ Cardinality(fStageBuffers[w][s]) > 0])
               /\ s \in Basketized
          \/ Do(w, [pc |-> "tracks", stage |-> s, busy |-> TRUE])
    BY DEF Visit
  <2>2. s \in Stages
    BY <1>1 DEF Due, Stages, kSteppingActions, WorkOf
  <2> QED
    BY <2>1, <2>2
<1> DEFINE c == [pc |-> label, stage |-> s, busy |-> b]
<1>3. /\ With(wk[w], c) \in WorkOf /\ With(wk[w], c).pc = label /\ With(wk[w], c).stage = s
      /\ "vec" \notin DOMAIN c /\ "cur" \notin DOMAIN c /\ label # "add"
      /\ label \in AtHandler => label # "tracks"
  BY <1>1 DEF With, WorkOf, Pcs, AtHandler
<1>4. Do(w, c)
  BY <1>2
<1> HIDE DEF c
<1> QED
  BY <1>1, <1>2, <1>3, <1>4, Still DEF Visit, buffers

\* CheckBasketizers switches a handler and takes or releases the check lock.
LEMMA CheckInv ==
  ASSUME StepInv, NEW w \in Workers, CheckBasketizers(w) \/ EndCheck(w)
  PROVE  StepInv'
<1>1. wk[w].pc \in {"check", "checked"} /\ wk[w] \in WorkOf /\ wk[w].vec = {}
  BY DEF CheckBasketizers, EndCheck, StepInv, WorkInv
<1>2. wk[w].stage \in Basketized
  BY DEF CheckBasketizers, EndCheck, StepInv, WorkInv, AtHandler
<1>3. PICK label \in {"tracks", "flush", "drain"} : Do(w, [pc |-> label])
  BY DEF CheckBasketizers, EndCheck, Work
<1> DEFINE c == [pc |-> label]
<1>4. /\ With(wk[w], c) \in WorkOf /\ With(wk[w], c).pc = label
      /\ With(wk[w], c).stage = wk[w].stage
      /\ "vec" \notin DOMAIN c /\ "cur" \notin DOMAIN c
  BY <1>1 DEF With, WorkOf, Pcs
<1>5. Do(w, c)
  BY <1>3
<1> HIDE DEF c
<1> QED
  BY <1>1, <1>2, <1>4, <1>5, Still DEF CheckBasketizers, EndCheck, buffers

\* The handler of a stage is not flushed when it is not active.
LEMMA SkipFlushInv == ASSUME StepInv, NEW w \in Workers, SkipFlush(w) PROVE StepInv'
<1> DEFINE c == [pc |-> "tracks"]
<1>1. wk[w].pc = "flush" /\ wk[w] \in WorkOf /\ wk[w].vec = {} /\ Do(w, c)
  BY DEF SkipFlush, StepInv, WorkInv
<1>2. /\ With(wk[w], c) \in WorkOf /\ With(wk[w], c).pc = "tracks" /\ "tracks" \notin AtHandler
      /\ "vec" \notin DOMAIN c /\ "cur" \notin DOMAIN c
  BY <1>1 DEF With, WorkOf, Pcs, AtHandler
<1> HIDE DEF c
<1> QED
  BY <1>1, <1>2, Still DEF SkipFlush, buffers, stages

\* The lock is released before the basket is stepped.
LEMMA UnlockInv == ASSUME StepInv, NEW w \in Workers, Unlock(w) PROVE StepInv'
<1>1. wk[w].pc = "unlock" /\ wk[w] \in WorkOf
  BY DEF Unlock, StepInv, WorkInv
<1>2. PICK label \in {"tracks", "checked", "vec"} :
        /\ Do(w, [pc |-> label])
        /\ wk[w].vec # {} => label = "vec"
        /\ label = "checked" => wk[w].stage \in Basketized
  BY DEF Unlock, Resume, Checking
<1> DEFINE c == [pc |-> label]
<1>3. /\ With(wk[w], c) \in WorkOf /\ With(wk[w], c).pc = label
      /\ With(wk[w], c).stage = wk[w].stage
      /\ "vec" \notin DOMAIN c /\ "cur" \notin DOMAIN c
      /\ label \in AtHandler => label = "checked"
  BY <1>1 DEF With, WorkOf, Pcs, AtHandler
<1>4. Do(w, c)
  BY <1>2
<1> HIDE DEF c
<1> QED
  BY <1>1, <1>2, <1>3, <1>4, Still DEF Unlock, buffers

------------------------------------------------------------------------------
(* Steps that move tracks                                                  *)

\* No place but src has a track of S.
OnlyIn(src, S) ==
  /\ \A w \in Workers : \A s \in Stages :
       AtStage(w, s) # src => fStageBuffers[w][s] \ S = fStageBuffers[w][s]
  /\ \A w \in Workers :
       /\ OnStack(w) # src => stack[w] \ S = stack[w]
       /\ InQshare(w) # src => fQshare[w] \ S = fQshare[w]
       /\ InVec(w) # src => wk[w].vec \ S = wk[w].vec
       /\ AsCur(w) # src => Cur(w) \ S = Cur(w)
  /\ \A s \in Basketized : InBasket(s) # src => basket[s] \ S = basket[s]

\* Tracks that are in one place are in no other one.
LEMMA Elsewhere ==
  ASSUME HeldInv, NEW src \in PlaceIds, NEW S \in SUBSET Content(src)
  PROVE  OnlyIn(src, S)
<1>1. \A p \in PlaceIds : p # src => Content(p) \ S = Content(p)
  BY Apart
<1>2. /\ \A w \in Workers : \A s \in Stages :
              AtStage(w, s) # src => fStageBuffers[w][s] \ S = fStageBuffers[w][s]
      /\ \A s \in Basketized : InBasket(s) # src => basket[s] \ S = basket[s]
  BY <1>1, Kinds, ContentOf DEF ContentIs
<1>3. \A w \in Workers :
         /\ OnStack(w) # src => stack[w] \ S = stack[w]
         /\ InQshare(w) # src => fQshare[w] \ S = fQshare[w]
         /\ InVec(w) # src => wk[w].vec \ S = wk[w].vec
         /\ AsCur(w) # src => Cur(w) \ S = Cur(w)
  BY <1>1, Kinds, ContentOf DEF ContentIs
<1> QED
  BY <1>2, <1>3 DEF OnlyIn

\* The locals of the worker that moves tracks.
LEMMA DoWork ==
  ASSUME WorkInv, NEW w \in Workers, NEW c, Do(w, c), With(wk[w], c) \in WorkOf,
         With(wk[w], c).cur # Null <=> With(wk[w], c).pc = "add",
         With(wk[w], c).vec # {} => With(wk[w], c).pc \in {"vec", "unlock"},
         With(wk[w], c).pc \in AtHandler => With(wk[w], c).stage \in Basketized
  PROVE  WorkInv'
<1>1. wk' \in [Workers -> WorkOf]
  BY DoFacts
<1>2. ASSUME NEW v \in Workers
      PROVE  /\ wk'[v].cur # Null <=> wk'[v].pc = "add"
             /\ wk'[v].vec # {} => wk'[v].pc \in {"vec", "unlock"}
             /\ wk'[v].pc \in AtHandler => wk'[v].stage \in Basketized
  <2>1. CASE v = w
    BY <2>1, DoFacts
  <2>2. CASE v # w
    BY <2>2, DoFacts DEF WorkInv
  <2> QED
    BY <2>1, <2>2
<1> QED
  BY <1>1, <1>2 DEF WorkInv

\* The tracks of S go from one place to another.
Update(X, p, src, tgt, S) == IF p = src THEN X \ S ELSE IF p = tgt THEN X \union S ELSE X

\* A step that moves tracks from one place to another keeps each in one place.
LEMMA Transfer ==
  ASSUME HeldInv, NEW src \in PlaceIds, NEW tgt \in PlaceIds, src # tgt,
         NEW S \in SUBSET Content(src), Live' = Live,
         \A w \in Workers : \A s \in Stages :
           fStageBuffers'[w][s] = Update(fStageBuffers[w][s], AtStage(w, s), src, tgt, S),
         \A w \in Workers :
           /\ stack'[w] = Update(stack[w], OnStack(w), src, tgt, S)
           /\ fQshare'[w] = Update(fQshare[w], InQshare(w), src, tgt, S)
           /\ wk'[w].vec = Update(wk[w].vec, InVec(w), src, tgt, S)
           /\ Cur(w)' = Update(Cur(w), AsCur(w), src, tgt, S),
         \A s \in Basketized : basket'[s] = Update(basket[s], InBasket(s), src, tgt, S)
  PROVE  HeldInv'
<1> DEFINE dst == [t \in S |-> tgt]
<1>1. \A t \in S : dst[t] = tgt
  OBVIOUS
<1> HIDE DEF dst
<1>2. ASSUME NEW w \in Workers, NEW s \in Stages
      PROVE  fStageBuffers'[w][s] = (fStageBuffers[w][s] \ S) \union {t \in S : dst[t] = AtStage(w, s)}
  <2>1. AtStage(w, s) # src => fStageBuffers[w][s] \ S = fStageBuffers[w][s]
    BY Elsewhere DEF OnlyIn
  <2>2. fStageBuffers'[w][s] = Update(fStageBuffers[w][s], AtStage(w, s), src, tgt, S)
    OBVIOUS
  <2> QED
    BY ONLY src # tgt, <1>1, <2>1, <2>2 DEF Update
<1>3. ASSUME NEW w \in Workers
      PROVE  stack[w]' = (stack[w] \ S) \union {t \in S : dst[t] = OnStack(w)}
  <2>1. OnStack(w) # src => stack[w] \ S = stack[w]
    BY Elsewhere DEF OnlyIn
  <2>2. stack[w]' = Update(stack[w], OnStack(w), src, tgt, S)
    OBVIOUS
  <2> QED
    BY ONLY src # tgt, <1>1, <2>1, <2>2 DEF Update
<1>4. ASSUME NEW w \in Workers
      PROVE  fQshare[w]' = (fQshare[w] \ S) \union {t \in S : dst[t] = InQshare(w)}
  <2>1. InQshare(w) # src => fQshare[w] \ S = fQshare[w]
    BY Elsewhere DEF OnlyIn
  <2>2. fQshare[w]' = Update(fQshare[w], InQshare(w), src, tgt, S)
    OBVIOUS
  <2> QED
    BY ONLY src # tgt, <1>1, <2>1, <2>2 DEF Update
<1>5. ASSUME NEW w \in Workers
      PROVE  wk[w].vec' = (wk[w].vec \ S) \union {t \in S : dst[t] = InVec(w)}
  <2>1. InVec(w) # src => wk[w].vec \ S = wk[w].vec
    BY Elsewhere DEF OnlyIn
  <2>2. wk[w].vec' = Update(wk[w].vec, InVec(w), src, tgt, S)
    OBVIOUS
  <2> QED
    BY ONLY src # tgt, <1>1, <2>1, <2>2 DEF Update
<1>6. ASSUME NEW w \in Workers
      PROVE  Cur(w)' = (Cur(w) \ S) \union {t \in S : dst[t] = AsCur(w)}
  <2>1. AsCur(w) # src => Cur(w) \ S = Cur(w)
    BY Elsewhere DEF OnlyIn
  <2>2. Cur(w)' = Update(Cur(w), AsCur(w), src, tgt, S)
    OBVIOUS
  <2> QED
    BY ONLY src # tgt, <1>1, <2>1, <2>2 DEF Update
<1>7. ASSUME NEW s \in Basketized
      PROVE  basket'[s] = (basket[s] \ S) \union {t \in S : dst[t] = InBasket(s)}
  <2>1. InBasket(s) # src => basket[s] \ S = basket[s]
    BY Elsewhere DEF OnlyIn
  <2>2. basket'[s] = Update(basket[s], InBasket(s), src, tgt, S)
    OBVIOUS
  <2> QED
    BY ONLY src # tgt, <1>1, <2>1, <2>2 DEF Update
<1>8. Relocated(S, S, dst)
  BY <1>2, <1>3, <1>4, <1>5, <1>6, <1>7 DEF Relocated
<1>9. (\A t \in S : dst[t] \in PlaceIds) /\ Live = (Live \ S) \union S
  BY <1>1 DEF HeldInv
<1> QED
  BY <1>8, <1>9, Relocate

\* The thread that flushes a handler takes its basket as a whole.
LEMMA FlushHandlerInv == ASSUME StepInv, NEW w \in Workers, FlushHandler(w) PROVE StepInv'
<1> DEFINE s == wk[w].stage
<1>1. /\ wk[w].pc \in {"drain", "flush"} /\ wk[w] \in WorkOf
      /\ wk[w].vec = {} /\ wk[w].cur = Null
  BY DEF FlushHandler, StepInv, WorkInv
<1>2. s \in Basketized
  BY DEF FlushHandler, StepInv, WorkInv, AtHandler
<1>3. UNCHANGED <<fStageBuffers, stack, fQshare>> /\ UNCHANGED trackVars
  BY DEF FlushHandler, buffers
<1>4. CASE Do(w, [pc |-> Resume(w)]) /\ UNCHANGED basket
  <2>1. PICK label \in {"tracks", "checked"} : label = Resume(w)
    BY DEF Resume
  <2> DEFINE c == [pc |-> label]
  <2>2. /\ With(wk[w], c) \in WorkOf /\ With(wk[w], c).pc = label /\ With(wk[w], c).stage = s
        /\ "vec" \notin DOMAIN c /\ "cur" \notin DOMAIN c
    BY <1>1 DEF With, WorkOf, Pcs
  <2>3. Do(w, c)
    BY <1>4, <2>1
  <2> HIDE DEF c
  <2> QED
    BY <1>1, <1>2, <1>3, <1>4, <2>2, <2>3, Still
<1>5. CASE /\ Do(w, [pc |-> "unlock", vec |-> basket[s]])
           /\ basket' = [basket EXCEPT ![s] = {}]
  <2> DEFINE c == [pc |-> "unlock", vec |-> basket[s]]
             S == basket[s]
  <2>1. basket \in [Basketized -> SUBSET Tracks] /\ S \in SUBSET Tracks
    BY <1>2 DEF StepInv, BuffersOK
  <2>2. /\ With(wk[w], c) \in WorkOf /\ With(wk[w], c).pc = "unlock" /\ "unlock" \notin AtHandler
        /\ With(wk[w], c).vec = S /\ With(wk[w], c).cur = Null
    BY <1>1, <2>1 DEF With, WorkOf, Pcs, AtHandler
  <2>3. Do(w, c)
    BY <1>5
  <2> HIDE DEF c
  <2>4. WorkInv'
    BY <2>2, <2>3, DoWork DEF StepInv
  <2>5. /\ wk'[w].vec = S /\ wk'[w].cur = Null
        /\ \A v \in Workers \ {w} : wk'[v].vec = wk[v].vec /\ wk'[v].cur = wk[v].cur
    BY <2>2, <2>3, DoFacts DEF StepInv
  <2>6. /\ InBasket(s) \in PlaceIds /\ S = Content(InBasket(s)) /\ InVec(w) \in PlaceIds
        /\ InBasket(s) # InVec(w)
    BY <1>2, Kinds, ContentOf, Distinct DEF ContentIs
  <2>7. /\ \A v \in Workers : \A d \in Stages : AtStage(v, d) \notin {InBasket(s), InVec(w)}
        /\ \A v \in Workers : {OnStack(v), InQshare(v), AsCur(v)} \cap {InBasket(s), InVec(w)} = {}
        /\ \A v \in Workers \ {w} : InVec(v) # InVec(w)
        /\ \A v \in Workers : InVec(v) # InBasket(s)
        /\ \A d \in Basketized \ {s} : InBasket(d) # InBasket(s)
        /\ \A d \in Basketized : InBasket(d) # InVec(w)
    BY Distinct
  <2>8. HeldInv'
    <3>1. Live' = Live
      BY <1>3 DEF trackVars, Live
    <3>2. \A v \in Workers :
            /\ wk'[v].vec = Update(wk[v].vec, InVec(v), InBasket(s), InVec(w), S)
            /\ Cur(v)' = Update(Cur(v), AsCur(v), InBasket(s), InVec(w), S)
      BY <1>1, <2>5, <2>7 DEF Update, Cur
    <3>3. \A d \in Basketized : basket'[d] = Update(basket[d], InBasket(d), InBasket(s), InVec(w), S)
      BY <1>2, <1>5, <2>1, <2>7 DEF Update
    <3>4. /\ \A v \in Workers : \A d \in Stages :
               fStageBuffers'[v][d] = Update(fStageBuffers[v][d], AtStage(v, d), InBasket(s), InVec(w), S)
          /\ \A v \in Workers :
               /\ stack'[v] = Update(stack[v], OnStack(v), InBasket(s), InVec(w), S)
               /\ fQshare'[v] = Update(fQshare[v], InQshare(v), InBasket(s), InVec(w), S)
      BY <1>3, <2>7 DEF Update
    <3> HIDE DEF S
    <3> QED
      BY <2>6, <3>1, <3>2, <3>3, <3>4, Transfer DEF StepInv
  <2>9. TrackInv' /\ BuffersOK'
    BY <1>3, <1>5, <2>1, NextTrackInv DEF StepInv, BuffersOK
  <2> QED
    BY <2>4, <2>8, <2>9 DEF StepInv
<1> QED
  BY <1>4, <1>5 DEF FlushHandler

\* A thief takes shared tracks to its first stage.
LEMMA StealInv == ASSUME StepInv, NEW w \in Workers, Steal(w) PROVE StepInv'
<1> DEFINE c == [pc |-> "enter", flushed |-> FALSE]
<1>0. PICK v \in Workers : \E S \in SUBSET fQshare[v] :
        /\ fQshare' = [fQshare EXCEPT ![v] = @ \ S]
        /\ fStageBuffers' = [fStageBuffers EXCEPT ![w][0] = @ \union S]
  BY DEF Steal
<1>1. PICK S \in SUBSET fQshare[v] :
        /\ fQshare' = [fQshare EXCEPT ![v] = @ \ S]
        /\ fStageBuffers' = [fStageBuffers EXCEPT ![w][0] = @ \union S]
  BY <1>0
<1>2. /\ UNCHANGED <<stack, basket>> /\ UNCHANGED trackVars
      /\ wk[w].pc = "feed" /\ wk[w] \in WorkOf /\ wk[w].vec = {} /\ wk[w].cur = Null /\ Do(w, c)
  BY DEF Steal, stages, StepInv, WorkInv
<1>3. /\ fStageBuffers \in [Workers -> [Stages -> SUBSET Tracks]]
      /\ fQshare \in [Workers -> SUBSET Tracks]
      /\ 0 \in Stages
  BY DEF StepInv, BuffersOK, Stages
<1>4. /\ With(wk[w], c) \in WorkOf /\ With(wk[w], c).pc = "enter" /\ "enter" \notin AtHandler
      /\ "vec" \notin DOMAIN c /\ "cur" \notin DOMAIN c
  BY <1>2 DEF With, WorkOf, Pcs, AtHandler
<1> HIDE DEF c
<1>5. WorkInv' /\ \A u \in Workers : wk'[u].vec = wk[u].vec /\ wk'[u].cur = wk[u].cur
  BY <1>2, <1>4, DoKeeps DEF StepInv
<1> DEFINE src == InQshare(v)
           tgt == AtStage(w, 0)
<1>6. src \in PlaceIds /\ tgt \in PlaceIds /\ src # tgt /\ S \in SUBSET Content(src)
  BY <1>3, Kinds, ContentOf, Distinct DEF ContentIs
<1>7. /\ \A u \in Workers : \A d \in Stages : AtStage(u, d) # src /\ (AtStage(u, d) = tgt <=> u = w /\ d = 0)
      /\ \A u \in Workers : /\ {OnStack(u), InVec(u), AsCur(u)} \cap {src, tgt} = {}
                            /\ InQshare(u) = src <=> u = v
                            /\ InQshare(u) # tgt
      /\ \A d \in Basketized : InBasket(d) \notin {src, tgt}
  BY Distinct
<1> HIDE DEF src, tgt
<1>8. HeldInv'
  <2>1. \A u \in Workers : \A d \in Stages :
          fStageBuffers'[u][d] = Update(fStageBuffers[u][d], AtStage(u, d), src, tgt, S)
    BY <1>1, <1>3, <1>7 DEF Update
  <2>2. \A u \in Workers :
          /\ stack'[u] = Update(stack[u], OnStack(u), src, tgt, S)
          /\ fQshare'[u] = Update(fQshare[u], InQshare(u), src, tgt, S)
    BY <1>1, <1>2, <1>3, <1>7 DEF Update
  <2>3. \A u \in Workers :
          /\ wk'[u].vec = Update(wk[u].vec, InVec(u), src, tgt, S)
          /\ Cur(u)' = Update(Cur(u), AsCur(u), src, tgt, S)
    BY <1>5, <1>7 DEF Update, Cur
  <2>4. \A d \in Basketized : basket'[d] = Update(basket[d], InBasket(d), src, tgt, S)
    BY <1>2, <1>7 DEF Update
  <2>5. Live' = Live
    BY <1>2 DEF trackVars, Live
  <2> QED
    BY <1>6, <2>1, <2>2, <2>3, <2>4, <2>5, Transfer DEF StepInv
<1>9. TrackInv' /\ BuffersOK'
  <2>1. S \in SUBSET Tracks
    BY <1>3
  <2>2. fStageBuffers' \in [Workers -> [Stages -> SUBSET Tracks]] /\ fQshare' \in [Workers -> SUBSET Tracks]
    BY <1>1, <1>3, <2>1
  <2> QED
    BY <1>2, <2>2, NextTrackInv DEF StepInv, BuffersOK
<1> QED
  BY <1>5, <1>8, <1>9 DEF StepInv

\* A track that is selected leaves its stage before it is added to the handler.
LEMMA SelectInv == ASSUME StepInv, NEW w \in Workers, Select(w) PROVE StepInv'
<1> DEFINE s == wk[w].stage
<1>1. PICK t \in fStageBuffers[w][s] :
        /\ fStageBuffers' = [fStageBuffers EXCEPT ![w][s] = @ \ {t}]
        /\ Do(w, [pc |-> "add", cur |-> t])
  BY DEF Select
<1> DEFINE c == [pc |-> "add", cur |-> t]
<1>2. /\ UNCHANGED <<stack, fQshare, basket>> /\ UNCHANGED trackVars
      /\ wk[w].pc = "tracks" /\ wk[w] \in WorkOf /\ wk[w].vec = {} /\ wk[w].cur = Null
      /\ s \in Basketized /\ s \in Stages
  BY DEF Select, stages, StepInv, WorkInv, WorkOf
<1>3. fStageBuffers \in [Workers -> [Stages -> SUBSET Tracks]] /\ t \in Tracks /\ t # Null
  BY <1>1, <1>2, SteppingAssumption DEF StepInv, BuffersOK
<1>4. /\ With(wk[w], c) \in WorkOf /\ With(wk[w], c).pc = "add" /\ With(wk[w], c).vec = {}
      /\ With(wk[w], c).cur = t /\ With(wk[w], c).stage = s
  BY <1>2, <1>3 DEF With, WorkOf, Pcs
<1>5. Do(w, c)
  BY <1>1
<1> HIDE DEF c
<1>6. WorkInv'
  BY <1>2, <1>3, <1>4, <1>5, DoWork DEF StepInv
<1>7. /\ wk'[w].vec = {} /\ wk'[w].cur = t
      /\ \A u \in Workers \ {w} : wk'[u].vec = wk[u].vec /\ wk'[u].cur = wk[u].cur
  BY <1>4, <1>5, DoFacts DEF StepInv
<1> DEFINE src == AtStage(w, s)
           tgt == AsCur(w)
           S == {t}
<1>8. src \in PlaceIds /\ tgt \in PlaceIds /\ src # tgt /\ S \in SUBSET Content(src)
  BY <1>1, <1>2, Kinds, ContentOf, Distinct DEF ContentIs
<1>9. /\ \A u \in Workers : \A d \in Stages : AtStage(u, d) # tgt /\ (AtStage(u, d) = src <=> u = w /\ d = s)
      /\ \A u \in Workers : /\ {OnStack(u), InVec(u), InQshare(u)} \cap {src, tgt} = {}
                            /\ AsCur(u) = tgt <=> u = w
                            /\ AsCur(u) # src
      /\ \A d \in Basketized : InBasket(d) \notin {src, tgt}
  BY Distinct
<1> HIDE DEF src, tgt
<1>10. HeldInv'
  <2>1. \A u \in Workers : \A d \in Stages :
          fStageBuffers'[u][d] = Update(fStageBuffers[u][d], AtStage(u, d), src, tgt, S)
    BY <1>1, <1>2, <1>3, <1>9 DEF Update
  <2>2. \A u \in Workers :
          /\ stack'[u] = Update(stack[u], OnStack(u), src, tgt, S)
          /\ fQshare'[u] = Update(fQshare[u], InQshare(u), src, tgt, S)
    BY <1>2, <1>9 DEF Update
  <2>3. \A u \in Workers :
          /\ wk'[u].vec = Update(wk[u].vec, InVec(u), src, tgt, S)
          /\ Cur(u)' = Update(Cur(u), AsCur(u), src, tgt, S)
    <3>1. ASSUME NEW u \in Workers
          PROVE  wk'[u].vec = Update(wk[u].vec, InVec(u), src, tgt, S)
      BY <1>2, <1>7, <1>9 DEF Update
    <3>2. ASSUME NEW u \in Workers
          PROVE  Cur(u)' = Update(Cur(u), AsCur(u), src, tgt, S)
      BY <1>2, <1>3, <1>7, <1>9 DEF Update, Cur
    <3> QED
      BY <3>1, <3>2
  <2>4. \A d \in Basketized : basket'[d] = Update(basket[d], InBasket(d), src, tgt, S)
    BY <1>2, <1>9 DEF Update
  <2>5. Live' = Live
    BY <1>2 DEF trackVars, Live
  <2> HIDE DEF S
  <2> QED
    BY <1>8, <2>1, <2>2, <2>3, <2>4, <2>5, Transfer DEF StepInv
<1>11. TrackInv' /\ BuffersOK'
  <2>1. fStageBuffers' \in [Workers -> [Stages -> SUBSET Tracks]]
    BY <1>1, <1>2, <1>3
  <2> QED
    BY <1>2, <2>1, NextTrackInv DEF StepInv, BuffersOK
<1> QED
  BY <1>6, <1>10, <1>11 DEF StepInv

\* A track that is added to a handler waits there, or is taken back with the
\* whole basket that it fills.
LEMMA AddTrackInv == ASSUME StepInv, NEW w \in Workers, AddTrack(w) PROVE StepInv'
<1> DEFINE s == wk[w].stage
           t == wk[w].cur
           filled == basket[s] \union {t}
<1>1. /\ UNCHANGED <<fStageBuffers, stack, fQshare>> /\ UNCHANGED trackVars
      /\ wk[w].pc = "add" /\ wk[w] \in WorkOf /\ wk[w].vec = {} /\ t # Null /\ t \in Tracks
      /\ s \in Basketized
  BY DEF AddTrack, buffers, StepInv, WorkInv, WorkOf, AtHandler
<1>2. basket \in [Basketized -> SUBSET Tracks] /\ filled \in SUBSET Tracks
  BY <1>1 DEF StepInv, BuffersOK
<1>3. /\ AsCur(w) \in PlaceIds /\ Content(AsCur(w)) = {t}
      /\ InBasket(s) \in PlaceIds /\ Content(InBasket(s)) = basket[s]
      /\ InVec(w) \in PlaceIds
      /\ AsCur(w) # InBasket(s)
  BY <1>1, Kinds, ContentOf, Distinct DEF ContentIs, Cur
<1>4. /\ \A u \in Workers : \A d \in Stages : AtStage(u, d) \notin {AsCur(w), InBasket(s), InVec(w)}
      /\ \A u \in Workers : /\ {OnStack(u), InQshare(u)} \cap {AsCur(w), InBasket(s), InVec(w)} = {}
                            /\ AsCur(u) = AsCur(w) <=> u = w
                            /\ InVec(u) = InVec(w) <=> u = w
                            /\ AsCur(u) # InBasket(s) /\ InVec(u) # InBasket(s)
                            /\ AsCur(u) # InVec(w) /\ InVec(u) # AsCur(w)
      /\ \A d \in Basketized : /\ InBasket(d) \notin {AsCur(w), InVec(w)}
                               /\ InBasket(d) = InBasket(s) <=> d = s
  BY Distinct
<1>5. Live' = Live
  BY <1>1 DEF trackVars, Live
<1>6. TrackInv'
  BY <1>1, NextTrackInv DEF StepInv
<1>7. CASE /\ Do(w, [pc |-> "tracks", cur |-> Null])
           /\ basket' = [basket EXCEPT ![s] = filled]
  <2> DEFINE c == [pc |-> "tracks", cur |-> Null]
             src == AsCur(w)
             tgt == InBasket(s)
             S == {t}
  <2>1. /\ With(wk[w], c) \in WorkOf /\ With(wk[w], c).pc = "tracks" /\ "tracks" \notin AtHandler
        /\ With(wk[w], c).vec = {} /\ With(wk[w], c).cur = Null
    BY <1>1 DEF With, WorkOf, Pcs, AtHandler
  <2>2. Do(w, c)
    BY <1>7
  <2> HIDE DEF c
  <2>3. WorkInv'
    BY <2>1, <2>2, DoWork DEF StepInv
  <2>4. /\ wk'[w].vec = {} /\ wk'[w].cur = Null
        /\ \A u \in Workers \ {w} : wk'[u].vec = wk[u].vec /\ wk'[u].cur = wk[u].cur
    BY <2>1, <2>2, DoFacts DEF StepInv
  <2>5. /\ \A u \in Workers : \A d \in Stages :
             fStageBuffers'[u][d] = Update(fStageBuffers[u][d], AtStage(u, d), src, tgt, S)
        /\ \A u \in Workers :
             /\ stack'[u] = Update(stack[u], OnStack(u), src, tgt, S)
             /\ fQshare'[u] = Update(fQshare[u], InQshare(u), src, tgt, S)
    BY <1>1, <1>4 DEF Update
  <2>6. ASSUME NEW u \in Workers
        PROVE  wk'[u].vec = Update(wk[u].vec, InVec(u), src, tgt, S)
    BY <1>1, <1>4, <2>4 DEF Update
  <2>7. ASSUME NEW u \in Workers
        PROVE  Cur(u)' = Update(Cur(u), AsCur(u), src, tgt, S)
    BY <1>1, <1>4, <2>4 DEF Update, Cur
  <2>8. \A d \in Basketized : basket'[d] = Update(basket[d], InBasket(d), src, tgt, S)
    BY <1>2, <1>3, <1>4, <1>7 DEF Update
  <2>9. HeldInv'
    <3> HIDE DEF S, t, s
    <3>1. src \in PlaceIds /\ tgt \in PlaceIds /\ src # tgt /\ S \in SUBSET Content(src)
      BY <1>3 DEF S
    <3> HIDE DEF src, tgt
    <3> QED
      BY <1>5, <2>5, <2>6, <2>7, <2>8, <3>1, Transfer DEF StepInv
  <2>10. BuffersOK'
    BY <1>1, <1>2, <1>7 DEF StepInv, BuffersOK
  <2> QED
    BY <1>6, <2>3, <2>9, <2>10 DEF StepInv
<1>8. CASE /\ Do(w, [pc |-> "vec", vec |-> filled, cur |-> Null])
           /\ basket' = [basket EXCEPT ![s] = {}]
  <2> DEFINE c == [pc |-> "vec", vec |-> filled, cur |-> Null]
             dst == [x \in filled |-> InVec(w)]
  <2>1. /\ With(wk[w], c) \in WorkOf /\ With(wk[w], c).pc = "vec" /\ "vec" \notin AtHandler
        /\ With(wk[w], c).vec = filled /\ With(wk[w], c).cur = Null
    BY <1>1, <1>2 DEF With, WorkOf, Pcs, AtHandler
  <2>2. Do(w, c)
    BY <1>8
  <2> HIDE DEF c
  <2>3. WorkInv'
    BY <2>1, <2>2, DoWork DEF StepInv
  <2>4. /\ wk'[w].vec = filled /\ wk'[w].cur = Null
        /\ \A u \in Workers \ {w} : wk'[u].vec = wk[u].vec /\ wk'[u].cur = wk[u].cur
    BY <2>1, <2>2, DoFacts DEF StepInv
  <2>5. \A x \in filled : dst[x] = InVec(w)
    OBVIOUS
  <2> HIDE DEF dst
  <2>0. OnlyIn(AsCur(w), {t}) /\ OnlyIn(InBasket(s), basket[s])
    <3>1. {t} \in SUBSET Content(AsCur(w)) /\ basket[s] \in SUBSET Content(InBasket(s))
      BY <1>3
    <3> HIDE DEF s, t
    <3> QED
      BY <1>3, <3>1, Elsewhere DEF StepInv
  <2>6. /\ \A u \in Workers : \A d \in Stages : fStageBuffers[u][d] \ filled = fStageBuffers[u][d]
        /\ \A u \in Workers : stack[u] \ filled = stack[u] /\ fQshare[u] \ filled = fQshare[u]
    <3>1. \A u \in Workers : \A d \in Stages :
            /\ fStageBuffers[u][d] \ {t} = fStageBuffers[u][d]
            /\ fStageBuffers[u][d] \ basket[s] = fStageBuffers[u][d]
      BY <1>4, <2>0 DEF OnlyIn
    <3>2. \A u \in Workers :
            /\ stack[u] \ {t} = stack[u] /\ fQshare[u] \ {t} = fQshare[u]
            /\ stack[u] \ basket[s] = stack[u] /\ fQshare[u] \ basket[s] = fQshare[u]
      BY <1>4, <2>0 DEF OnlyIn
    <3> QED
      BY <3>1, <3>2
  <2>7. ASSUME NEW u \in Workers
        PROVE  wk'[u].vec = (wk[u].vec \ filled) \union {x \in filled : dst[x] = InVec(u)}
    <3>1. wk[u].vec \ {t} = wk[u].vec /\ wk[u].vec \ basket[s] = wk[u].vec
      BY <1>4, <2>0 DEF OnlyIn
    <3>2. InVec(u) = InVec(w) <=> u = w
      BY <1>4
    <3> QED
      BY <1>1, <2>4, <2>5, <3>1, <3>2
  <2>8. ASSUME NEW u \in Workers
        PROVE  Cur(u)' = (Cur(u) \ filled) \union {x \in filled : dst[x] = AsCur(u)}
    <3>1. AsCur(u) # InVec(w)
      BY <1>4
    <3>2. CASE u = w
      BY <1>1, <2>4, <2>5, <3>1, <3>2 DEF Cur
    <3>3. CASE u # w
      <4>1. Cur(u) \ {t} = Cur(u) /\ Cur(u) \ basket[s] = Cur(u) /\ Cur(u)' = Cur(u)
        BY <1>4, <2>0, <2>4, <3>3 DEF OnlyIn, Cur
      <4> QED
        BY <2>5, <3>1, <4>1
    <3> QED
      BY <3>2, <3>3
  <2>9. ASSUME NEW d \in Basketized
        PROVE  basket'[d] = (basket[d] \ filled) \union {x \in filled : dst[x] = InBasket(d)}
    <3>1. InBasket(d) # InVec(w)
      BY <1>4
    <3>2. CASE d = s
      BY <1>2, <1>8, <2>5, <3>1, <3>2
    <3>3. CASE d # s
      <4>1. basket[d] \ {t} = basket[d] /\ basket[d] \ basket[s] = basket[d] /\ basket'[d] = basket[d]
        BY <1>2, <1>4, <1>8, <2>0, <3>3 DEF OnlyIn
      <4> QED
        BY <2>5, <3>1, <4>1
    <3> QED
      BY <3>2, <3>3
  <2>10. Relocated(filled, filled, dst)
    <3>1. \A u \in Workers : \A d \in Stages :
            fStageBuffers'[u][d] = (fStageBuffers[u][d] \ filled) \union {x \in filled : dst[x] = AtStage(u, d)}
      BY <1>1, <1>4, <2>5, <2>6
    <3>2. \A u \in Workers :
            /\ stack'[u] = (stack[u] \ filled) \union {x \in filled : dst[x] = OnStack(u)}
            /\ fQshare'[u] = (fQshare[u] \ filled) \union {x \in filled : dst[x] = InQshare(u)}
      BY <1>1, <1>4, <2>5, <2>6
    <3> HIDE DEF filled
    <3> QED
      BY <2>7, <2>8, <2>9, <3>1, <3>2 DEF Relocated
  <2>11. HeldInv'
    <3>1. filled \subseteq Live
      BY <1>3 DEF StepInv, HeldInv
    <3> HIDE DEF filled
    <3> QED
      BY <1>3, <1>5, <2>5, <2>10, <3>1, Relocate DEF StepInv
  <2>12. BuffersOK'
    BY <1>1, <1>2, <1>8 DEF StepInv, BuffersOK
  <2> QED
    BY <1>6, <2>3, <2>11, <2>12 DEF StepInv
<1> QED
  BY <1>7, <1>8 DEF AddTrack, Taken

\* A primary that is served goes on the stack of the worker.
LEMMA TakeInv ==
  ASSUME StepInv, NEW w \in Workers, Take(w)
  PROVE  StepInv' /\ [TrackNext]_trackVars
<1>1. PICK t \in todo : Dispatch(t) /\ Stacked(w, t, 0)
  BY DEF Take
<1>2. [TrackNext]_trackVars
  BY <1>1 DEF TrackNext
<1>3. TrackInv'
  BY <1>2, NextTrackInv DEF StepInv
<1>4. t \in Tracks /\ t \notin Live /\ Live' = Live \union {t}
  BY <1>1, TrackAssumption DEF StepInv, TrackInv, TrackTypeOK, Dispatch, Extend, Live
<1>5. /\ UNCHANGED <<fStageBuffers, fQshare, basket>>
      /\ stack' = [stack EXCEPT ![w] = @ \union {t}]
      /\ stack \in [Workers -> SUBSET Tracks]
  BY <1>1 DEF Take, Stacked, stages, StepInv, BuffersOK
<1>6. BuffersOK'
  BY <1>4, <1>5 DEF StepInv, BuffersOK
<1>7. /\ wk[w].pc = "feed" /\ wk[w] \in WorkOf /\ wk[w].vec = {}
      /\ wk[w].room \in Int /\ Bsize \in Int
  BY SteppingAssumption DEF Take, StepInv, WorkInv, WorkOf
<1>8. WorkInv' /\ \A v \in Workers : wk'[v].vec = wk[v].vec /\ wk'[v].cur = wk[v].cur
  <2>1. CASE Do(w, [pc |-> "enter", flushed |-> FALSE, room |-> Bsize])
    <3> DEFINE c == [pc |-> "enter", flushed |-> FALSE, room |-> Bsize]
    <3>1. /\ With(wk[w], c) \in WorkOf /\ With(wk[w], c).pc = "enter" /\ "enter" \notin AtHandler
          /\ "vec" \notin DOMAIN c /\ "cur" \notin DOMAIN c
      BY <1>7 DEF With, WorkOf, Pcs, AtHandler
    <3>2. Do(w, c)
      BY <2>1
    <3> HIDE DEF c
    <3> QED
      BY <1>7, <3>1, <3>2, DoKeeps DEF StepInv
  <2>2. CASE Do(w, [flushed |-> FALSE, room |-> wk[w].room - 1])
    <3> DEFINE left == wk[w].room - 1
               c == [flushed |-> FALSE, room |-> left]
    <3>0. left \in Int /\ Do(w, [flushed |-> FALSE, room |-> left])
      BY <1>7, <2>2
    <3> HIDE DEF left
    <3>1. /\ With(wk[w], c) \in WorkOf /\ With(wk[w], c).pc = "feed" /\ "feed" \notin AtHandler
          /\ "vec" \notin DOMAIN c /\ "cur" \notin DOMAIN c
      BY <1>7, <3>0 DEF With, WorkOf, Pcs, AtHandler
    <3>2. Do(w, c)
      BY <3>0
    <3> HIDE DEF c
    <3> QED
      BY <1>7, <3>1, <3>2, DoKeeps DEF StepInv
  <2> QED
    BY <2>1, <2>2 DEF Take
<1>9. HeldInv'
  <2> DEFINE dst == [x \in {t} |-> OnStack(w)]
  <2>1. dst[t] = OnStack(w)
    OBVIOUS
  <2> HIDE DEF dst
  <2>2. /\ \A u \in Workers : \A d \in Stages : AtStage(u, d) # OnStack(w)
        /\ \A u \in Workers : /\ OnStack(w) \notin {InQshare(u), InVec(u), AsCur(u)}
                              /\ OnStack(u) = OnStack(w) <=> u = w
        /\ \A d \in Basketized : InBasket(d) # OnStack(w)
    BY Distinct
  <2>3. Relocated({}, {t}, dst)
    BY <1>5, <1>8, <2>1, <2>2 DEF Relocated, Cur
  <2>4. OnStack(w) \in PlaceIds
    BY Kinds
  <2> QED
    BY <1>4, <2>1, <2>3, <2>4, Relocate DEF StepInv
<1> QED
  BY <1>2, <1>3, <1>6, <1>8, <1>9 DEF StepInv

\* The tracks that leave the stack are given away or go to the first stage.
LEMMA FlushOneLaneInv ==
  ASSUME StepInv, NEW w \in Workers, NEW share, FlushOneLane(w, share), UNCHANGED basket, UNCHANGED trackVars,
         \A v \in Workers : wk'[v].vec = wk[v].vec /\ wk'[v].cur = wk[v].cur
  PROVE  HeldInv' /\ BuffersOK'
<1>1. PICK given, spill :
        /\ given \subseteq stack[w] /\ spill \subseteq stack[w] \ given
        /\ fQshare' = [fQshare EXCEPT ![w] = @ \union given]
        /\ stack' = [stack EXCEPT ![w] = (stack[w] \ given) \ spill]
        /\ fStageBuffers' = [fStageBuffers EXCEPT ![w][0] = @ \union spill]
  <2>1. PICK given \in IF share /\ Cardinality(Workers) > 1 THEN Shareable(w) ELSE {{}} :
          LET rest == stack[w] \ given
              spill == Spill(rest, fLastLane[w]) IN
          /\ fQshare' = [fQshare EXCEPT ![w] = @ \union given]
          /\ stack' = [stack EXCEPT ![w] = rest \ spill]
          /\ fStageBuffers' = [fStageBuffers EXCEPT ![w][0] = @ \union spill]
    BY DEF FlushOneLane
  <2>2. given \subseteq stack[w]
    BY <2>1 DEF Shareable
  <2>3. Spill(stack[w] \ given, fLastLane[w]) \subseteq stack[w] \ given
    BY DEF Spill
  <2> QED
    BY <2>1, <2>2, <2>3
<1>2. /\ fStageBuffers \in [Workers -> [Stages -> SUBSET Tracks]]
      /\ stack \in [Workers -> SUBSET Tracks] /\ fQshare \in [Workers -> SUBSET Tracks]
      /\ 0 \in Stages
  BY DEF StepInv, BuffersOK, Stages
<1>3. BuffersOK'
  <2>1. given \subseteq Tracks /\ spill \subseteq Tracks
    BY <1>1, <1>2
  <2>2. fStageBuffers' \in [Workers -> [Stages -> SUBSET Tracks]]
    BY <1>1, <1>2, <2>1
  <2>3. stack' \in [Workers -> SUBSET Tracks] /\ fQshare' \in [Workers -> SUBSET Tracks]
    BY <1>1, <1>2, <2>1
  <2> QED
    BY <2>2, <2>3 DEF StepInv, BuffersOK
<1> DEFINE S == given \union spill
           dst == [x \in S |-> IF x \in given THEN InQshare(w) ELSE AtStage(w, 0)]
<1>4. /\ \A x \in given : dst[x] = InQshare(w)
      /\ \A x \in spill : dst[x] = AtStage(w, 0)
      /\ given \cap spill = {}
  BY <1>1
<1> HIDE DEF dst
<1>5. /\ \A u \in Workers : \A d \in Stages :
           /\ AtStage(u, d) \notin {InQshare(w), OnStack(w)}
           /\ AtStage(u, d) = AtStage(w, 0) <=> u = w /\ d = 0
      /\ \A u \in Workers : /\ {OnStack(u), InVec(u), AsCur(u)} \cap {InQshare(w), AtStage(w, 0)} = {}
                            /\ InQshare(u) = InQshare(w) <=> u = w
                            /\ InQshare(u) # AtStage(w, 0)
                            /\ OnStack(u) = OnStack(w) <=> u = w
                            /\ OnStack(w) \notin {InQshare(u), InVec(u), AsCur(u)}
      /\ \A d \in Basketized : InBasket(d) \notin {InQshare(w), AtStage(w, 0), OnStack(w)}
  BY Distinct
<1>6. OnlyIn(OnStack(w), S) /\ S \subseteq Live
  <2>1. OnStack(w) \in PlaceIds /\ S \in SUBSET Content(OnStack(w))
    BY <1>1, Kinds, ContentOf DEF ContentIs
  <2> HIDE DEF S
  <2> QED
    BY <2>1, Elsewhere DEF StepInv, HeldInv
<1>7. ASSUME NEW u \in Workers, NEW d \in Stages
      PROVE  fStageBuffers'[u][d] = (fStageBuffers[u][d] \ S) \union {x \in S : dst[x] = AtStage(u, d)}
  <2>1. fStageBuffers[u][d] \ S = fStageBuffers[u][d]
    BY <1>5, <1>6 DEF OnlyIn
  <2>2. AtStage(u, d) # InQshare(w) /\ (AtStage(u, d) = AtStage(w, 0) <=> u = w /\ d = 0)
    BY <1>5
  <2>3. CASE u = w /\ d = 0
    BY <1>1, <1>2, <1>4, <2>1, <2>2, <2>3
  <2>4. CASE ~ (u = w /\ d = 0)
    <3>1. fStageBuffers'[u][d] = fStageBuffers[u][d]
      BY <1>1, <1>2, <2>4
    <3> QED
      BY <1>4, <2>1, <2>2, <2>4, <3>1
  <2> QED
    BY <2>3, <2>4
<1>8. ASSUME NEW u \in Workers
      PROVE  stack'[u] = (stack[u] \ S) \union {x \in S : dst[x] = OnStack(u)}
  <2>1. u # w => stack[u] \ S = stack[u]
    BY <1>5, <1>6 DEF OnlyIn
  <2>2. OnStack(u) # InQshare(w) /\ OnStack(u) # AtStage(w, 0)
    BY <1>5
  <2> QED
    BY <1>1, <1>2, <1>4, <2>1, <2>2
<1>9. ASSUME NEW u \in Workers
      PROVE  fQshare'[u] = (fQshare[u] \ S) \union {x \in S : dst[x] = InQshare(u)}
  <2>1. fQshare[u] \ S = fQshare[u]
    BY <1>5, <1>6 DEF OnlyIn
  <2>2. InQshare(u) # AtStage(w, 0) /\ (InQshare(u) = InQshare(w) <=> u = w)
    BY <1>5
  <2> QED
    BY <1>1, <1>2, <1>4, <2>1, <2>2
<1>10. ASSUME NEW u \in Workers
       PROVE  /\ wk'[u].vec = (wk[u].vec \ S) \union {x \in S : dst[x] = InVec(u)}
              /\ Cur(u)' = (Cur(u) \ S) \union {x \in S : dst[x] = AsCur(u)}
  <2>1. wk[u].vec \ S = wk[u].vec /\ Cur(u) \ S = Cur(u) /\ Cur(u)' = Cur(u)
    BY <1>5, <1>6 DEF OnlyIn, Cur
  <2>2. {InVec(u), AsCur(u)} \cap {InQshare(w), AtStage(w, 0)} = {}
    BY <1>5
  <2> QED
    BY <1>4, <2>1, <2>2
<1>11. ASSUME NEW d \in Basketized
       PROVE  basket'[d] = (basket[d] \ S) \union {x \in S : dst[x] = InBasket(d)}
  <2>1. basket[d] \ S = basket[d] /\ InBasket(d) \notin {InQshare(w), AtStage(w, 0)}
    BY <1>5, <1>6 DEF OnlyIn
  <2> QED
    BY <1>4, <2>1
<1>12. Relocated(S, S, dst)
  BY <1>7, <1>8, <1>9, <1>10, <1>11 DEF Relocated
<1>13. \A x \in S : dst[x] \in PlaceIds
  BY <1>2, <1>4, Kinds
<1>14. Live' = Live
  BY DEF trackVars, Live
<1>15. HeldInv'
  <2> HIDE DEF S
  <2> QED
    BY <1>6, <1>12, <1>13, <1>14, Relocate DEF StepInv
<1> QED
  BY <1>3, <1>15

\* The stack is flushed before the stepping loop.
LEMMA EnterInv == ASSUME StepInv, NEW w \in Workers, Enter(w) PROVE StepInv'
<1> DEFINE flush == wk[w].flushed
           c1 == [pc |-> "loop", stage |-> 0, flush |-> flush, flushreq |-> flush, busy |-> FALSE]
           c2 == [pc |-> "feed"]
<1>1. /\ wk[w].pc = "enter" /\ wk[w] \in WorkOf /\ wk[w].vec = {} /\ FlushOneLane(w, ~ flush)
      /\ UNCHANGED basket /\ UNCHANGED trackVars
      /\ Do(w, c1) \/ Do(w, c2)
  BY DEF Enter, stages, StepInv, WorkInv
<1>0. 0 \in Stages /\ flush \in BOOLEAN
  BY <1>1 DEF Stages, WorkOf
<1> HIDE DEF flush
<1>2. /\ With(wk[w], c1) \in WorkOf /\ With(wk[w], c1).pc = "loop" /\ "loop" \notin AtHandler
      /\ "vec" \notin DOMAIN c1 /\ "cur" \notin DOMAIN c1
  BY <1>0, <1>1 DEF With, WorkOf, Pcs, AtHandler
<1>3. /\ With(wk[w], c2) \in WorkOf /\ With(wk[w], c2).pc = "feed" /\ "feed" \notin AtHandler
      /\ "vec" \notin DOMAIN c2 /\ "cur" \notin DOMAIN c2
  BY <1>1 DEF With, WorkOf, Pcs, AtHandler
<1> HIDE DEF c1, c2
<1>4. WorkInv' /\ \A v \in Workers : wk'[v].vec = wk[v].vec /\ wk'[v].cur = wk[v].cur
  BY <1>1, <1>2, <1>3, DoKeeps DEF StepInv
<1>5. HeldInv' /\ BuffersOK'
  BY <1>1, <1>4, FlushOneLaneInv
<1>6. TrackInv'
  BY <1>1, NextTrackInv DEF StepInv
<1> QED
  BY <1>4, <1>5, <1>6 DEF StepInv

\* The end of a round, with the next tracks from the stack when it was idle.
LEMMA WrapInv == ASSUME StepInv, NEW w \in Workers, Wrap(w) PROVE StepInv'
<1> DEFINE flush == NextFlush(w)
           c1 == [pc |-> "loop", stage |-> 0, flush |-> flush, busy |-> FALSE]
           c2 == [pc |-> "loop", stage |-> 0, flush |-> flush]
           c3 == [pc |-> "feed", stage |-> 0, flush |-> FALSE, flushreq |-> FALSE]
<1>1. /\ wk[w].pc \in {"loop", "tracks"} /\ wk[w] \in WorkOf /\ wk[w].vec = {}
      /\ UNCHANGED <<trackVars, basket>>
      /\ \/ Do(w, c1) /\ UNCHANGED buffers
         \/ (Do(w, c2) \/ Do(w, c3)) /\ FlushOneLane(w, TRUE)
  BY DEF Wrap, GoesOn, stages, StepInv, WorkInv
<1>2. flush \in BOOLEAN /\ 0 \in Stages
  BY DEF NextFlush, Stages
<1> HIDE DEF flush
<1>3. /\ With(wk[w], c1) \in WorkOf /\ With(wk[w], c1).pc = "loop" /\ "loop" \notin AtHandler
      /\ "vec" \notin DOMAIN c1 /\ "cur" \notin DOMAIN c1
  BY <1>1, <1>2 DEF With, WorkOf, Pcs, AtHandler
<1>4. /\ With(wk[w], c2) \in WorkOf /\ With(wk[w], c2).pc = "loop"
      /\ "vec" \notin DOMAIN c2 /\ "cur" \notin DOMAIN c2
  BY <1>1, <1>2 DEF With, WorkOf, Pcs
<1>5. /\ With(wk[w], c3) \in WorkOf /\ With(wk[w], c3).pc = "feed" /\ "feed" \notin AtHandler
      /\ "vec" \notin DOMAIN c3 /\ "cur" \notin DOMAIN c3
  BY <1>1, <1>2 DEF With, WorkOf, Pcs, AtHandler
<1> HIDE DEF c1, c2, c3
<1>6. CASE Do(w, c1) /\ UNCHANGED buffers
  BY <1>1, <1>3, <1>6, Still DEF buffers
<1>7. CASE (Do(w, c2) \/ Do(w, c3)) /\ FlushOneLane(w, TRUE)
  <2>1. WorkInv' /\ \A v \in Workers : wk'[v].vec = wk[v].vec /\ wk'[v].cur = wk[v].cur
    BY <1>1, <1>3, <1>4, <1>5, <1>7, DoKeeps DEF StepInv
  <2>2. HeldInv' /\ BuffersOK'
    BY <1>1, <1>7, <2>1, FlushOneLaneInv
  <2>3. TrackInv'
    BY <1>1, NextTrackInv DEF StepInv
  <2> QED
    BY <2>1, <2>2, <2>3 DEF StepInv
<1> QED
  BY <1>1, <1>6, <1>7

\* A track that is stepped, out of the stage buffer or out of a basket.
LEMMA StepTrackInv ==
  ASSUME StepInv, NEW w \in Workers, NEW src \in {AtStage(w, wk[w].stage), InVec(w)},
         NEW t \in Content(src), StepTrack(w, t), UNCHANGED basket,
         \A u \in Workers : wk'[u].cur = wk[u].cur,
         \A u \in Workers : wk'[u].vec = IF InVec(u) = src THEN wk[u].vec \ {t} ELSE wk[u].vec
  PROVE  TrackNext /\ TrackInv' /\ BuffersOK' /\ HeldInv'
<1> DEFINE s == wk[w].stage
<1>1. /\ s \in Stages /\ src \in PlaceIds
      /\ fStageBuffers \in [Workers -> [Stages -> SUBSET Tracks]]
      /\ stack \in [Workers -> SUBSET Tracks]
  BY Kinds DEF StepInv, BuffersOK, WorkInv, WorkOf
<1>2. t \in Live /\ t \in Tracks /\ track[t] \in Records /\ track \in [Live -> Records]
  BY <1>1 DEF StepInv, HeldInv, TrackInv, TrackTypeOK
<1> HIDE DEF s
<1>3. OnlyIn(src, {t})
  <2> DEFINE S == {t}
  <2>1. S \in SUBSET Content(src)
    OBVIOUS
  <2> HIDE DEF S
  <2>2. OnlyIn(src, S)
    BY <1>1, <2>1, Elsewhere DEF StepInv
  <2> QED
    BY <2>2 DEF S
<1>4. /\ \A u \in Workers : \A d \in Stages : AtStage(u, d) = src => u = w /\ d = s
      /\ \A u \in Workers : src \notin {OnStack(u), InQshare(u), AsCur(u)}
      /\ \A d \in Basketized : src # InBasket(d)
  BY Distinct DEF s
<1>5. /\ \A u \in Workers : stack[u] \ {t} = stack[u] /\ fQshare[u] \ {t} = fQshare[u] /\ Cur(u) \ {t} = Cur(u)
      /\ \A d \in Basketized : basket[d] \ {t} = basket[d]
      /\ \A u \in Workers : \A d \in Stages : ~ (u = w /\ d = s) => fStageBuffers[u][d] \ {t} = fStageBuffers[u][d]
      /\ \A u \in Workers : wk'[u].vec = wk[u].vec \ {t}
  BY <1>3, <1>4 DEF OnlyIn
<1> DEFINE Rest(N, dst) ==
      /\ \A u \in Workers : /\ fQshare[u] = (fQshare[u] \ {t}) \union {x \in N : dst[x] = InQshare(u)}
                            /\ Cur(u)' = (Cur(u) \ {t}) \union {x \in N : dst[x] = AsCur(u)}
                            /\ wk'[u].vec = (wk[u].vec \ {t}) \union {x \in N : dst[x] = InVec(u)}
      /\ \A d \in Basketized : basket[d] = (basket[d] \ {t}) \union {x \in N : dst[x] = InBasket(d)}
<1>6. ASSUME NEW N, NEW dst,
             \A x \in N : \/ \E d \in Stages : dst[x] = AtStage(w, d)
                          \/ dst[x] = OnStack(w)
      PROVE  Rest(N, dst)
  <2>1. /\ \A u \in Workers : \A x \in N : dst[x] \notin {InQshare(u), AsCur(u), InVec(u)}
        /\ \A d \in Basketized : \A x \in N : dst[x] # InBasket(d)
    BY <1>6, Distinct
  <2>2. \A u \in Workers : Cur(u)' = Cur(u)
    BY DEF Cur
  <2> QED
    BY <1>5, <2>1, <2>2
<1> HIDE DEF Rest
<1>7. CASE \E r \in Outcomes(t, track[t]), births \in Births(t, track[t]) :
             /\ Move(t, r, births)
             /\ fStageBuffers' = [fStageBuffers EXCEPT ![w] = Place(w, s, t, r.stage, births)]
             /\ UNCHANGED <<stack, fQshare>>
  <2>1. PICK r \in Outcomes(t, track[t]), births \in Births(t, track[t]) :
          /\ Move(t, r, births)
          /\ fStageBuffers' = [fStageBuffers EXCEPT ![w] = Place(w, s, t, r.stage, births)]
          /\ UNCHANGED <<stack, fQshare>>
    BY <1>7
  <2>2. r.stage \in Stages
    <3>1. r \in Records
      BY <1>2, OutcomesType
    <3> QED
      BY <3>1 DEF Records
  <2>3. births \in SUBSET Tracks /\ births \cap Live = {} /\ kSteppingActions \in Stages
    BY DEF Births, Stages, kSteppingActions
  <2>4. Live' = Live \union births
    BY <1>2, <2>1 DEF Move, Extend, Live
  <2>5. TrackNext
    BY <1>2, <2>1 DEF TrackNext
  <2> DEFINE dest == IF s \in UniqueFollowUp THEN FollowUp[s] ELSE r.stage
             N == {t} \union births
             dst == [x \in N |-> IF x = t THEN AtStage(w, dest) ELSE AtStage(w, kSteppingActions)]
  <2>6. dest \in Stages
    BY <1>1, <2>2, FollowUpType
  <2> HIDE DEF dest
  <2>7. \A d \in Stages :
          fStageBuffers'[w][d] = (fStageBuffers[w][d] \ {t})
            \union ((IF d = dest THEN {t} ELSE {}) \union (IF d = kSteppingActions THEN births ELSE {}))
    BY <1>1, <2>1 DEF Place, dest
  <2>8. /\ dst[t] = AtStage(w, dest)
        /\ \A x \in births : dst[x] = AtStage(w, kSteppingActions)
    BY <1>2, <2>3
  <2> HIDE DEF dst
  <2>9. ASSUME NEW u \in Workers, NEW d \in Stages
        PROVE  fStageBuffers'[u][d] = (fStageBuffers[u][d] \ {t}) \union {x \in N : dst[x] = AtStage(u, d)}
    <3>1. /\ AtStage(w, dest) = AtStage(u, d) <=> u = w /\ d = dest
          /\ AtStage(w, kSteppingActions) = AtStage(u, d) <=> u = w /\ d = kSteppingActions
      BY Distinct
    <3>2. CASE u = w
      <4>1. {x \in N : dst[x] = AtStage(u, d)}
              = (IF d = dest THEN {t} ELSE {}) \union (IF d = kSteppingActions THEN births ELSE {})
        BY <2>8, <3>1, <3>2
      <4> HIDE DEF N
      <4> QED
        BY <2>7, <3>2, <4>1
    <3>3. CASE u # w
      <4>1. fStageBuffers'[u][d] = fStageBuffers[u][d]
        BY <1>1, <2>1, <3>3
      <4>2. {x \in N : dst[x] = AtStage(u, d)} = {}
        BY <2>8, <3>1, <3>3
      <4> HIDE DEF N
      <4> QED
        BY <1>5, <3>3, <4>1, <4>2
    <3> QED
      BY <3>2, <3>3
  <2>10. \A x \in N : \E d \in Stages : dst[x] = AtStage(w, d)
    BY <2>3, <2>6, <2>8
  <2>11. \A u \in Workers : \A x \in N : dst[x] # OnStack(u)
    BY <2>10, Distinct
  <2>12. N \cap (Live \ {t}) = {} /\ Live' = (Live \ {t}) \union N
    BY <1>2, <2>3, <2>4
  <2> HIDE DEF N
  <2>13. \A u \in Workers : stack'[u] = (stack[u] \ {t}) \union {x \in N : dst[x] = OnStack(u)}
    BY <1>5, <2>1, <2>11
  <2>14. Relocated({t}, N, dst)
    <3>1. Rest(N, dst)
      BY <1>6, <2>1, <2>9, <2>10, <2>13
    <3> QED
      BY <3>1, <2>1, <2>9, <2>10, <2>13 DEF Relocated, Rest
  <2>15. HeldInv'
    BY <2>10, <2>12, <2>14, Kinds, Relocate DEF StepInv
  <2>16. BuffersOK'
    <3>1. fStageBuffers' = [fStageBuffers EXCEPT ![w] = Place(w, s, t, r.stage, births)]
      BY <2>1
    <3>2. Place(w, s, t, r.stage, births) \in [Stages -> SUBSET Tracks]
      BY <1>1, <1>2, <2>3 DEF Place
    <3>3. fStageBuffers' \in [Workers -> [Stages -> SUBSET Tracks]]
      BY <1>1, <3>1, <3>2
    <3> QED
      BY <2>1, <3>3 DEF StepInv, BuffersOK
  <2> QED
    BY <2>5, <2>15, <2>16, NextTrackInv DEF StepInv
<1>8. CASE /\ fStageBuffers' = [fStageBuffers EXCEPT ![w][s] = @ \ {t}]
           /\ UNCHANGED fQshare
           /\ \/ Survive(t) /\ stack' = [stack EXCEPT ![w] = @ \union {t}]
              \/ Finish(t) /\ UNCHANGED stack
  <2>1. TrackNext
    BY <1>2, <1>8 DEF TrackNext
  <2>2. BuffersOK'
    <3>1. fStageBuffers' \in [Workers -> [Stages -> SUBSET Tracks]]
      BY <1>1, <1>8
    <3>2. stack' \in [Workers -> SUBSET Tracks]
      BY <1>1, <1>2, <1>8
    <3> QED
      BY <1>8, <3>1, <3>2 DEF StepInv, BuffersOK
  <2>3. \A u \in Workers : \A d \in Stages : fStageBuffers'[u][d] = fStageBuffers[u][d] \ {t}
    BY <1>1, <1>5, <1>8
  <2>4. CASE Survive(t) /\ stack' = [stack EXCEPT ![w] = @ \union {t}]
    <3> DEFINE N == {t}
               dst == [x \in N |-> OnStack(w)]
    <3>1. dst[t] = OnStack(w)
      OBVIOUS
    <3> HIDE DEF dst
    <3>2. \A u \in Workers : \A d \in Stages :
            fStageBuffers'[u][d] = (fStageBuffers[u][d] \ {t}) \union {x \in N : dst[x] = AtStage(u, d)}
      BY <2>3, <3>1, Distinct
    <3>3. \A u \in Workers : stack'[u] = (stack[u] \ {t}) \union {x \in N : dst[x] = OnStack(u)}
      <4>1. \A u \in Workers : OnStack(w) = OnStack(u) <=> u = w
        BY Distinct
      <4> QED
        BY <1>1, <1>5, <2>4, <3>1, <4>1
    <3>4. Live' = Live
      BY <1>2, <2>4 DEF Survive, Live
    <3>5. Live' = (Live \ {t}) \union N /\ N \cap (Live \ {t}) = {} /\ \A x \in N : dst[x] = OnStack(w)
      BY <1>2, <3>1, <3>4
    <3> HIDE DEF N
    <3>6. Relocated({t}, N, dst)
      <4>1. Rest(N, dst)
        BY <1>6, <1>8, <3>2, <3>3, <3>5
      <4> QED
        BY <4>1, <1>8, <3>2, <3>3, <3>5 DEF Relocated, Rest
    <3> QED
      BY <2>1, <2>2, <3>5, <3>6, Kinds, Relocate, NextTrackInv DEF StepInv
  <2>5. CASE Finish(t) /\ UNCHANGED stack
    <3> DEFINE N == {}
               dst == [x \in N |-> t]
    <3>1. Live' = (Live \ {t}) \union N /\ \A x : x \notin N
      BY <2>5 DEF Finish, Live
    <3> HIDE DEF N, dst
    <3>2. \A u \in Workers : \A d \in Stages :
            fStageBuffers'[u][d] = (fStageBuffers[u][d] \ {t}) \union {x \in N : dst[x] = AtStage(u, d)}
      BY <2>3, <3>1
    <3>3. \A u \in Workers : stack'[u] = (stack[u] \ {t}) \union {x \in N : dst[x] = OnStack(u)}
      BY <1>5, <2>5, <3>1
    <3>4. Relocated({t}, N, dst)
      <4>1. Rest(N, dst)
        BY <1>6, <1>8, <3>1, <3>2, <3>3
      <4> QED
        BY <4>1, <1>8, <3>1, <3>2, <3>3 DEF Relocated, Rest
    <3> QED
      BY <2>1, <2>2, <3>1, <3>4, Relocate, NextTrackInv DEF StepInv
  <2> QED
    BY <1>8, <2>4, <2>5
<1> QED
  BY <1>7, <1>8 DEF StepTrack, Stacked, s

\* Process, a track in scalar mode.
LEMMA ScalarInv ==
  ASSUME StepInv, NEW w \in Workers, Scalar(w)
  PROVE  StepInv' /\ TrackNext
<1>1. PICK t \in fStageBuffers[w][wk[w].stage] : StepTrack(w, t)
  BY DEF Scalar
<1>2. UNCHANGED wk /\ UNCHANGED basket /\ wk[w].pc = "tracks" /\ wk[w] \in WorkOf
  BY DEF Scalar, stages, StepInv, WorkInv
<1> DEFINE src == AtStage(w, wk[w].stage)
<1>3. t \in Content(src)
  BY <1>1, <1>2, ContentOf DEF ContentIs, WorkOf
<1>4. src \in {AtStage(w, wk[w].stage), InVec(w)} /\ \A u \in Workers : InVec(u) # src
  BY Distinct
<1> HIDE DEF src
<1>5. TrackNext /\ TrackInv' /\ BuffersOK' /\ HeldInv'
  BY <1>1, <1>2, <1>3, <1>4, StepTrackInv
<1>6. WorkInv'
  BY <1>2 DEF StepInv, WorkInv
<1> QED
  BY <1>5, <1>6 DEF StepInv

\* A track of a basket.
LEMMA VectorInv ==
  ASSUME StepInv, NEW w \in Workers, Vector(w)
  PROVE  StepInv' /\ TrackNext
<1>1. PICK t \in wk[w].vec :
        /\ StepTrack(w, t)
        /\ Do(w, [vec |-> wk[w].vec \ {t}, busy |-> wk[w].busy \/ ~ Checking(w),
                  pc |-> IF wk[w].vec = {t} THEN Resume(w) ELSE "vec"])
  BY DEF Vector
<1>2. UNCHANGED basket /\ wk[w].pc = "vec" /\ wk[w] \in WorkOf /\ wk[w].cur = Null
  BY DEF Vector, stages, StepInv, WorkInv
<1>3. PICK label \in {"vec", "checked", "tracks"}, b \in BOOLEAN :
        /\ Do(w, [vec |-> wk[w].vec \ {t}, busy |-> b, pc |-> label])
        /\ wk[w].vec # {t} => label = "vec"
        /\ label = "checked" => wk[w].stage \in Basketized
  BY <1>1 DEF Resume, Checking
<1> DEFINE rest == wk[w].vec \ {t}
           c == [vec |-> rest, busy |-> b, pc |-> label]
<1>4. Do(w, c) /\ rest \in SUBSET Tracks /\ (rest # {} => label = "vec")
  BY <1>1, <1>2, <1>3 DEF WorkOf
<1> HIDE DEF rest
<1>5. /\ With(wk[w], c) \in WorkOf /\ With(wk[w], c).pc = label /\ With(wk[w], c).vec = rest
      /\ With(wk[w], c).cur = Null /\ With(wk[w], c).stage = wk[w].stage
      /\ label \in AtHandler => label = "checked"
  BY <1>2, <1>4 DEF With, WorkOf, Pcs, AtHandler
<1> HIDE DEF c
<1>6. WorkInv'
  BY <1>3, <1>4, <1>5, DoWork DEF StepInv
<1>7. /\ wk'[w].vec = rest /\ wk'[w].cur = wk[w].cur
      /\ \A u \in Workers \ {w} : wk'[u].vec = wk[u].vec /\ wk'[u].cur = wk[u].cur
  BY <1>2, <1>4, <1>5, DoFacts DEF StepInv
<1> DEFINE src == InVec(w)
<1>8. /\ t \in Content(src) /\ src \in {AtStage(w, wk[w].stage), InVec(w)}
      /\ \A u \in Workers : InVec(u) = src <=> u = w
  BY <1>1, ContentOf, Distinct DEF ContentIs
<1> HIDE DEF src
<1>9. /\ \A u \in Workers : wk'[u].cur = wk[u].cur
      /\ \A u \in Workers : wk'[u].vec = IF InVec(u) = src THEN wk[u].vec \ {t} ELSE wk[u].vec
  BY <1>7, <1>8 DEF rest
<1>10. TrackNext /\ TrackInv' /\ BuffersOK' /\ HeldInv'
  BY <1>1, <1>2, <1>8, <1>9, StepTrackInv
<1> QED
  BY <1>6, <1>10 DEF StepInv

------------------------------------------------------------------------------
(* Theorems                                                                *)

\* At the start no place has a track, and none is live.
LEMMA StepInitInv == Init => StepInv
<1> SUFFICES ASSUME Init PROVE StepInv
  OBVIOUS
<1>1. TrackInv
  BY TrackInitInv DEF Init
<1>2. BuffersOK
  BY DEF Init, BuffersOK
<1>3. Live = {}
  BY DEF Init, TrackInit, Live
<1>4. WorkInv
  <2>1. NoWork \in WorkOf /\ NoWork.pc = "feed" /\ NoWork.cur = Null /\ NoWork.vec = {}
    BY SteppingAssumption DEF NoWork, WorkOf, Pcs, Stages
  <2>2. wk = [w \in Workers |-> NoWork]
    BY DEF Init
  <2> HIDE DEF NoWork
  <2> QED
    BY <2>1, <2>2 DEF WorkInv, AtHandler
<1>5. HeldInv
  <2>1. \A w \in Workers : wk[w].vec = {} /\ Cur(w) = {}
    BY DEF Init, NoWork, Cur
  <2>2. /\ \A w \in Workers : /\ \A s \in Stages : fStageBuffers[w][s] = {}
                              /\ stack[w] = {} /\ fQshare[w] = {}
        /\ \A s \in Basketized : basket[s] = {}
    BY DEF Init
  <2>3. \A p \in PlaceIds : Content(p) = {}
    <3> SUFFICES ASSUME NEW p \in PlaceIds PROVE Content(p) = {}
      OBVIOUS
    <3>1. CASE \E w \in Workers : \E s \in Stages : p = AtStage(w, s)
      BY <2>2, <3>1, ContentOf DEF ContentIs
    <3>2. CASE \E w \in Workers : p = OnStack(w) \/ p = InQshare(w)
      BY <2>2, <3>2, ContentOf DEF ContentIs
    <3>3. CASE \E w \in Workers : p = InVec(w) \/ p = AsCur(w)
      BY <2>1, <3>3, ContentOf DEF ContentIs
    <3>4. CASE \E s \in Basketized : p = InBasket(s)
      BY <2>2, <3>4, ContentOf DEF ContentIs
    <3> QED
      BY <3>1, <3>2, <3>3, <3>4, Kinds
  <2> QED
    BY <1>3, <2>3 DEF HeldInv
<1> QED
  BY <1>1, <1>2, <1>4, <1>5 DEF StepInv

\* Every step of a worker keeps the invariant, and is a step of TrackSteps or
\* changes nothing there.
LEMMA StepNext == StepInv /\ [Next]_vars => StepInv' /\ [TrackNext]_trackVars
<1> SUFFICES ASSUME StepInv, [Next]_vars PROVE StepInv' /\ [TrackNext]_trackVars
  OBVIOUS
<1>1. CASE UNCHANGED vars
  <2>1. UNCHANGED <<trackVars, fStageBuffers, stack, fQshare, basket>> /\ UNCHANGED wk
    BY <1>1 DEF vars, buffers, stages
  <2>2. WorkInv'
    BY <2>1 DEF StepInv, WorkInv
  <2> QED
    BY <2>1, <2>2, Quiet DEF StepInv
<1>2. ASSUME NEW w \in Workers, Stop(w) \/ NoTracks(w) \/ Visit(w)
      PROVE  StepInv' /\ [TrackNext]_trackVars
  <2>1. UNCHANGED trackVars
    BY <1>2 DEF Stop, NoTracks, Visit
  <2> QED
    BY <1>2, <2>1, StopInv, NoTracksInv, VisitInv
<1>3. ASSUME NEW w \in Workers, CheckBasketizers(w) \/ EndCheck(w) \/ SkipFlush(w) \/ Unlock(w)
      PROVE  StepInv' /\ [TrackNext]_trackVars
  <2>1. UNCHANGED trackVars
    BY <1>3 DEF CheckBasketizers, EndCheck, SkipFlush, Unlock
  <2> QED
    BY <1>3, <2>1, CheckInv, SkipFlushInv, UnlockInv
<1>4. ASSUME NEW w \in Workers, Steal(w) \/ Enter(w) \/ Wrap(w)
      PROVE  StepInv' /\ [TrackNext]_trackVars
  <2>1. UNCHANGED trackVars
    BY <1>4 DEF Steal, Enter, Wrap
  <2> QED
    BY <1>4, <2>1, StealInv, EnterInv, WrapInv
<1>5. ASSUME NEW w \in Workers, FlushHandler(w) \/ Select(w) \/ AddTrack(w)
      PROVE  StepInv' /\ [TrackNext]_trackVars
  <2>1. UNCHANGED trackVars
    BY <1>5 DEF FlushHandler, Select, AddTrack
  <2> QED
    BY <1>5, <2>1, FlushHandlerInv, SelectInv, AddTrackInv
<1>6. ASSUME NEW w \in Workers, Take(w) \/ Scalar(w) \/ Vector(w)
      PROVE  StepInv' /\ [TrackNext]_trackVars
  BY <1>6, TakeInv, ScalarInv, VectorInv
<1> QED
  BY <1>1, <1>2, <1>3, <1>4, <1>5, <1>6 DEF Next

\* The invariant holds whatever the workers do.
THEOREM SteppingInvariant == Spec => []StepInv
<1> QED
  BY StepInitInv, StepNext, PTL DEF Spec

\* A live track waits in exactly one place: no thief, flush or full basket of
\* StackLikeBuffer, TaskData and Handler loses a track or gives it to two.
THEOREM SteppingOnePlace == Spec => []OnePlace
<1>1. StepInv => OnePlace
  <2> SUFFICES ASSUME StepInv, NEW t \in Live PROVE Cardinality(Places(t)) = 1
    BY DEF OnePlace
  <2>1. PICK p \in PlaceIds : Places(t) = {p}
    BY DEF StepInv, HeldInv
  <2> QED
    BY <2>1, FS_Singleton
<1> QED
  BY <1>1, SteppingInvariant, PTL

\* The worker loop takes the tracks through the stages as the handlers and the
\* event counters prescribe: what is proved of TrackSteps holds of Stepping.
THEOREM SteppingRefinesTracks == Spec => TrackSpec
<1>1. Init => TrackInit
  BY DEF Init
<1> QED
  BY <1>1, StepNext, SteppingInvariant, PTL DEF Spec, TrackSpec

\* With any number of workers, an event is reported as transported when its
\* last track has ended, and not before.
THEOREM SteppingTransportedAtTheEnd == Spec => []TransportedIsOver
BY SteppingRefinesTracks, TransportedAtTheEnd, PTL

------------------------------------------------------------------------------
(* Lanes                                                                   *)

\* A set of numbers with a bound has a greatest one, and Max chooses it.
LEMMA MaxFacts ==
  ASSUME NEW S, S \subseteq Nat, S # {}, NEW k \in Nat, \A x \in S : x <= k
  PROVE  /\ Max(S) \in S
         /\ \A x \in S : x <= Max(S)
<1> DEFINE bounds == {m \in Nat : \A x \in S : x <= m}
<1>1. PICK m \in bounds : \A n \in bounds : m <= n
  <2>1. bounds \subseteq Nat /\ k \in bounds
    OBVIOUS
  <2> HIDE DEF bounds
  <2> QED
    BY <2>1, Least
<1>2. m \in S
  <2> SUFFICES ASSUME m \notin S PROVE FALSE
    OBVIOUS
  <2>1. m \in Nat /\ \A x \in S : x < m
    OBVIOUS
  <2>2. m - 1 \in Nat
    <3>1. PICK x \in S : x \in Nat /\ x < m
      BY <2>1
    <3> QED
      BY <2>1, <3>1
  <2>3. m - 1 \in bounds
    BY <2>1, <2>2
  <2> QED
    BY <1>1, <2>1, <2>3
<1>3. \E x \in S : \A y \in S : x >= y
  BY <1>2
<1>4. Max(S) \in S /\ \A y \in S : Max(S) >= y
  BY <1>3 DEF Max
<1> QED
  BY <1>4

\* The lesser and the greater of two numbers.
LEMMA OfTwo ==
  ASSUME NEW a \in Int, NEW b \in Int
  PROVE  /\ Min({a, b}) = IF a <= b THEN a ELSE b
         /\ Max({a, b}) = IF a <= b THEN b ELSE a
<1>1. \E x \in {a, b} : \A y \in {a, b} : x <= y
  OBVIOUS
<1>2. \E x \in {a, b} : \A y \in {a, b} : x >= y
  OBVIOUS
<1>3. Min({a, b}) \in {a, b} /\ \A y \in {a, b} : Min({a, b}) <= y
  BY <1>1 DEF Min
<1>4. Max({a, b}) \in {a, b} /\ \A y \in {a, b} : Max({a, b}) >= y
  BY <1>2 DEF Max
<1> QED
  BY <1>3, <1>4

------------------------------------------------------------------------------
(* A track waits where its stage says                                      *)

\* Stages follow in the order of their numbers, but after the at-rest action, at
\* the end of a step and where the propagation sends a track back; a stage with
\* a unique follow-up leaves the handlers no choice.
LEMMA OutcomeStage ==
  ASSUME NEW t, NEW r \in Records, NEW q \in Outcomes(t, r)
  PROVE  /\ r.stage \in UniqueFollowUp => q.stage = FollowUp[r.stage]
         /\ /\ r.stage \in {kGeometryStep, kPropagation, kPostPropagation, kPostStep}
            /\ ~ (r.stage = kPropagation /\ t \in Charged)
            => q.stage > r.stage
<1>1. r.stage \in Stages /\ Default(r).stage = FollowUp[r.stage]
  BY DEF Default, Records
<1>2. Kill(r).stage = kSteppingActions /\ Kill([r EXCEPT !.stopped = TRUE]).stage = kSteppingActions
  BY DEF Kill, Records
<1>3. \A S : \A x \in Moved(r, S) : x.stage = FollowUp[r.stage]
  <2>1. Default(r) = [r EXCEPT !.stage = FollowUp[r.stage]]
    BY DEF Default
  <2> QED
    BY <2>1 DEF Moved, Records
<1>4. \A x \in Halt(t, r) : x.stage \in {kAtRest, kSteppingActions}
  BY <1>2 DEF Halt, Records
<1>5. CASE r.stage \in UniqueFollowUp
  <2>1. q = Default(r)
    BY <1>5 DEF Outcomes, UniqueFollowUp, kPreStep, kFastSim, kComputeIntL, kGeometryStep,
                kPrePropagation, kPropagation, kPostPropagation, kAlongStep, kPostStep, kAtRest
  <2>2. r.stage = kPostPropagation => FollowUp[r.stage] > r.stage
    BY <1>1, FollowUpType DEF kPostPropagation
  <2>3. r.stage \notin {kGeometryStep, kPropagation, kPostStep}
    BY <1>5 DEF UniqueFollowUp, kComputeIntL, kGeometryStep, kPrePropagation, kPropagation,
                kPostPropagation, kPostStep
  <2> QED
    BY <1>1, <2>1, <2>2, <2>3
<1>6. CASE r.stage = kGeometryStep
  <2>1. q \in GeomQueryDoIt(r)
    BY <1>6 DEF Outcomes, kPreStep, kFastSim, kGeometryStep, kPropagation, kAlongStep, kPostStep, kAtRest
  <2>2. q.stage = kPrePropagation
    BY <2>1 DEF GeomQueryDoIt, Records
  <2> QED
    BY <1>6, <2>2 DEF UniqueFollowUp, kComputeIntL, kGeometryStep, kPrePropagation, kPostPropagation
<1>7. CASE r.stage = kPropagation
  <2>1. t \notin Charged => q \in LinearPropagationDoIt(r)
    BY <1>7 DEF Outcomes, kPreStep, kFastSim, kGeometryStep, kPropagation, kAlongStep, kPostStep, kAtRest
  <2>2. t \notin Charged => q.stage \in {FollowUp[r.stage], kSteppingActions}
    BY <2>1, <1>2, <1>3 DEF LinearPropagationDoIt
  <2>3. FollowUp[r.stage] > r.stage /\ kSteppingActions > r.stage
    BY <1>7, FollowUpType DEF kPropagation, kSteppingActions
  <2> QED
    BY <1>7, <2>2, <2>3 DEF UniqueFollowUp, kComputeIntL, kPropagation, kPrePropagation, kPostPropagation
<1>8. CASE r.stage = kPostStep
  <2>1. q \in PostStepDoIt(t, r)
    BY <1>8 DEF Outcomes, kPreStep, kFastSim, kGeometryStep, kPropagation, kAlongStep, kPostStep, kAtRest
  <2>2. q.stage \in {kAtRest, kSteppingActions}
    BY <2>1, <1>1, <1>4, <1>8, FollowUpType DEF PostStepDoIt
  <2> QED
    BY <1>8, <2>2 DEF UniqueFollowUp, kComputeIntL, kPostStep, kPrePropagation, kPostPropagation,
                      kAtRest, kSteppingActions
<1> QED
  BY <1>5, <1>6, <1>7, <1>8 DEF UniqueFollowUp

\* The tracks of a worker are where their stages say; those it shares and those
\* on its stack are at the start of a step.
AtHome(w) ==
  /\ \A s \in Stages : \A t \in fStageBuffers[w][s] : track[t].stage = s
  /\ \A t \in stack[w] \union fQshare[w] : track[t].stage = kPreStep
  /\ \A t \in wk[w].vec \union Cur(w) : track[t].stage = wk[w].stage

BasketsAtHome == \A s \in Basketized : \A t \in basket[s] : track[t].stage = s

HomeInv == (\A w \in Workers : AtHome(w)) /\ BasketsAtHome

\* The tracks of the places are live.
LEMMA HeldLive ==
  ASSUME HeldInv
  PROVE  /\ \A w \in Workers : /\ \A s \in Stages : fStageBuffers[w][s] \subseteq Live
                               /\ stack[w] \subseteq Live /\ fQshare[w] \subseteq Live
                               /\ wk[w].vec \subseteq Live /\ Cur(w) \subseteq Live
         /\ \A s \in Basketized : basket[s] \subseteq Live
BY Kinds, ContentOf DEF HeldInv, ContentIs

\* A track of a stage buffer or of a basket being stepped is in no other place.
LEMMA Alone ==
  ASSUME HeldInv, NEW w \in Workers, NEW s \in Stages, NEW t \in fStageBuffers[w][s] \union wk[w].vec
  PROVE  /\ t \in Live
         /\ \A u \in Workers : t \notin stack[u] \union fQshare[u] \union Cur(u)
         /\ \A u \in Workers : u # w => /\ t \notin wk[u].vec
                                        /\ \A d \in Stages : t \notin fStageBuffers[u][d]
         /\ t \in fStageBuffers[w][s] => /\ t \notin wk[w].vec
                                         /\ \A d \in Stages : d # s => t \notin fStageBuffers[w][d]
         /\ t \in wk[w].vec => \A d \in Stages : t \notin fStageBuffers[w][d]
         /\ \A d \in Basketized : t \notin basket[d]
<1>1. t \in Live
  BY HeldLive
<1>2. PICK src \in {AtStage(w, s), InVec(w)} :
        t \in Content(src) /\ src = IF t \in fStageBuffers[w][s] THEN AtStage(w, s) ELSE InVec(w)
  BY ContentOf DEF ContentIs
<1>3. OnlyIn(src, {t})
  <2>1. src \in PlaceIds
    BY <1>2, Kinds
  <2> QED
    BY <1>2, <2>1, Elsewhere
<1>4. /\ \A u \in Workers : src \notin {OnStack(u), InQshare(u), AsCur(u)}
      /\ \A u \in Workers : u # w => InVec(u) # src /\ \A d \in Stages : AtStage(u, d) # src
      /\ src = AtStage(w, s) => InVec(w) # src /\ \A d \in Stages : d # s => AtStage(w, d) # src
      /\ src = InVec(w) => \A d \in Stages : AtStage(w, d) # src
      /\ \A d \in Basketized : InBasket(d) # src
  BY <1>2, Distinct
<1>5. \A u \in Workers : /\ t \notin stack[u] \union fQshare[u] \union Cur(u)
                         /\ InVec(u) # src => t \notin wk[u].vec
                         /\ \A d \in Stages : AtStage(u, d) # src => t \notin fStageBuffers[u][d]
  BY <1>3, <1>4 DEF OnlyIn
<1>6. \A d \in Basketized : t \notin basket[d]
  BY <1>3, <1>4 DEF OnlyIn
<1>7. t \in fStageBuffers[w][s] => src = AtStage(w, s)
  BY <1>2
<1>8. t \in wk[w].vec => src = InVec(w)
  <2> SUFFICES ASSUME t \in wk[w].vec, src # InVec(w) PROVE FALSE
    OBVIOUS
  <2> QED
    BY <1>5
<1> QED
  BY <1>1, <1>4, <1>5, <1>6, <1>7, <1>8

\* No propagation is basketized that may send a track back to the geometry stage.
NothingSentBack == kPropagation \notin Basketized \/ Charged = {}

\* A step changes one track of those that were alive, and no generation.
OthersKept(t) ==
  \A x \in Live \intersect Live' : /\ track'[x].generation = track[x].generation
                                   /\ x # t => track'[x] = track[x]

\* A stage sends a track on, and its secondaries to the stepping actions.
SentOn(w, t, dest, births) ==
  /\ dest \in Stages /\ births \subseteq Tracks \ Live
  /\ Live' = Live \union births /\ track'[t].stage = dest
  /\ \A x \in births : track'[x].stage = kSteppingActions
  /\ \A u \in Workers : u # w => fStageBuffers'[u] = fStageBuffers[u]
  /\ \A d \in Stages :
       fStageBuffers'[w][d] = (fStageBuffers[w][d] \ {t})
         \union (IF d = dest THEN {t} ELSE {}) \union (IF d = kSteppingActions THEN births ELSE {})
  /\ UNCHANGED <<stack, fLastLane, fQshare>>
  /\ NothingSentBack /\ wk[w].stage \in Basketized => dest > wk[w].stage

\* The stepping actions take a track out of the stage buffers.
TakenOut(w, t) ==
  /\ \A u \in Workers : u # w => fStageBuffers'[u] = fStageBuffers[u]
  /\ \A d \in Stages : fStageBuffers'[w][d] = fStageBuffers[w][d] \ {t}
  /\ fQshare' = fQshare

\* The track goes on with the next step.
BackOnStack(w, t) ==
  /\ TakenOut(w, t)
  /\ Live' = Live /\ track'[t].stage = kPreStep
  /\ Stacked(w, t, track[t].generation)

Ended(w, t) ==
  /\ TakenOut(w, t)
  /\ Live' = Live \ {t}
  /\ UNCHANGED <<stack, fLastLane>>

\* What StepTrack does to the track and to the buffers.
LEMMA StepTrackCases ==
  ASSUME StepInv, HomeInv, NEW w \in Workers,
         NEW t \in fStageBuffers[w][wk[w].stage] \union wk[w].vec, StepTrack(w, t)
  PROVE  /\ OthersKept(t) /\ todo' = todo
         /\ \/ \E dest, births : SentOn(w, t, dest, births)
            \/ BackOnStack(w, t)
            \/ Ended(w, t)
<1> DEFINE s == wk[w].stage
<1>1. /\ s \in Stages /\ fStageBuffers \in [Workers -> [Stages -> SUBSET Tracks]]
      /\ wk[w].vec \subseteq Tracks
  BY DEF StepInv, WorkInv, BuffersOK, WorkOf
<1>2. t \in Live /\ track \in [Live -> Records] /\ track[t].stage = s
  <2>1. t \in Live /\ track \in [Live -> Records]
    BY <1>1, HeldLive DEF StepInv, TrackInv, TrackTypeOK
  <2> QED
    BY <1>1, <2>1 DEF HomeInv, AtHome
<1>3. \A d \in Stages : d # s => fStageBuffers[w][d] \ {t} = fStageBuffers[w][d]
  BY <1>1, Alone DEF StepInv
<1>4. CASE \E r \in Outcomes(t, track[t]), births \in Births(t, track[t]) :
             /\ Move(t, r, births)
             /\ fStageBuffers' = [fStageBuffers EXCEPT ![w] = Place(w, s, t, r.stage, births)]
             /\ UNCHANGED <<stack, fLastLane, fQshare>>
  <2>1. PICK r \in Outcomes(t, track[t]), births \in Births(t, track[t]) :
          /\ Move(t, r, births)
          /\ fStageBuffers' = [fStageBuffers EXCEPT ![w] = Place(w, s, t, r.stage, births)]
          /\ UNCHANGED <<stack, fLastLane, fQshare>>
    BY <1>4
  <2>2. r \in Records /\ r.generation = track[t].generation /\ r.stage \in Stages
    <3>1. r \in Records /\ r.generation = track[t].generation
      BY <1>2, OutcomesType
    <3> QED
      BY <3>1 DEF Records
  <2>3. /\ s \in UniqueFollowUp => r.stage = FollowUp[s]
        /\ NothingSentBack /\ s \in Basketized => r.stage > s
    <3>1. track[t] \in Records
      BY <1>2
    <3>2. s \in Basketized => s \in {kGeometryStep, kPropagation, kPostPropagation, kPostStep}
      BY SteppingAssumption
    <3> QED
      BY <1>2, <3>1, <3>2, OutcomeStage DEF NothingSentBack
  <2>4. births \subseteq Tracks \ Live
    BY DEF Births
  <2> DEFINE new == NewTrack(track[t].event, track[t].generation + 1, kSteppingActions)
  <2>5. /\ track' = Extend([track EXCEPT ![t] = r], births, new)
        /\ new.stage = kSteppingActions
    BY <2>1 DEF Move, NewTrack
  <2> HIDE DEF new
  <2>6. /\ Live' = Live \union births
        /\ \A x \in births : track'[x] = new
        /\ track'[t] = r
        /\ \A x \in Live : x # t => track'[x] = track[x]
    BY <1>2, <2>4, <2>5 DEF Extend, Live
  <2>7. OthersKept(t)
    BY <2>2, <2>6 DEF OthersKept
  <2>8. \A d \in Stages :
          fStageBuffers'[w][d] = (fStageBuffers[w][d] \ {t})
            \union ((IF d = r.stage THEN {t} ELSE {}) \union (IF d = kSteppingActions THEN births ELSE {}))
    BY <1>1, <2>1, <2>3 DEF Place
  <2>9. SentOn(w, t, r.stage, births)
    BY <1>1, <2>1, <2>2, <2>3, <2>4, <2>5, <2>6, <2>8 DEF SentOn
  <2>10. todo' = todo
    BY <2>1 DEF Move
  <2> QED
    BY <2>7, <2>9, <2>10
<1>5. CASE /\ fStageBuffers' = [fStageBuffers EXCEPT ![w][s] = @ \ {t}]
           /\ UNCHANGED fQshare
           /\ \/ Survive(t) /\ Stacked(w, t, track[t].generation)
              \/ Finish(t) /\ UNCHANGED <<stack, fLastLane>>
  <2>1. TakenOut(w, t) /\ todo' = todo
    <3>1. todo' = todo
      BY <1>5 DEF Survive, Finish
    <3> QED
      BY <1>1, <1>3, <1>5, <3>1 DEF TakenOut
  <2>2. CASE Survive(t) /\ Stacked(w, t, track[t].generation)
    <3>1. track' = [track EXCEPT ![t] = AfterStep(track[t])] /\ s = kSteppingActions
      BY <1>2, <2>2 DEF Survive
    <3>2. AfterStep(track[t]).generation = track[t].generation /\ AfterStep(track[t]).stage = kPreStep
      BY <1>2, <3>1, AfterStepFacts, FollowUpType
    <3>3. /\ Live' = Live /\ track'[t] = AfterStep(track[t])
          /\ \A x \in Live : x # t => track'[x] = track[x]
      BY <1>2, <3>1 DEF Live
    <3>4. OthersKept(t)
      BY <3>2, <3>3 DEF OthersKept
    <3> QED
      BY <2>1, <2>2, <3>2, <3>3, <3>4 DEF BackOnStack
  <2>3. CASE Finish(t) /\ UNCHANGED <<stack, fLastLane>>
    <3>1. track' = [y \in Live \ {t} |-> track[y]]
      BY <2>3 DEF Finish
    <3>2. Live' = Live \ {t} /\ \A x \in Live \ {t} : track'[x] = track[x]
      BY <3>1 DEF Live
    <3> QED
      BY <2>1, <2>3, <3>2 DEF Ended, OthersKept
  <2> QED
    BY <1>5, <2>2, <2>3
<1> QED
  BY <1>4, <1>5 DEF StepTrack

\* The locals of the workers after a step of one of them.
LEMMA DoLocals ==
  ASSUME WorkInv, NEW w \in Workers, NEW c, Do(w, c)
  PROVE  /\ \A v \in Workers : v # w => wk'[v] = wk[v]
         /\ wk'[w].pc = IF "pc" \in DOMAIN c THEN c["pc"] ELSE wk[w].pc
         /\ wk'[w].stage = IF "stage" \in DOMAIN c THEN c["stage"] ELSE wk[w].stage
         /\ wk'[w].flush = IF "flush" \in DOMAIN c THEN c["flush"] ELSE wk[w].flush
         /\ wk'[w].flushreq = IF "flushreq" \in DOMAIN c THEN c["flushreq"] ELSE wk[w].flushreq
         /\ wk'[w].flushed = IF "flushed" \in DOMAIN c THEN c["flushed"] ELSE wk[w].flushed
         /\ wk'[w].busy = IF "busy" \in DOMAIN c THEN c["busy"] ELSE wk[w].busy
         /\ wk'[w].vec = IF "vec" \in DOMAIN c THEN c["vec"] ELSE wk[w].vec
         /\ wk'[w].cur = IF "cur" \in DOMAIN c THEN c["cur"] ELSE wk[w].cur
<1>1. /\ wk'[w] = With(wk[w], c)
      /\ \A v \in Workers : v # w => wk'[v] = wk[v]
      /\ wk[w] \in WorkOf
  BY DoFacts
<1>2. /\ With(wk[w], c).pc = IF "pc" \in DOMAIN c THEN c["pc"] ELSE wk[w].pc
      /\ With(wk[w], c).stage = IF "stage" \in DOMAIN c THEN c["stage"] ELSE wk[w].stage
      /\ With(wk[w], c).flush = IF "flush" \in DOMAIN c THEN c["flush"] ELSE wk[w].flush
      /\ With(wk[w], c).flushreq = IF "flushreq" \in DOMAIN c THEN c["flushreq"] ELSE wk[w].flushreq
      /\ With(wk[w], c).flushed = IF "flushed" \in DOMAIN c THEN c["flushed"] ELSE wk[w].flushed
      /\ With(wk[w], c).busy = IF "busy" \in DOMAIN c THEN c["busy"] ELSE wk[w].busy
      /\ With(wk[w], c).vec = IF "vec" \in DOMAIN c THEN c["vec"] ELSE wk[w].vec
      /\ With(wk[w], c).cur = IF "cur" \in DOMAIN c THEN c["cur"] ELSE wk[w].cur
  BY <1>1 DEF With, WorkOf
<1> QED
  BY <1>1, <1>2

------------------------------------------------------------------------------
(* The last lane                                                           *)

\* m is the last lane with tracks of S, the first one if there are none.
IsTop(m, S) ==
  \/ S = {} /\ m = 0
  \/ (\E t \in S : Lane(t) = m) /\ \A t \in S : Lane(t) <= m

LaneInv == \A w \in Workers : IsTop(fLastLane[w], stack[w])

\* The lane of a generation, the last one for the rest.
LaneOf(g) == IF g <= fNlanes - 1 THEN g ELSE fNlanes - 1

\* Every generation has a lane.
LEMMA LaneNumber ==
  ASSUME NEW g \in Nat
  PROVE  Min({g, fNlanes - 1}) = LaneOf(g) /\ LaneOf(g) \in 0 .. fNlanes - 1
<1>1. fNlanes \in Nat \ {0}
  BY SteppingAssumption
<1>2. Min({g, fNlanes - 1}) = IF g <= fNlanes - 1 THEN g ELSE fNlanes - 1
  BY <1>1, OfTwo
<1> QED
  BY <1>1, <1>2 DEF LaneOf

\* The lane of a live track.
LEMMA LaneFacts ==
  ASSUME StepInv, NEW t \in Live
  PROVE  /\ Lane(t) = LaneOf(track[t].generation) /\ Lane(t) \in 0 .. fNlanes - 1
         /\ track[t].generation \in Nat
<1>1. track[t].generation \in Nat
  BY DEF StepInv, TrackInv, TrackTypeOK, Records
<1> QED
  BY <1>1, LaneNumber DEF Lane

\* TopLane finds the last lane with tracks.
LEMMA TopFacts ==
  ASSUME StepInv, NEW S \in SUBSET Live
  PROVE  IsTop(TopLane(S), S)
<1>1. CASE S = {}
  BY <1>1 DEF IsTop, TopLane
<1>2. CASE S # {}
  <2> DEFINE lanes == {Lane(t) : t \in S}
  <2>1. fNlanes - 1 \in Nat
    BY SteppingAssumption
  <2>2. lanes \subseteq Nat /\ lanes # {} /\ \A x \in lanes : x <= fNlanes - 1
    BY <1>2, <2>1, LaneFacts
  <2>3. TopLane(S) = Max(lanes)
    BY <1>2 DEF TopLane
  <2> HIDE DEF lanes
  <2>4. Max(lanes) \in lanes /\ \A x \in lanes : x <= Max(lanes)
    BY <2>1, <2>2, MaxFacts
  <2> QED
    BY <2>3, <2>4 DEF IsTop, lanes
<1> QED
  BY <1>1, <1>2

\* The last lane is the greatest of the lanes.
LEMMA TopIsMax ==
  ASSUME StepInv, NEW S \in SUBSET Live, S # {}, NEW m, IsTop(m, S)
  PROVE  m = Max({Lane(t) : t \in S})
<1> DEFINE lanes == {Lane(t) : t \in S}
<1>1. m \in lanes /\ \A x \in lanes : x <= m
  BY DEF IsTop
<1>2. lanes \subseteq Nat
  BY LaneFacts
<1> HIDE DEF lanes
<1>3. Max(lanes) \in lanes /\ \A x \in lanes : x <= Max(lanes)
  BY <1>1, <1>2, MaxFacts
<1>4. Max(lanes) <= m /\ m <= Max(lanes) /\ m \in Nat /\ Max(lanes) \in Nat
  BY <1>1, <1>2, <1>3
<1>5. m = Max(lanes)
  BY <1>4
<1> QED
  BY <1>5 DEF lanes

\* FlushOneLane gives some tracks away and injects others: none are injected
\* only when the stack is empty after it.
Flushes(w, share, given, spill) ==
  /\ given \subseteq stack[w] /\ spill \subseteq stack[w] \ given
  /\ ~ share => given = {}
  /\ \A u \in Workers : u # w => /\ fStageBuffers'[u] = fStageBuffers[u]
                                 /\ stack'[u] = stack[u] /\ fQshare'[u] = fQshare[u]
                                 /\ fLastLane'[u] = fLastLane[u]
  /\ fQshare'[w] = fQshare[w] \union given
  /\ stack'[w] = (stack[w] \ given) \ spill
  /\ fStageBuffers'[w][0] = fStageBuffers[w][0] \union spill
  /\ \A d \in Stages : d # 0 => fStageBuffers'[w][d] = fStageBuffers[w][d]
  /\ fLastLane'[w] = TopLane(stack'[w])
  /\ stack'[w] # {} => spill # {}
  /\ Injected(w) <=> spill # {}

\* What FlushOneLane does, where the last lane is that of the stack.
LEMMA FlushFacts ==
  ASSUME StepInv, NEW w \in Workers, NEW share \in BOOLEAN, IsTop(fLastLane[w], stack[w]),
         fLastLane \in [Workers -> 0 .. fNlanes - 1], FlushOneLane(w, share)
  PROVE  \E given, spill : Flushes(w, share, given, spill)
<1>1. /\ fStageBuffers \in [Workers -> [Stages -> SUBSET Tracks]] /\ 0 \in Stages
      /\ stack \in [Workers -> SUBSET Tracks] /\ fQshare \in [Workers -> SUBSET Tracks]
  BY DEF StepInv, BuffersOK, Stages
<1>2. PICK given \in IF share /\ Cardinality(Workers) > 1 THEN Shareable(w) ELSE {{}} :
        LET rest == stack[w] \ given
            spill == Spill(rest, fLastLane[w]) IN
        /\ fQshare' = [fQshare EXCEPT ![w] = @ \union given]
        /\ stack' = [stack EXCEPT ![w] = rest \ spill]
        /\ fLastLane' = [fLastLane EXCEPT ![w] =
                           TopLane({t \in rest \ spill : Lane(t) <= fLastLane[w]})]
        /\ fStageBuffers' = [fStageBuffers EXCEPT ![w][0] = @ \union spill]
  BY DEF FlushOneLane
<1> DEFINE rest == stack[w] \ given
           last == fLastLane[w]
           spill == Spill(rest, last)
<1>3. stack[w] \subseteq Live /\ \A t \in stack[w] : Lane(t) \in 0 .. fNlanes - 1 /\ Lane(t) <= last
  <2>1. stack[w] \subseteq Live
    BY HeldLive DEF StepInv
  <2> QED
    BY <2>1, LaneFacts DEF IsTop
<1>4. /\ given \subseteq stack[w] /\ (~ share => given = {})
      /\ \A t \in given, u \in rest : Lane(t) <= Lane(u)
  <2>1. CASE given = {}
    BY <2>1
  <2>2. CASE given # {}
    <3>1. given \in Shareable(w) /\ share
      BY <1>2, <2>2
    <3>2. {t \in stack[w] : Lane(t) <= last} = stack[w]
      BY <1>3
    <3> QED
      BY <2>2, <3>1, <3>2 DEF Shareable
  <2> QED
    BY <2>1, <2>2
<1>5. spill \subseteq rest
  BY DEF Spill
<1>6. ASSUME rest # {}
      PROVE  spill # {}
  <2>1. PICK x \in stack[w] : Lane(x) = last
    BY <1>4, <1>6 DEF IsTop
  <2>2. PICK y \in rest : Lane(y) = last
    <3>1. CASE x \in rest
      BY <2>1, <3>1
    <3>2. CASE x \notin rest
      <4>1. PICK y \in rest : TRUE
        BY <1>6
      <4>2. x \in given /\ Lane(x) <= Lane(y) /\ Lane(y) <= last /\ Lane(y) \in Nat /\ Lane(x) \in Nat
        BY <1>3, <1>4, <3>2, <4>1
      <4> QED
        BY <2>1, <4>1, <4>2
    <3> QED
      BY <3>1, <3>2
  <2>3. {u \in rest : Lane(u) > Lane(y)} = {}
    BY <1>3, <2>2
  <2>4. Cardinality({u \in rest : Lane(u) > Lane(y)}) < fNmaxBuffSpill
    <3>1. fNmaxBuffSpill \in Nat \ {0}
      BY SteppingAssumption
    <3>2. Cardinality({u \in rest : Lane(u) > Lane(y)}) = 0
      BY <2>3, FS_EmptySet
    <3> QED
      BY <3>1, <3>2
  <2>5. y \in spill
    BY <1>3, <2>2, <2>4 DEF Spill
  <2> QED
    BY <2>5
<1>7. {t \in rest \ spill : Lane(t) <= last} = rest \ spill
  BY <1>3
<1> HIDE DEF spill
<1>8. /\ stack'[w] = rest \ spill
      /\ fLastLane'[w] = TopLane(rest \ spill)
      /\ fQshare'[w] = fQshare[w] \union given
      /\ fStageBuffers'[w][0] = fStageBuffers[w][0] \union spill
      /\ \A d \in Stages : d # 0 => fStageBuffers'[w][d] = fStageBuffers[w][d]
  BY <1>1, <1>2, <1>7 DEF spill
<1>9. \A u \in Workers : u # w => /\ fStageBuffers'[u] = fStageBuffers[u]
                                  /\ stack'[u] = stack[u] /\ fQshare'[u] = fQshare[u]
                                  /\ fLastLane'[u] = fLastLane[u]
  BY <1>1, <1>2
<1>10. Injected(w) <=> spill # {}
  <2>1. stack[w] \cap fStageBuffers[w][0] = {}
    <3>1. OnStack(w) # AtStage(w, 0)
      BY Distinct
    <3> QED
      BY <1>1, <3>1, Apart, Kinds, ContentOf DEF ContentIs, StepInv
  <2> QED
    BY <1>5, <1>8, <2>1 DEF Injected
<1> QED
  BY <1>4, <1>5, <1>6, <1>8, <1>9, <1>10 DEF Flushes

------------------------------------------------------------------------------
(* What the actions do to the locals and to the buffers of a worker        *)

\* The tracks of the places are live after a step too.
LEMMA HeldLiveNext ==
  ASSUME HeldInv'
  PROVE  /\ \A w \in Workers : /\ \A s \in Stages : fStageBuffers'[w][s] \subseteq Live'
                               /\ stack'[w] \subseteq Live' /\ fQshare'[w] \subseteq Live'
                               /\ wk'[w].vec \subseteq Live' /\ Cur(w)' \subseteq Live'
         /\ \A s \in Basketized : basket'[s] \subseteq Live'
BY Kinds, ContentOf DEF HeldInv, ContentIs

OthersAlike(w) == \A u \in Workers : u # w => wk'[u] = wk[u]

SameRound(w) ==
  /\ wk'[w].stage = wk[w].stage /\ wk'[w].busy = wk[w].busy
  /\ wk'[w].flush = wk[w].flush /\ wk'[w].flushreq = wk[w].flushreq

SameHands(w) == wk'[w].vec = wk[w].vec /\ wk'[w].cur = wk[w].cur

\* Steps that only change where a worker is.
LEMMA IdleLocals ==
  ASSUME StepInv, NEW w \in Workers,
         \/ Stop(w) \/ NoTracks(w) \/ CheckBasketizers(w) \/ EndCheck(w) \/ SkipFlush(w) \/ Unlock(w)
  PROVE  /\ UNCHANGED <<trackVars, buffers, basket>>
         /\ OthersAlike(w) /\ SameRound(w) /\ SameHands(w)
         /\ ~ NoTracks(w) => wk'[w].flushed = wk[w].flushed
<1>1. UNCHANGED <<trackVars, buffers, basket>> /\ WorkInv
  BY DEF Stop, NoTracks, CheckBasketizers, EndCheck, SkipFlush, Unlock, stages, StepInv
<1>2. \/ UNCHANGED wk
      \/ \E label : Do(w, [pc |-> label])
      \/ NoTracks(w) /\ Do(w, [pc |-> "enter", flushed |-> TRUE])
  BY DEF Stop, NoTracks, CheckBasketizers, EndCheck, SkipFlush, Unlock
<1>3. CASE UNCHANGED wk
  BY <1>1, <1>3 DEF OthersAlike, SameRound, SameHands
<1>4. CASE \E label : Do(w, [pc |-> label])
  <2>1. PICK label : Do(w, [pc |-> label])
    BY <1>4
  <2> DEFINE c == [pc |-> label]
  <2>2. Do(w, c) /\ DOMAIN c = {"pc"}
    BY <2>1
  <2> HIDE DEF c
  <2> QED
    BY <1>1, <2>2, DoLocals DEF OthersAlike, SameRound, SameHands
<1>5. CASE NoTracks(w) /\ Do(w, [pc |-> "enter", flushed |-> TRUE])
  <2> DEFINE c == [pc |-> "enter", flushed |-> TRUE]
  <2>1. Do(w, c) /\ DOMAIN c = {"pc", "flushed"}
    BY <1>5
  <2> HIDE DEF c
  <2> QED
    BY <1>1, <1>5, <2>1, DoLocals DEF OthersAlike, SameRound, SameHands
<1> QED
  BY <1>2, <1>3, <1>4, <1>5

\* A buffer has tracks if their number is not zero.
LEMMA CountsTracks ==
  ASSUME NEW S \in SUBSET Tracks
  PROVE  Cardinality(S) \in Nat /\ (Cardinality(S) = 0 <=> S = {})
<1>1. IsFiniteSet(S)
  BY FiniteAssumption, FS_Subset
<1> QED
  BY <1>1, FS_CardinalityType, FS_EmptySet

\* A worker goes to the next stage that is due.
LEMMA VisitLocals ==
  ASSUME StepInv, NEW w \in Workers, Visit(w)
  PROVE  /\ GoesOn(w) /\ OthersAlike(w) /\ SameHands(w)
         /\ UNCHANGED <<trackVars, buffers, basket, fActive, fLock, fCheckLock, refused>>
         /\ wk'[w].stage \in Due(w) /\ \A d \in Due(w) : wk'[w].stage <= d
         /\ wk'[w].flush = wk[w].flush /\ wk'[w].flushreq = wk[w].flushreq
         /\ wk'[w].flushed = wk[w].flushed
         /\ wk'[w].pc \in {"tracks", "flush", "check"}
         /\ wk'[w].busy <=> (wk[w].busy \/ fStageBuffers[w][wk'[w].stage] # {})
         /\ wk'[w].stage \notin Basketized => wk'[w].pc = "tracks"
         /\ wk'[w].pc = "flush" => fStageBuffers[w][wk'[w].stage] = {}
         /\ wk'[w].pc = "tracks" => fStageBuffers[w][wk'[w].stage] # {}
<1>1. /\ GoesOn(w) /\ WorkInv
      /\ UNCHANGED <<trackVars, buffers, basket, fActive, fLock, fCheckLock, refused>>
  BY DEF Visit, StepInv
<1>2. PICK s \in Due(w) :
        /\ \A d \in Due(w) : s <= d
        /\ IF s \in Basketized
             THEN \E label : /\ Do(w, [pc |-> label, stage |-> s,
                                       busy |-> wk[w].busy \/ Cardinality(fStageBuffers[w][s]) > 0])
                             /\ label \in {"check", IF Cardinality(fStageBuffers[w][s]) > 0
                                                    THEN "tracks" ELSE "flush"}
             ELSE Do(w, [pc |-> "tracks", stage |-> s, busy |-> TRUE])
  BY DEF Visit
<1>3. s \in Stages /\ fStageBuffers[w][s] \in SUBSET Tracks /\ wk[w].busy \in BOOLEAN
  <2>1. s \in Stages
    BY DEF Due, Stages, kSteppingActions, StepInv, WorkInv, WorkOf
  <2> QED
    BY <2>1 DEF StepInv, BuffersOK, WorkInv, WorkOf
<1>4. /\ Cardinality(fStageBuffers[w][s]) > 0 <=> fStageBuffers[w][s] # {}
      /\ s \notin Basketized => fStageBuffers[w][s] # {}
  BY <1>3, CountsTracks DEF Due
<1>5. PICK label \in {"tracks", "flush", "check"}, b \in BOOLEAN :
        /\ Do(w, [pc |-> label, stage |-> s, busy |-> b])
        /\ b <=> (wk[w].busy \/ fStageBuffers[w][s] # {})
        /\ s \notin Basketized => label = "tracks"
        /\ label = "flush" => fStageBuffers[w][s] = {}
        /\ label = "tracks" => fStageBuffers[w][s] # {}
  <2>1. CASE s \in Basketized
    <3>1. PICK label : /\ Do(w, [pc |-> label, stage |-> s,
                                 busy |-> wk[w].busy \/ Cardinality(fStageBuffers[w][s]) > 0])
                       /\ label \in {"check", IF Cardinality(fStageBuffers[w][s]) > 0
                                              THEN "tracks" ELSE "flush"}
      BY <1>2, <2>1
    <3> DEFINE b == wk[w].busy \/ Cardinality(fStageBuffers[w][s]) > 0
    <3>2. b \in BOOLEAN /\ (b <=> (wk[w].busy \/ fStageBuffers[w][s] # {}))
      BY <1>4
    <3>3. Do(w, [pc |-> label, stage |-> s, busy |-> b])
      BY <3>1
    <3>4. /\ label \in {"tracks", "flush", "check"}
          /\ label = "flush" => fStageBuffers[w][s] = {}
          /\ label = "tracks" => fStageBuffers[w][s] # {}
      BY <1>4, <3>1
    <3> HIDE DEF b
    <3> QED
      BY <2>1, <3>2, <3>3, <3>4
  <2>2. CASE s \notin Basketized
    BY <1>2, <1>4, <2>2
  <2> QED
    BY <2>1, <2>2
<1> DEFINE c == [pc |-> label, stage |-> s, busy |-> b]
<1>6. /\ Do(w, c) /\ DOMAIN c = {"pc", "stage", "busy"}
      /\ c["pc"] = label /\ c["stage"] = s /\ c["busy"] = b
  BY <1>5
<1> HIDE DEF c
<1>7. OthersAlike(w) /\ SameHands(w)
  BY <1>1, <1>6, DoLocals DEF OthersAlike, SameHands
<1>8. /\ wk'[w].pc = label /\ wk'[w].stage = s /\ wk'[w].busy = b
      /\ wk'[w].flush = wk[w].flush /\ wk'[w].flushreq = wk[w].flushreq
      /\ wk'[w].flushed = wk[w].flushed
  BY <1>1, <1>6, DoLocals
<1> QED
  BY <1>1, <1>2, <1>5, <1>7, <1>8

\* A worker enters the loop of the stages, or goes back for more tracks.
LEMMA EnterLocals ==
  ASSUME StepInv, NEW w \in Workers, Enter(w)
  PROVE  /\ wk[w].pc = "enter" /\ FlushOneLane(w, ~ wk[w].flushed)
         /\ UNCHANGED <<trackVars, basket, fActive, fLock, fCheckLock, refused>>
         /\ OthersAlike(w) /\ SameHands(w) /\ wk'[w].flushed = wk[w].flushed
         /\ IF Injected(w) \/ wk[w].flushed
              THEN /\ wk'[w].pc = "loop" /\ wk'[w].stage = 0 /\ wk'[w].busy = FALSE
                   /\ wk'[w].flush = wk[w].flushed /\ wk'[w].flushreq = wk[w].flushed
              ELSE wk'[w].pc = "feed" /\ SameRound(w)
<1>1. /\ wk[w].pc = "enter" /\ FlushOneLane(w, ~ wk[w].flushed) /\ WorkInv
      /\ UNCHANGED <<trackVars, basket, fActive, fLock, fCheckLock, refused>>
  BY DEF Enter, stages, StepInv
<1>2. CASE Injected(w) \/ wk[w].flushed
  <2> DEFINE c == [pc |-> "loop", stage |-> 0, flush |-> wk[w].flushed, flushreq |-> wk[w].flushed,
                   busy |-> FALSE]
  <2>1. /\ Do(w, c) /\ DOMAIN c = {"pc", "stage", "flush", "flushreq", "busy"}
        /\ c["pc"] = "loop" /\ c["stage"] = 0 /\ c["busy"] = FALSE
        /\ c["flush"] = wk[w].flushed /\ c["flushreq"] = wk[w].flushed
    BY <1>2 DEF Enter
  <2> HIDE DEF c
  <2> QED
    BY <1>1, <1>2, <2>1, DoLocals DEF OthersAlike, SameHands
<1>3. CASE ~ (Injected(w) \/ wk[w].flushed)
  <2> DEFINE c == [pc |-> "feed"]
  <2>1. Do(w, c) /\ DOMAIN c = {"pc"} /\ c["pc"] = "feed"
    BY <1>3 DEF Enter
  <2> HIDE DEF c
  <2> QED
    BY <1>1, <1>3, <2>1, DoLocals DEF OthersAlike, SameHands, SameRound
<1> QED
  BY <1>2, <1>3

\* At the end of a round a worker starts another one or leaves the loop.
LEMMA WrapLocals ==
  ASSUME StepInv, NEW w \in Workers, Wrap(w)
  PROVE  /\ GoesOn(w) /\ Due(w) = {}
         /\ UNCHANGED <<trackVars, basket, fActive, fLock, fCheckLock, refused>>
         /\ OthersAlike(w) /\ SameHands(w) /\ wk'[w].flushed = wk[w].flushed
         /\ wk'[w].stage = 0
         /\ \/ /\ wk[w].busy /\ UNCHANGED buffers
               /\ wk'[w].pc = "loop" /\ wk'[w].busy = FALSE
               /\ wk'[w].flush = NextFlush(w) /\ wk'[w].flushreq = wk[w].flushreq
            \/ /\ ~ wk[w].busy /\ FlushOneLane(w, TRUE) /\ Injected(w)
               /\ wk'[w].pc = "loop" /\ wk'[w].busy = FALSE
               /\ wk'[w].flush = NextFlush(w) /\ wk'[w].flushreq = wk[w].flushreq
            \/ /\ ~ wk[w].busy /\ FlushOneLane(w, TRUE) /\ ~ Injected(w)
               /\ wk'[w].pc = "feed"
<1>1. /\ GoesOn(w) /\ Due(w) = {} /\ WorkInv /\ wk[w].busy \in BOOLEAN
      /\ UNCHANGED <<trackVars, basket, fActive, fLock, fCheckLock, refused>>
  BY DEF Wrap, stages, StepInv, WorkInv, WorkOf
<1>2. CASE wk[w].busy
  <2> DEFINE c == [pc |-> "loop", stage |-> 0, flush |-> NextFlush(w), busy |-> FALSE]
  <2>1. /\ Do(w, c) /\ DOMAIN c = {"pc", "stage", "flush", "busy"} /\ UNCHANGED buffers
        /\ c["pc"] = "loop" /\ c["stage"] = 0 /\ c["busy"] = FALSE /\ c["flush"] = NextFlush(w)
    BY <1>2 DEF Wrap
  <2> HIDE DEF c
  <2> QED
    BY <1>1, <1>2, <2>1, DoLocals DEF OthersAlike, SameHands
<1>3. CASE ~ wk[w].busy /\ Injected(w)
  <2> DEFINE c == [pc |-> "loop", stage |-> 0, flush |-> NextFlush(w)]
  <2>1. /\ Do(w, c) /\ DOMAIN c = {"pc", "stage", "flush"} /\ FlushOneLane(w, TRUE)
        /\ c["pc"] = "loop" /\ c["stage"] = 0 /\ c["flush"] = NextFlush(w)
    BY <1>3 DEF Wrap
  <2> HIDE DEF c
  <2>2. wk'[w].busy = FALSE
    BY <1>1, <1>3, <2>1, DoLocals
  <2> QED
    BY <1>1, <1>3, <2>1, <2>2, DoLocals DEF OthersAlike, SameHands
<1>4. CASE ~ wk[w].busy /\ ~ Injected(w)
  <2> DEFINE c == [pc |-> "feed", stage |-> 0, flush |-> FALSE, flushreq |-> FALSE]
  <2>1. /\ Do(w, c) /\ DOMAIN c = {"pc", "stage", "flush", "flushreq"} /\ FlushOneLane(w, TRUE)
        /\ c["pc"] = "feed" /\ c["stage"] = 0
    BY <1>4 DEF Wrap
  <2> HIDE DEF c
  <2> QED
    BY <1>1, <1>4, <2>1, DoLocals DEF OthersAlike, SameHands
<1> QED
  BY <1>1, <1>2, <1>3, <1>4

\* The flags and the locks of the handlers, and the last lanes.
FlagsOK ==
  /\ fLastLane \in [Workers -> 0 .. fNlanes - 1]
  /\ fActive \in [Basketized -> BOOLEAN]
  /\ refused \in [Basketized -> BOOLEAN]
  /\ fLock \in [Basketized -> Workers \union {Null}]
  /\ fCheckLock \in [Basketized -> Workers \union {Null}]

\* A worker takes the basket of a handler, or gives up.
LEMMA FlushHandlerLocals ==
  ASSUME StepInv, FlagsOK, NEW w \in Workers, FlushHandler(w)
  PROVE  /\ wk[w].pc \in {"drain", "flush"} /\ wk[w].stage \in Basketized
         /\ wk[w].pc = "flush" => fActive[wk[w].stage]
         /\ wk[w].vec = {} /\ wk[w].cur = Null
         /\ UNCHANGED <<trackVars, buffers, fActive, fCheckLock>>
         /\ OthersAlike(w) /\ SameRound(w) /\ wk'[w].flushed = wk[w].flushed
         /\ wk'[w].cur = wk[w].cur
         /\ \A d \in Basketized : d # wk[w].stage => basket'[d] = basket[d] /\ refused'[d] = refused[d]
         /\ \/ /\ wk'[w].pc = Resume(w) /\ wk'[w].vec = wk[w].vec
               /\ UNCHANGED <<basket, fLock>>
               /\ refused'[wk[w].stage] = (basket[wk[w].stage] # {})
            \/ /\ wk'[w].pc = "unlock" /\ wk'[w].vec = basket[wk[w].stage]
               /\ basket'[wk[w].stage] = {}
               /\ refused'[wk[w].stage] = FALSE
         /\ fLock' \in {fLock, [fLock EXCEPT ![wk[w].stage] = w]}
         /\ \E b \in BOOLEAN : refused' = [refused EXCEPT ![wk[w].stage] = b]
<1> DEFINE s == wk[w].stage
<1>1. /\ wk[w].pc \in {"drain", "flush"} /\ s \in Basketized /\ WorkInv
      /\ wk[w].vec = {} /\ wk[w].cur = Null /\ basket \in [Basketized -> SUBSET Tracks]
      /\ refused \in [Basketized -> BOOLEAN]
      /\ wk[w].pc = "flush" => fActive[s]
      /\ UNCHANGED <<trackVars, buffers, fActive, fCheckLock>>
  BY DEF FlushHandler, StepInv, WorkInv, AtHandler, BuffersOK, FlagsOK
<1>2. CASE fLock[s] # Null \/ (wk[w].pc = "drain" /\ basket[s] = {})
  <2> DEFINE c == [pc |-> Resume(w)]
             b == basket[s] # {}
  <2>1. /\ Do(w, c) /\ DOMAIN c = {"pc"} /\ c["pc"] = Resume(w) /\ UNCHANGED <<basket, fLock>>
        /\ refused' = [refused EXCEPT ![s] = b] /\ b \in BOOLEAN
    BY <1>2 DEF FlushHandler
  <2> HIDE DEF c
  <2>2. /\ OthersAlike(w) /\ SameRound(w) /\ SameHands(w)
        /\ wk'[w].flushed = wk[w].flushed /\ wk'[w].pc = Resume(w)
    BY <1>1, <2>1, DoLocals DEF OthersAlike, SameRound, SameHands
  <2> HIDE DEF b
  <2>3. refused'[s] = b /\ \A d \in Basketized : d # s => refused'[d] = refused[d]
    BY <1>1, <2>1
  <2>4. refused'[s] = (basket[s] # {})
    BY <2>3 DEF b
  <2>5. \E x \in BOOLEAN : refused' = [refused EXCEPT ![s] = x]
    BY <2>1
  <2> QED
    BY <1>1, <2>1, <2>2, <2>3, <2>4, <2>5 DEF SameHands
<1>3. CASE ~ (fLock[s] # Null \/ (wk[w].pc = "drain" /\ basket[s] = {}))
  <2> DEFINE c == [pc |-> "unlock", vec |-> basket[s]]
  <2>1. /\ Do(w, c) /\ DOMAIN c = {"pc", "vec"} /\ c["pc"] = "unlock" /\ c["vec"] = basket[s]
        /\ basket' = [basket EXCEPT ![s] = {}] /\ fLock' = [fLock EXCEPT ![s] = w]
        /\ refused' = [refused EXCEPT ![s] = FALSE]
    BY <1>3 DEF FlushHandler
  <2> HIDE DEF c
  <2>2. /\ OthersAlike(w) /\ SameRound(w) /\ wk'[w].flushed = wk[w].flushed
        /\ wk'[w].cur = wk[w].cur /\ wk'[w].pc = "unlock" /\ wk'[w].vec = basket[s]
    BY <1>1, <2>1, DoLocals DEF OthersAlike, SameRound
  <2>3. /\ refused'[s] = FALSE /\ basket'[s] = {}
        /\ \A d \in Basketized : d # s => basket'[d] = basket[d] /\ refused'[d] = refused[d]
    BY <1>1, <2>1
  <2>4. \E x \in BOOLEAN : refused' = [refused EXCEPT ![s] = x]
    BY <2>1
  <2> QED
    BY <1>1, <2>1, <2>2, <2>3, <2>4
<1> QED
  BY <1>2, <1>3

\* A worker takes a track of its stage for the handler.
LEMMA SelectLocals ==
  ASSUME StepInv, NEW w \in Workers, Select(w)
  PROVE  /\ wk[w].pc = "tracks" /\ wk[w].stage \in Basketized /\ wk[w].vec = {} /\ wk[w].cur = Null
         /\ UNCHANGED <<trackVars, stack, fLastLane, fQshare, stages>>
         /\ OthersAlike(w) /\ SameRound(w) /\ wk'[w].flushed = wk[w].flushed
         /\ wk'[w].pc = "add" /\ wk'[w].vec = wk[w].vec
         /\ wk'[w].cur \in fStageBuffers[w][wk[w].stage]
         /\ \A u \in Workers : u # w => fStageBuffers'[u] = fStageBuffers[u]
         /\ \A d \in Stages : d # wk[w].stage => fStageBuffers'[w][d] = fStageBuffers[w][d]
         /\ fStageBuffers'[w][wk[w].stage] = fStageBuffers[w][wk[w].stage] \ {wk'[w].cur}
<1>1. /\ wk[w].pc = "tracks" /\ wk[w].stage \in Basketized /\ WorkInv
      /\ wk[w].vec = {} /\ wk[w].cur = Null /\ wk[w].stage \in Stages
      /\ fStageBuffers \in [Workers -> [Stages -> SUBSET Tracks]]
      /\ UNCHANGED <<trackVars, stack, fLastLane, fQshare, stages>>
  BY DEF Select, StepInv, WorkInv, WorkOf, BuffersOK
<1>2. PICK t \in fStageBuffers[w][wk[w].stage] :
        /\ fStageBuffers' = [fStageBuffers EXCEPT ![w][wk[w].stage] = @ \ {t}]
        /\ Do(w, [pc |-> "add", cur |-> t])
  BY DEF Select
<1> DEFINE c == [pc |-> "add", cur |-> t]
<1>3. Do(w, c) /\ DOMAIN c = {"pc", "cur"} /\ c["pc"] = "add" /\ c["cur"] = t
  BY <1>2
<1> HIDE DEF c
<1>4. /\ OthersAlike(w) /\ SameRound(w) /\ wk'[w].flushed = wk[w].flushed
      /\ wk'[w].pc = "add" /\ wk'[w].vec = wk[w].vec /\ wk'[w].cur = t
  BY <1>1, <1>3, DoLocals DEF OthersAlike, SameRound
<1> QED
  BY <1>1, <1>2, <1>4

\* The track of a worker goes to the basket, or takes the full basket.
LEMMA AddTrackLocals ==
  ASSUME StepInv, FlagsOK, NEW w \in Workers, AddTrack(w)
  PROVE  /\ wk[w].pc = "add" /\ wk[w].stage \in Basketized /\ wk[w].vec = {}
         /\ Cur(w) = {wk[w].cur} /\ wk'[w].cur = Null
         /\ UNCHANGED <<trackVars, buffers, fActive, fLock, fCheckLock>>
         /\ OthersAlike(w) /\ SameRound(w) /\ wk'[w].flushed = wk[w].flushed
         /\ \A d \in Basketized : d # wk[w].stage => basket'[d] = basket[d] /\ refused'[d] = refused[d]
         /\ \/ /\ wk'[w].pc = "vec" /\ wk'[w].vec = basket[wk[w].stage] \union Cur(w)
               /\ basket'[wk[w].stage] = {}
            \/ /\ wk'[w].pc = "tracks" /\ wk'[w].vec = wk[w].vec
               /\ basket'[wk[w].stage] = basket[wk[w].stage] \union Cur(w)
         /\ refused' \in {refused, [refused EXCEPT ![wk[w].stage] = FALSE]}
<1> DEFINE s == wk[w].stage
           filled == basket[s] \union {wk[w].cur}
<1>1. /\ wk[w].pc = "add" /\ s \in Basketized /\ WorkInv
      /\ wk[w].vec = {} /\ wk[w].cur # Null /\ basket \in [Basketized -> SUBSET Tracks]
      /\ UNCHANGED <<trackVars, buffers, fActive, fLock, fCheckLock>>
  BY DEF AddTrack, StepInv, WorkInv, AtHandler, BuffersOK
<1>2. Cur(w) = {wk[w].cur}
  BY <1>1 DEF Cur
<1>3. CASE Cardinality(filled) >= fThreshold
  <2> DEFINE c == [pc |-> "vec", vec |-> filled, cur |-> Null]
  <2>1. /\ Do(w, c) /\ DOMAIN c = {"pc", "vec", "cur"} /\ c["pc"] = "vec" /\ c["vec"] = filled
        /\ c["cur"] = Null
        /\ basket' = [basket EXCEPT ![s] = {}] /\ refused' = [refused EXCEPT ![s] = FALSE]
    BY <1>3 DEF AddTrack, Taken
  <2> HIDE DEF c
  <2> QED
    BY <1>1, <1>2, <2>1, DoLocals DEF OthersAlike, SameRound
<1>4. CASE ~ (Cardinality(filled) >= fThreshold)
  <2> DEFINE c == [pc |-> "tracks", cur |-> Null]
  <2>1. /\ Do(w, c) /\ DOMAIN c = {"pc", "cur"} /\ c["pc"] = "tracks" /\ c["cur"] = Null
        /\ basket' = [basket EXCEPT ![s] = filled] /\ UNCHANGED refused
    BY <1>4 DEF AddTrack
  <2> HIDE DEF c
  <2> QED
    BY <1>1, <1>2, <2>1, DoLocals DEF OthersAlike, SameRound
<1> QED
  BY <1>3, <1>4

\* A worker steps a track of its stage, or of a basket.
LEMMA StepLocals ==
  ASSUME StepInv, HomeInv, NEW w \in Workers, Scalar(w) \/ Vector(w)
  PROVE  \E t \in fStageBuffers[w][wk[w].stage] \union wk[w].vec :
           /\ OthersKept(t) /\ OthersAlike(w) /\ UNCHANGED stages /\ todo' = todo
           /\ \/ \E dest, births : SentOn(w, t, dest, births)
              \/ BackOnStack(w, t)
              \/ Ended(w, t)
           /\ wk[w].cur = Null /\ wk'[w].cur = Null
           /\ wk'[w].stage = wk[w].stage /\ wk'[w].flush = wk[w].flush
           /\ wk'[w].flushreq = wk[w].flushreq /\ wk'[w].flushed = wk[w].flushed
           /\ \/ /\ wk[w].pc = "tracks" /\ wk' = wk /\ wk[w].vec = {}
                 /\ t \in fStageBuffers[w][wk[w].stage]
              \/ /\ wk[w].pc = "vec" /\ t \in wk[w].vec /\ wk'[w].vec = wk[w].vec \ {t}
                 /\ wk'[w].busy = (wk[w].busy \/ ~ Checking(w))
                 /\ wk'[w].pc = IF wk[w].vec = {t} THEN Resume(w) ELSE "vec"
<1>1. WorkInv /\ wk[w].stage \in Stages
  BY DEF StepInv, WorkInv, WorkOf
<1>2. CASE Scalar(w)
  <2>1. PICK t \in fStageBuffers[w][wk[w].stage] : StepTrack(w, t)
    BY <1>2 DEF Scalar
  <2>2. /\ wk[w].pc = "tracks" /\ wk' = wk /\ UNCHANGED stages
        /\ wk[w].vec = {} /\ wk[w].cur = Null
    BY <1>1, <1>2 DEF Scalar, WorkInv
  <2>3. /\ OthersKept(t) /\ todo' = todo
        /\ \/ \E dest, births : SentOn(w, t, dest, births)
           \/ BackOnStack(w, t)
           \/ Ended(w, t)
    BY <2>1, StepTrackCases
  <2> QED
    BY <2>1, <2>2, <2>3 DEF OthersAlike
<1>3. CASE Vector(w)
  <2>1. PICK t \in wk[w].vec :
          /\ StepTrack(w, t)
          /\ Do(w, [vec |-> wk[w].vec \ {t}, busy |-> wk[w].busy \/ ~ Checking(w),
                    pc |-> IF wk[w].vec = {t} THEN Resume(w) ELSE "vec"])
    BY <1>3 DEF Vector
  <2>2. wk[w].pc = "vec" /\ wk[w].cur = Null /\ UNCHANGED stages
    BY <1>1, <1>3 DEF Vector, WorkInv
  <2> DEFINE c == [vec |-> wk[w].vec \ {t}, busy |-> wk[w].busy \/ ~ Checking(w),
                   pc |-> IF wk[w].vec = {t} THEN Resume(w) ELSE "vec"]
  <2>3. /\ Do(w, c) /\ DOMAIN c = {"vec", "busy", "pc"} /\ c["vec"] = wk[w].vec \ {t}
        /\ c["busy"] = (wk[w].busy \/ ~ Checking(w))
        /\ c["pc"] = IF wk[w].vec = {t} THEN Resume(w) ELSE "vec"
    BY <2>1
  <2> HIDE DEF c
  <2>4. OthersAlike(w)
    BY <1>1, <2>3, DoLocals DEF OthersAlike
  <2>5. /\ wk'[w].cur = Null /\ wk'[w].stage = wk[w].stage /\ wk'[w].flush = wk[w].flush
        /\ wk'[w].flushreq = wk[w].flushreq /\ wk'[w].flushed = wk[w].flushed
        /\ wk'[w].vec = wk[w].vec \ {t} /\ wk'[w].busy = (wk[w].busy \/ ~ Checking(w))
        /\ wk'[w].pc = IF wk[w].vec = {t} THEN Resume(w) ELSE "vec"
    BY <1>1, <2>2, <2>3, DoLocals
  <2>6. /\ OthersKept(t) /\ todo' = todo
        /\ \/ \E dest, births : SentOn(w, t, dest, births)
           \/ BackOnStack(w, t)
           \/ Ended(w, t)
    BY <2>1, StepTrackCases
  <2> QED
    BY <2>1, <2>2, <2>4, <2>5, <2>6
<1> QED
  BY <1>2, <1>3

\* A worker takes a primary, or finds tracks others share.
LEMMA TakeLocals ==
  ASSUME StepInv, NEW w \in Workers, Take(w)
  PROVE  /\ wk[w].pc = "feed" /\ OthersAlike(w) /\ SameHands(w) /\ SameRound(w)
         /\ wk'[w].flushed = FALSE
         /\ wk'[w].pc = "enter" \/ (wk'[w].pc = "feed" /\ todo' # {})
         /\ UNCHANGED <<fStageBuffers, fQshare, basket, fActive, fLock, fCheckLock, refused>>
         /\ \E t \in todo : /\ Dispatch(t) /\ Stacked(w, t, 0) /\ OthersKept(t)
                            /\ t \notin Live /\ Live' = Live \union {t}
                            /\ track'[t].generation = 0 /\ track'[t].stage = kPreStep
<1>1. /\ wk[w].pc = "feed" /\ WorkInv /\ todo \cap Live = {}
      /\ UNCHANGED <<fStageBuffers, fQshare, basket, fActive, fLock, fCheckLock, refused>>
  BY DEF Take, stages, StepInv, TrackInv, TrackTypeOK
<1>2. PICK t \in todo : Dispatch(t) /\ Stacked(w, t, 0)
  BY DEF Take
<1>3. \/ Do(w, [pc |-> "enter", flushed |-> FALSE, room |-> Bsize])
      \/ Do(w, [flushed |-> FALSE, room |-> wk[w].room - 1]) /\ todo' # {}
  BY DEF Take
<1>5. /\ OthersAlike(w) /\ SameHands(w) /\ SameRound(w)
      /\ wk'[w].flushed = FALSE
      /\ wk'[w].pc = "enter" \/ (wk'[w].pc = "feed" /\ todo' # {})
  <2>1. CASE Do(w, [pc |-> "enter", flushed |-> FALSE, room |-> Bsize])
    <3> DEFINE c == [pc |-> "enter", flushed |-> FALSE, room |-> Bsize]
    <3>1. /\ Do(w, c) /\ DOMAIN c = {"pc", "flushed", "room"} /\ c["pc"] = "enter"
          /\ c["flushed"] = FALSE
      BY <2>1
    <3> HIDE DEF c
    <3> QED
      BY <1>1, <3>1, DoLocals DEF OthersAlike, SameHands, SameRound
  <2>2. CASE Do(w, [flushed |-> FALSE, room |-> wk[w].room - 1]) /\ todo' # {}
    <3> DEFINE c == [flushed |-> FALSE, room |-> wk[w].room - 1]
    <3>1. Do(w, c) /\ DOMAIN c = {"flushed", "room"} /\ c["flushed"] = FALSE
      BY <2>2
    <3> HIDE DEF c
    <3> QED
      BY <1>1, <2>2, <3>1, DoLocals DEF OthersAlike, SameHands, SameRound
  <2> QED
    BY <1>3, <2>1, <2>2
<1>6. /\ t \notin Live /\ Live' = Live \union {t} /\ \A x \in Live : track'[x] = track[x]
      /\ track'[t] = NewTrack(PrimaryOf[t], 0, kPreStep)
  BY <1>1, <1>2 DEF Dispatch, Extend, Live
<1>7. OthersKept(t)
  BY <1>6 DEF OthersKept
<1> QED
  BY <1>1, <1>2, <1>5, <1>6, <1>7 DEF NewTrack

\* Tracks of a share queue go to the first stage of the worker that takes them.
LEMMA StealLocals ==
  ASSUME StepInv, NEW w \in Workers, Steal(w)
  PROVE  /\ wk[w].pc = "feed" /\ wk'[w].pc = "enter" /\ wk'[w].flushed = FALSE
         /\ OthersAlike(w) /\ SameHands(w) /\ SameRound(w)
         /\ UNCHANGED <<trackVars, stack, fLastLane, stages>>
         /\ \A u \in Workers : fQshare'[u] \subseteq fQshare[u]
         /\ \A u \in Workers : u # w => fStageBuffers'[u] = fStageBuffers[u]
         /\ \A d \in Stages : d # 0 => fStageBuffers'[w][d] = fStageBuffers[w][d]
         /\ \E v \in Workers : fStageBuffers'[w][0] \subseteq fStageBuffers[w][0] \union fQshare[v]
<1>1. /\ wk[w].pc = "feed" /\ WorkInv /\ 0 \in Stages
      /\ fStageBuffers \in [Workers -> [Stages -> SUBSET Tracks]]
      /\ fQshare \in [Workers -> SUBSET Tracks]
      /\ UNCHANGED <<trackVars, stack, fLastLane, stages>>
  BY DEF Steal, StepInv, BuffersOK, Stages
<1>2. PICK v \in Workers : \E S \in SUBSET fQshare[v] :
        /\ fQshare' = [fQshare EXCEPT ![v] = @ \ S]
        /\ fStageBuffers' = [fStageBuffers EXCEPT ![w][0] = @ \union S]
  BY DEF Steal
<1> DEFINE c == [pc |-> "enter", flushed |-> FALSE]
<1>3. Do(w, c) /\ DOMAIN c = {"pc", "flushed"} /\ c["pc"] = "enter" /\ c["flushed"] = FALSE
  BY DEF Steal
<1> HIDE DEF c
<1>4. /\ wk'[w].pc = "enter" /\ wk'[w].flushed = FALSE
      /\ OthersAlike(w) /\ SameHands(w) /\ SameRound(w)
  BY <1>1, <1>3, DoLocals DEF OthersAlike, SameHands, SameRound
<1> QED
  BY <1>1, <1>2, <1>4

------------------------------------------------------------------------------
(* The steps keep the tracks at home and the last lanes right              *)

Action(w) ==
  \/ Stop(w) \/ Take(w) \/ Steal(w) \/ NoTracks(w) \/ Enter(w)
  \/ Visit(w) \/ Wrap(w)
  \/ CheckBasketizers(w) \/ EndCheck(w) \/ FlushHandler(w) \/ SkipFlush(w) \/ Unlock(w)
  \/ Scalar(w) \/ Select(w) \/ AddTrack(w) \/ Vector(w)

\* The last lane after a track of a generation is added.
LEMMA StackedLane ==
  ASSUME FlagsOK, NEW w \in Workers, NEW t, NEW g \in Nat, Stacked(w, t, g)
  PROVE  /\ fLastLane' = [fLastLane EXCEPT ![w] = IF fLastLane[w] <= LaneOf(g) THEN LaneOf(g) ELSE fLastLane[w]]
         /\ LaneOf(g) \in 0 .. fNlanes - 1
         /\ fLastLane[w] \in 0 .. fNlanes - 1
<1>1. Min({g, fNlanes - 1}) = LaneOf(g) /\ LaneOf(g) \in 0 .. fNlanes - 1
  BY LaneNumber
<1>2. fLastLane[w] \in 0 .. fNlanes - 1
  BY DEF FlagsOK
<1>3. Max({fLastLane[w], LaneOf(g)}) = IF fLastLane[w] <= LaneOf(g) THEN LaneOf(g) ELSE fLastLane[w]
  <2>1. fLastLane[w] \in Int /\ LaneOf(g) \in Int
    BY <1>1, <1>2
  <2> QED
    BY <2>1, OfTwo
<1> QED
  BY <1>1, <1>2, <1>3 DEF Stacked

\* Flags stay flags, and lanes stay lanes.
LEMMA FlagsNext ==
  ASSUME StepInv, HomeInv, LaneInv, FlagsOK, NEW w \in Workers, Action(w)
  PROVE  FlagsOK'
<1>1. \/ fLastLane' = fLastLane
      \/ \E m \in 0 .. fNlanes - 1 : fLastLane' = [fLastLane EXCEPT ![w] = m]
  <2>1. CASE Enter(w) \/ Wrap(w)
    <3>1. \/ UNCHANGED fLastLane
          \/ \E share \in BOOLEAN : FlushOneLane(w, share)
      <4>1. wk[w].flushed \in BOOLEAN
        BY DEF StepInv, WorkInv, WorkOf
      <4> QED
        BY <2>1, <4>1 DEF Enter, Wrap, buffers
    <3>2. ASSUME NEW share \in BOOLEAN, FlushOneLane(w, share)
          PROVE  \E S \in SUBSET stack[w] : fLastLane' = [fLastLane EXCEPT ![w] = TopLane(S)]
      BY <3>2 DEF FlushOneLane, Spill
    <3>3. \A S \in SUBSET stack[w] : TopLane(S) \in 0 .. fNlanes - 1
      <4> SUFFICES ASSUME NEW S \in SUBSET stack[w] PROVE TopLane(S) \in 0 .. fNlanes - 1
        OBVIOUS
      <4>1. S \subseteq Live /\ fNlanes \in Nat \ {0}
        BY HeldLive, SteppingAssumption DEF StepInv
      <4>2. IsTop(TopLane(S), S)
        BY <4>1, TopFacts
      <4>3. \A t \in S : Lane(t) \in 0 .. fNlanes - 1
        BY <4>1, LaneFacts
      <4> QED
        BY <4>1, <4>2, <4>3 DEF IsTop
    <3> QED
      BY <3>1, <3>2, <3>3
  <2>2. CASE Take(w)
    <3>1. PICK t \in todo : Stacked(w, t, 0)
      BY <2>2 DEF Take
    <3> QED
      BY <3>1, StackedLane
  <2>3. CASE Scalar(w) \/ Vector(w)
    <3>1. PICK t \in fStageBuffers[w][wk[w].stage] \union wk[w].vec : StepTrack(w, t)
      BY <2>3 DEF Scalar, Vector
    <3>2. track[t].generation \in Nat
      <4>1. t \in Live
        BY HeldLive DEF StepInv, WorkInv, WorkOf
      <4> QED
        BY <4>1, LaneFacts
    <3>3. fLastLane' = fLastLane \/ Stacked(w, t, track[t].generation)
      BY <3>1 DEF StepTrack
    <3> QED
      BY <3>2, <3>3, StackedLane
  <2>4. CASE ~ (Enter(w) \/ Wrap(w) \/ Take(w) \/ Scalar(w) \/ Vector(w))
    BY <2>4 DEF Action, Stop, Steal, NoTracks, Visit, CheckBasketizers, EndCheck, FlushHandler, SkipFlush,
                Unlock, Select, AddTrack, buffers
  <2> QED
    BY <2>1, <2>2, <2>3, <2>4
<1>2. /\ fActive \in [Basketized -> BOOLEAN] /\ refused \in [Basketized -> BOOLEAN]
      /\ fLock \in [Basketized -> Workers \union {Null}]
      /\ fCheckLock \in [Basketized -> Workers \union {Null}]
  BY DEF FlagsOK
<1>3. fActive' \in [Basketized -> BOOLEAN]
  BY <1>2 DEF Action, Stop, Take, Steal, NoTracks, Enter, Visit, Wrap, CheckBasketizers, EndCheck, FlushHandler,
              SkipFlush, Unlock, Scalar, Select, AddTrack, Vector, stages
<1>4. /\ fLock' \in [Basketized -> Workers \union {Null}]
      /\ fCheckLock' \in [Basketized -> Workers \union {Null}]
  <2>1. \/ fLock' = fLock
        \/ \E v \in {w, Null} : fLock' = [fLock EXCEPT ![wk[w].stage] = v]
    BY DEF Action, Stop, Take, Steal, NoTracks, Enter, Visit, Wrap, CheckBasketizers, EndCheck, FlushHandler,
           SkipFlush, Unlock, Scalar, Select, AddTrack, Vector, stages
  <2>2. \/ fCheckLock' = fCheckLock
        \/ \E v \in {w, Null} : fCheckLock' = [fCheckLock EXCEPT ![wk[w].stage] = v]
    BY DEF Action, Stop, Take, Steal, NoTracks, Enter, Visit, Wrap, CheckBasketizers, EndCheck, FlushHandler,
           SkipFlush, Unlock, Scalar, Select, AddTrack, Vector, stages
  <2> QED
    BY <1>2, <2>1, <2>2
<1>5. refused' \in [Basketized -> BOOLEAN]
  <2>1. CASE FlushHandler(w)
    BY <1>2, <2>1, FlushHandlerLocals
  <2>2. CASE ~ FlushHandler(w)
    BY <1>2, <2>2 DEF Action, Stop, Take, Steal, NoTracks, Enter, Visit, Wrap, CheckBasketizers, EndCheck,
                      SkipFlush, Unlock, Scalar, Select, AddTrack, Vector, stages
  <2> QED
    BY <2>1, <2>2
<1>6. fLastLane' \in [Workers -> 0 .. fNlanes - 1]
  BY <1>1 DEF FlagsOK
<1> QED
  BY <1>3, <1>4, <1>5, <1>6 DEF FlagsOK

\* The lane of a track that goes on does not change.
LEMMA LaneKept ==
  ASSUME StepInv, StepInv', NEW t, OthersKept(t), NEW x \in Live \intersect Live'
  PROVE  Lane(x)' = Lane(x)
<1>1. Lane(x) = LaneOf(track[x].generation) /\ track[x].generation \in Nat
  BY LaneFacts
<1>2. track'[x].generation = track[x].generation
  BY DEF OthersKept
<1>3. Min({track'[x].generation, fNlanes - 1}) = LaneOf(track[x].generation)
  BY <1>1, <1>2, LaneNumber
<1> QED
  BY <1>1, <1>3 DEF Lane

\* A stack that does not change keeps its last lane.
LEMMA TopKept ==
  ASSUME StepInv, StepInv', NEW t, OthersKept(t), NEW u \in Workers, IsTop(fLastLane'[u], stack'[u]),
         stack'[u] \subseteq stack[u]
  PROVE  IsTop(fLastLane[u], stack[u])'
<1>1. stack'[u] \subseteq Live \intersect Live'
  BY HeldLive, HeldLiveNext DEF StepInv
<1>2. \A x \in stack'[u] : Lane(x)' = Lane(x)
  BY <1>1, LaneKept
<1> QED
  BY <1>2 DEF IsTop

\* A track that is added is on the last lane or below.
LEMMA TopStacked ==
  ASSUME StepInv, StepInv', FlagsOK, NEW w \in Workers, IsTop(fLastLane[w], stack[w]),
         NEW t \in Live', OthersKept(t), NEW g \in Nat, track'[t].generation = g, Stacked(w, t, g)
  PROVE  IsTop(fLastLane[w], stack[w])'
<1>1. stack \in [Workers -> SUBSET Tracks] /\ fLastLane \in [Workers -> 0 .. fNlanes - 1]
  BY DEF StepInv, BuffersOK, FlagsOK
<1>2. /\ stack'[w] = stack[w] \union {t}
      /\ fLastLane'[w] = IF fLastLane[w] <= LaneOf(g) THEN LaneOf(g) ELSE fLastLane[w]
      /\ fLastLane[w] \in 0 .. fNlanes - 1 /\ LaneOf(g) \in 0 .. fNlanes - 1
  BY <1>1, StackedLane DEF Stacked
<1>3. stack[w] \subseteq Live \intersect Live'
  BY <1>2, HeldLive, HeldLiveNext DEF StepInv
<1>4. \A x \in stack[w] : Lane(x)' = Lane(x) /\ Lane(x) \in 0 .. fNlanes - 1
  BY <1>3, LaneKept, LaneFacts
<1>5. Lane(t)' = LaneOf(g)
  BY LaneNumber DEF Lane
<1>6. \A x \in stack'[w] : Lane(x)' <= fLastLane'[w]
  BY <1>2, <1>4, <1>5 DEF IsTop
<1>7. \E x \in stack'[w] : Lane(x)' = fLastLane'[w]
  <2>1. CASE fLastLane[w] <= LaneOf(g)
    BY <1>2, <1>5, <2>1
  <2>2. CASE ~ (fLastLane[w] <= LaneOf(g))
    <3>1. stack[w] # {}
      <4> SUFFICES ASSUME stack[w] = {} PROVE FALSE
        OBVIOUS
      <4>1. fLastLane[w] = 0
        BY DEF IsTop
      <4> QED
        BY <1>2, <2>2, <4>1
    <3>2. PICK x \in stack[w] : Lane(x) = fLastLane[w]
      BY <3>1 DEF IsTop
    <3> QED
      BY <1>2, <1>4, <2>2, <3>2
  <2> QED
    BY <2>1, <2>2
<1> QED
  BY <1>6, <1>7 DEF IsTop

\* A step that changes no track.
LEMMA NoTrackChanged == UNCHANGED track => OthersKept(Null) /\ Live' = Live
BY DEF OthersKept, Live

\* The last lanes stay those of the stacks.
LEMMA LaneNext ==
  ASSUME StepInv, StepInv', HomeInv, LaneInv, FlagsOK, NEW w \in Workers, Action(w)
  PROVE  LaneInv'
<1>0. \A u \in Workers : IsTop(fLastLane[u], stack[u])
  BY DEF LaneInv
<1>1. CASE UNCHANGED <<track, stack, fLastLane>>
  <2>1. OthersKept(Null)
    BY <1>1, NoTrackChanged
  <2>2. \A u \in Workers : IsTop(fLastLane[u], stack[u])'
    BY <1>0, <1>1, <2>1, TopKept
  <2> QED
    BY <2>2 DEF LaneInv
<1>2. ASSUME NEW share \in BOOLEAN, FlushOneLane(w, share), UNCHANGED track
      PROVE  LaneInv'
  <2>1. PICK given, spill : Flushes(w, share, given, spill)
    BY <1>0, <1>2, FlushFacts DEF FlagsOK
  <2>2. OthersKept(Null)
    BY <1>2, NoTrackChanged
  <2>3. stack'[w] \subseteq stack[w] /\ fLastLane'[w] = TopLane(stack'[w])
        /\ \A u \in Workers : u # w => stack'[u] = stack[u] /\ fLastLane'[u] = fLastLane[u]
    BY <2>1 DEF Flushes
  <2>4. IsTop(fLastLane'[w], stack'[w])
    <3>1. stack'[w] \in SUBSET Live
      BY <2>3, HeldLive DEF StepInv
    <3>2. IsTop(TopLane(stack'[w]), stack'[w])
      BY <3>1, TopFacts
    <3> QED
      BY <2>3, <3>2
  <2>5. \A u \in Workers : IsTop(fLastLane[u], stack[u])'
    BY <1>0, <2>2, <2>3, <2>4, TopKept
  <2> QED
    BY <2>5 DEF LaneInv
<1>3. ASSUME NEW t \in Live', OthersKept(t), NEW g \in Nat, track'[t].generation = g, Stacked(w, t, g)
      PROVE  LaneInv'
  <2>1. IsTop(fLastLane[w], stack[w])'
    BY <1>0, <1>3, TopStacked
  <2>2. \A u \in Workers : u # w => stack'[u] = stack[u] /\ fLastLane'[u] = fLastLane[u]
    BY <1>3 DEF Stacked, StepInv, BuffersOK, FlagsOK
  <2>3. \A u \in Workers : u # w => IsTop(fLastLane[u], stack[u])'
    BY <1>0, <1>3, <2>2, TopKept
  <2> QED
    BY <2>1, <2>3 DEF LaneInv
<1>4. CASE Enter(w) \/ Wrap(w)
  <2>1. \/ UNCHANGED fLastLane /\ UNCHANGED stack
        \/ \E share \in BOOLEAN : FlushOneLane(w, share)
    <3>1. wk[w].flushed \in BOOLEAN
      BY DEF StepInv, WorkInv, WorkOf
    <3> QED
      BY <1>4, <3>1 DEF Enter, Wrap, buffers
  <2>2. UNCHANGED track
    BY <1>4 DEF Enter, Wrap, trackVars
  <2> QED
    BY <1>1, <1>2, <2>1, <2>2
<1>5. CASE Take(w)
  <2>1. PICK t \in todo : /\ Stacked(w, t, 0) /\ OthersKept(t)
                          /\ Live' = Live \union {t} /\ track'[t].generation = 0
    BY <1>5, TakeLocals
  <2> QED
    BY <1>3, <2>1
<1>6. CASE Scalar(w) \/ Vector(w)
  <2>1. PICK t \in fStageBuffers[w][wk[w].stage] \union wk[w].vec :
          /\ OthersKept(t)
          /\ \/ \E dest, births : SentOn(w, t, dest, births)
             \/ BackOnStack(w, t)
             \/ Ended(w, t)
    BY <1>6, StepLocals
  <2>2. t \in Live
    BY HeldLive DEF StepInv, WorkInv, WorkOf
  <2>3. CASE UNCHANGED <<stack, fLastLane>>
    <3>1. \A u \in Workers : IsTop(fLastLane[u], stack[u])'
      BY <1>0, <2>1, <2>3, TopKept
    <3> QED
      BY <3>1 DEF LaneInv
  <2>4. CASE BackOnStack(w, t)
    <3>1. t \in Live' /\ track[t].generation \in Nat /\ Stacked(w, t, track[t].generation)
      BY <2>2, <2>4, LaneFacts DEF BackOnStack
    <3>2. track'[t].generation = track[t].generation
      BY <2>1, <2>2, <3>1 DEF OthersKept
    <3> QED
      BY <1>3, <2>1, <3>1, <3>2
  <2> QED
    BY <2>1, <2>3, <2>4 DEF SentOn, Ended
<1>7. CASE ~ (Enter(w) \/ Wrap(w) \/ Take(w) \/ Scalar(w) \/ Vector(w))
  <2>1. UNCHANGED <<track, stack, fLastLane>>
    BY <1>7 DEF Action, Stop, Steal, NoTracks, Visit, CheckBasketizers, EndCheck, FlushHandler, SkipFlush,
                Unlock, Select, AddTrack, buffers, trackVars
  <2> QED
    BY <1>1, <2>1
<1> QED
  BY <1>4, <1>5, <1>6, <1>7


\* t is in no place of worker u.
NotWith(t, u) ==
  /\ t \notin stack[u] \union fQshare[u] \union wk[u].vec \union Cur(u)
  /\ \A d \in Stages : t \notin fStageBuffers[u][d]

\* A step of one worker that moves a track of its own leaves the others alone.
LEMMA HomeOthers ==
  ASSUME StepInv, HeldInv', HomeInv, NEW w \in Workers, NEW t, OthersKept(t), OthersAlike(w),
         \A u \in Workers : u # w => /\ NotWith(t, u)
                                     /\ fStageBuffers'[u] = fStageBuffers[u] /\ stack'[u] = stack[u]
                                     /\ fQshare'[u] \subseteq fQshare[u]
  PROVE  \A u \in Workers : u # w => AtHome(u)'
<1> SUFFICES ASSUME NEW u \in Workers, u # w PROVE AtHome(u)'
  OBVIOUS
<1>1. /\ fStageBuffers'[u] = fStageBuffers[u] /\ stack'[u] = stack[u] /\ wk'[u] = wk[u]
      /\ fQshare'[u] \subseteq fQshare[u] /\ Cur(u)' = Cur(u)
  BY DEF OthersAlike, Cur
<1>2. /\ \A s \in Stages : fStageBuffers[u][s] \subseteq Live \intersect Live'
      /\ stack[u] \union wk[u].vec \union Cur(u) \union fQshare'[u] \subseteq Live \intersect Live'
  BY <1>1, HeldLive, HeldLiveNext DEF StepInv
<1>3. /\ \A s \in Stages : \A x \in fStageBuffers[u][s] : track'[x] = track[x]
      /\ \A x \in stack[u] \union wk[u].vec \union Cur(u) \union fQshare'[u] : track'[x] = track[x]
  BY <1>1, <1>2 DEF OthersKept, NotWith
<1>4. AtHome(u)
  BY DEF HomeInv
<1>5. \A s \in Stages : \A x \in fStageBuffers'[u][s] : track'[x].stage = s
  BY <1>1, <1>3, <1>4 DEF AtHome
<1>6. \A x \in stack'[u] \union fQshare'[u] : track'[x].stage = kPreStep
  BY <1>1, <1>3, <1>4 DEF AtHome
<1>7. \A x \in wk'[u].vec \union Cur(u)' : track'[x].stage = wk'[u].stage
  BY <1>1, <1>3, <1>4 DEF AtHome
<1> QED
  BY <1>5, <1>6, <1>7 DEF AtHome

\* The tracks of the baskets are not changed by what is done to another track.
LEMMA HomeBaskets ==
  ASSUME StepInv, HeldInv', HomeInv, NEW t, OthersKept(t),
         \A s \in Basketized : t \notin basket[s] /\ basket'[s] \subseteq basket[s]
  PROVE  BasketsAtHome'
<1>1. \A s \in Basketized : basket'[s] \subseteq Live \intersect Live'
  BY HeldLive, HeldLiveNext DEF StepInv
<1>2. \A s \in Basketized : \A x \in basket'[s] : track'[x] = track[x]
  BY <1>1 DEF OthersKept
<1> QED
  BY <1>2 DEF HomeInv, BasketsAtHome

\* Null is no track.
LEMMA NullNowhere ==
  ASSUME StepInv
  PROVE  /\ Null \notin Live
         /\ \A u \in Workers : NotWith(Null, u)
         /\ \A s \in Basketized : Null \notin basket[s]
<1>1. Null \notin Live
  BY SteppingAssumption DEF StepInv, TrackInv, TrackTypeOK
<1> QED
  BY <1>1, HeldLive DEF StepInv, NotWith

\* A step that moves no track, of a worker that stays at its stage or has nothing in hand.
LEMMA HomeQuiet ==
  ASSUME StepInv, StepInv', HomeInv, NEW w \in Workers, OthersAlike(w), SameHands(w),
         UNCHANGED <<trackVars, buffers, basket>>,
         wk'[w].stage = wk[w].stage \/ (wk[w].vec = {} /\ wk[w].cur = Null)
  PROVE  HomeInv'
<1>1. OthersKept(Null) /\ UNCHANGED <<track, fStageBuffers, stack, fQshare, basket>>
  BY NoTrackChanged DEF trackVars, buffers
<1>2. (\A u \in Workers : u # w => AtHome(u)') /\ BasketsAtHome'
  BY <1>1, NullNowhere, HomeOthers, HomeBaskets DEF StepInv
<1>3. wk'[w].vec = wk[w].vec /\ Cur(w)' = Cur(w)
  BY DEF SameHands, Cur
<1>4. \A x \in wk'[w].vec \union Cur(w)' : track'[x].stage = wk'[w].stage
  <2>1. CASE wk'[w].stage = wk[w].stage
    BY <1>1, <1>3, <2>1 DEF HomeInv, AtHome
  <2>2. CASE wk[w].vec = {} /\ wk[w].cur = Null
    BY <1>3, <2>2 DEF Cur
  <2> QED
    BY <2>1, <2>2
<1>5. AtHome(w)'
  <2>1. \A s \in Stages : \A x \in fStageBuffers'[w][s] : track'[x].stage = s
    BY <1>1 DEF HomeInv, AtHome
  <2>2. \A x \in stack'[w] \union fQshare'[w] : track'[x].stage = kPreStep
    BY <1>1 DEF HomeInv, AtHome
  <2> QED
    BY <1>4, <2>1, <2>2 DEF AtHome
<1> QED
  BY <1>2, <1>5 DEF HomeInv

\* The tracks FlushOneLane gives away or injects are at the start of a step.
LEMMA HomeFlush ==
  ASSUME StepInv, StepInv', HomeInv, NEW w \in Workers, OthersAlike(w), SameHands(w),
         UNCHANGED <<trackVars, basket>>, wk[w].vec = {}, wk[w].cur = Null,
         NEW share, NEW given, NEW spill, Flushes(w, share, given, spill)
  PROVE  HomeInv'
<1>1. OthersKept(Null) /\ UNCHANGED <<track, basket>>
  BY NoTrackChanged DEF trackVars
<1>2. (\A u \in Workers : u # w => AtHome(u)') /\ BasketsAtHome'
  <2>1. \A u \in Workers : u # w => /\ fStageBuffers'[u] = fStageBuffers[u] /\ stack'[u] = stack[u]
                                    /\ fQshare'[u] = fQshare[u]
    BY DEF Flushes
  <2> QED
    BY <1>1, <2>1, NullNowhere, HomeOthers, HomeBaskets DEF StepInv
<1>3. given \subseteq stack[w] /\ spill \subseteq stack[w] /\ stack'[w] \subseteq stack[w]
  BY DEF Flushes
<1>4. AtHome(w)
  BY DEF HomeInv
<1>5. AtHome(w)'
  <2>1. ASSUME NEW s \in Stages
        PROVE  \A x \in fStageBuffers'[w][s] : track'[x].stage = s
    <3>1. CASE s = 0
      <4>1. fStageBuffers'[w][0] = fStageBuffers[w][0] \union spill
        BY DEF Flushes
      <4> QED
        BY <1>1, <1>3, <1>4, <3>1, <4>1 DEF AtHome, kPreStep
    <3>2. CASE s # 0
      <4>1. fStageBuffers'[w][s] = fStageBuffers[w][s]
        BY <3>2 DEF Flushes
      <4> QED
        BY <1>1, <1>4, <4>1 DEF AtHome
    <3> QED
      BY <3>1, <3>2
  <2>2. \A x \in stack'[w] \union fQshare'[w] : track'[x].stage = kPreStep
    <3>1. fQshare'[w] = fQshare[w] \union given
      BY DEF Flushes
    <3> QED
      BY <1>1, <1>3, <1>4, <3>1 DEF AtHome
  <2>3. wk'[w].vec = {} /\ Cur(w)' = {}
    BY DEF SameHands, Cur
  <2> QED
    BY <2>1, <2>2, <2>3 DEF AtHome
<1> QED
  BY <1>2, <1>5 DEF HomeInv

\* A thief puts the tracks it takes at the first stage.
LEMMA HomeSteal ==
  ASSUME StepInv, StepInv', HomeInv, NEW w \in Workers, Steal(w)
  PROVE  HomeInv'
<1>1. /\ UNCHANGED <<trackVars, stack, fLastLane, stages>> /\ OthersAlike(w) /\ SameHands(w)
      /\ wk'[w].stage = wk[w].stage
      /\ \A u \in Workers : fQshare'[u] \subseteq fQshare[u]
      /\ \A u \in Workers : u # w => fStageBuffers'[u] = fStageBuffers[u]
      /\ \A d \in Stages : d # 0 => fStageBuffers'[w][d] = fStageBuffers[w][d]
  BY StealLocals DEF SameRound
<1>2. PICK v \in Workers : fStageBuffers'[w][0] \subseteq fStageBuffers[w][0] \union fQshare[v]
  BY StealLocals
<1>3. OthersKept(Null) /\ UNCHANGED <<track, basket, stack>>
  BY <1>1, NoTrackChanged DEF trackVars, stages
<1>4. (\A u \in Workers : u # w => AtHome(u)') /\ BasketsAtHome'
  BY <1>1, <1>3, NullNowhere, HomeOthers, HomeBaskets DEF StepInv
<1>5. AtHome(w) /\ AtHome(v)
  BY DEF HomeInv
<1>6. AtHome(w)'
  <2>1. ASSUME NEW s \in Stages
        PROVE  \A x \in fStageBuffers'[w][s] : track'[x].stage = s
    <3>1. CASE s = 0
      BY <1>2, <1>3, <1>5, <3>1 DEF AtHome, kPreStep
    <3>2. CASE s # 0
      BY <1>1, <1>3, <1>5, <3>2 DEF AtHome
    <3> QED
      BY <3>1, <3>2
  <2>2. \A x \in stack'[w] \union fQshare'[w] : track'[x].stage = kPreStep
    BY <1>1, <1>3, <1>5 DEF AtHome
  <2>3. wk'[w].vec = wk[w].vec /\ Cur(w)' = Cur(w)
    BY <1>1 DEF SameHands, Cur
  <2>4. \A x \in wk'[w].vec \union Cur(w)' : track'[x].stage = wk'[w].stage
    BY <1>1, <1>3, <1>5, <2>3 DEF AtHome
  <2> QED
    BY <2>1, <2>2, <2>4 DEF AtHome
<1> QED
  BY <1>4, <1>6 DEF HomeInv

\* What goes in and out of the handler of a stage has been sent to that stage.
LEMMA HomeHandler ==
  ASSUME StepInv, StepInv', HomeInv, FlagsOK, NEW w \in Workers,
         FlushHandler(w) \/ Select(w) \/ AddTrack(w)
  PROVE  HomeInv'
<1> DEFINE s == wk[w].stage
<1>1. /\ UNCHANGED <<trackVars, stack, fQshare>> /\ OthersAlike(w) /\ wk'[w].stage = s
      /\ s \in Basketized /\ s \in Stages
      /\ \A u \in Workers : u # w => fStageBuffers'[u] = fStageBuffers[u]
      /\ \A d \in Stages : fStageBuffers'[w][d] \subseteq fStageBuffers[w][d]
      /\ \A d \in Basketized : d # s => basket'[d] = basket[d]
  <2>1. s \in Stages
    BY DEF StepInv, WorkInv, WorkOf
  <2>2. CASE FlushHandler(w)
    BY <2>1, <2>2, FlushHandlerLocals DEF SameRound, buffers
  <2>3. CASE Select(w)
    <3>1. UNCHANGED basket
      BY <2>3, SelectLocals DEF stages
    <3>2. \A d \in Stages : fStageBuffers'[w][d] \subseteq fStageBuffers[w][d]
      <4>1. \A d \in Stages : d # s => fStageBuffers'[w][d] = fStageBuffers[w][d]
        BY <2>3, SelectLocals
      <4>2. fStageBuffers'[w][s] \subseteq fStageBuffers[w][s]
        BY <2>3, SelectLocals
      <4> QED
        BY <4>1, <4>2
    <3> QED
      BY <2>1, <2>3, <3>1, <3>2, SelectLocals DEF SameRound
  <2>4. CASE AddTrack(w)
    BY <2>1, <2>4, AddTrackLocals DEF SameRound, buffers
  <2> QED
    BY <2>2, <2>3, <2>4
<1>2. /\ wk'[w].vec \union Cur(w)' \subseteq
           fStageBuffers[w][s] \union basket[s] \union wk[w].vec \union Cur(w)
      /\ basket'[s] \subseteq basket[s] \union Cur(w)
  <2>1. CASE FlushHandler(w)
    <3>1. Cur(w)' = Cur(w)
      BY <2>1, FlushHandlerLocals DEF Cur
    <3> QED
      BY <2>1, <3>1, FlushHandlerLocals
  <2>2. CASE Select(w)
    BY <2>2, SelectLocals DEF Cur, stages
  <2>3. CASE AddTrack(w)
    <3>1. Cur(w)' = {}
      BY <2>3, AddTrackLocals DEF Cur
    <3> QED
      BY <2>3, <3>1, AddTrackLocals
  <2> QED
    BY <2>1, <2>2, <2>3
<1>3. OthersKept(Null) /\ UNCHANGED <<track, stack, fQshare>>
  BY <1>1, NoTrackChanged DEF trackVars
<1>4. \A u \in Workers : u # w => AtHome(u)'
  BY <1>1, <1>3, NullNowhere, HomeOthers DEF StepInv
<1>5. AtHome(w) /\ BasketsAtHome
  BY DEF HomeInv
<1>6. \A x \in fStageBuffers[w][s] \union basket[s] \union wk[w].vec \union Cur(w) : track'[x].stage = s
  BY <1>1, <1>3, <1>5 DEF AtHome, BasketsAtHome
<1>7. AtHome(w)'
  <2>1. \A d \in Stages : \A x \in fStageBuffers'[w][d] : track'[x].stage = d
    BY <1>1, <1>3, <1>5 DEF AtHome
  <2>2. \A x \in stack'[w] \union fQshare'[w] : track'[x].stage = kPreStep
    BY <1>3, <1>5 DEF AtHome
  <2>3. \A x \in wk'[w].vec \union Cur(w)' : track'[x].stage = wk'[w].stage
    BY <1>1, <1>2, <1>6
  <2> QED
    BY <2>1, <2>2, <2>3 DEF AtHome
<1>8. BasketsAtHome'
  <2>1. \A d \in Basketized : d # s => \A x \in basket'[d] : track'[x].stage = d
    BY <1>1, <1>3, <1>5 DEF BasketsAtHome
  <2>2. \A x \in basket'[s] : track'[x].stage = s
    BY <1>2, <1>6
  <2> QED
    BY <2>1, <2>2 DEF BasketsAtHome
<1> QED
  BY <1>4, <1>7, <1>8 DEF HomeInv

\* A primary starts on the stack.
LEMMA HomeTake ==
  ASSUME StepInv, StepInv', HomeInv, NEW w \in Workers, Take(w)
  PROVE  HomeInv'
<1>1. PICK t \in todo : /\ Stacked(w, t, 0) /\ OthersKept(t) /\ t \notin Live
                        /\ Live' = Live \union {t} /\ track'[t].stage = kPreStep
  BY TakeLocals
<1>2. /\ UNCHANGED <<fStageBuffers, fQshare, basket>> /\ OthersAlike(w) /\ SameHands(w)
      /\ wk'[w].stage = wk[w].stage
  BY TakeLocals DEF SameRound
<1>3. /\ stack'[w] = stack[w] \union {t}
      /\ \A u \in Workers : u # w => stack'[u] = stack[u]
  BY <1>1 DEF Stacked, StepInv, BuffersOK
<1>4. (\A u \in Workers : NotWith(t, u)) /\ \A d \in Basketized : t \notin basket[d]
  BY <1>1, HeldLive DEF StepInv, NotWith
<1>5. (\A u \in Workers : u # w => AtHome(u)') /\ BasketsAtHome'
  BY <1>1, <1>2, <1>3, <1>4, HomeOthers, HomeBaskets DEF StepInv
<1>6. \A x \in Live : track'[x] = track[x]
  BY <1>1 DEF OthersKept
<1>7. AtHome(w)
  BY DEF HomeInv
<1>8. AtHome(w)'
  <2>1. \A d \in Stages : \A x \in fStageBuffers'[w][d] : track'[x].stage = d
    BY <1>2, <1>6, <1>7, HeldLive DEF AtHome, StepInv
  <2>2. \A x \in stack'[w] \union fQshare'[w] : track'[x].stage = kPreStep
    BY <1>1, <1>2, <1>3, <1>6, <1>7, HeldLive DEF AtHome, StepInv
  <2>3. wk'[w].vec = wk[w].vec /\ Cur(w)' = Cur(w)
    BY <1>2 DEF SameHands, Cur
  <2>4. \A x \in wk'[w].vec \union Cur(w)' : track'[x].stage = wk'[w].stage
    BY <1>2, <1>6, <1>7, <2>3, HeldLive DEF AtHome, StepInv
  <2> QED
    BY <2>1, <2>2, <2>4 DEF AtHome
<1> QED
  BY <1>5, <1>8 DEF HomeInv

\* A track that was stepped is put where it was sent.
LEMMA HomeStep ==
  ASSUME StepInv, StepInv', HomeInv, NEW w \in Workers, Scalar(w) \/ Vector(w)
  PROVE  HomeInv'
<1> DEFINE s == wk[w].stage
<1>1. PICK t \in fStageBuffers[w][s] \union wk[w].vec :
        /\ OthersKept(t) /\ OthersAlike(w) /\ UNCHANGED stages
        /\ \/ \E dest, births : SentOn(w, t, dest, births)
           \/ BackOnStack(w, t)
           \/ Ended(w, t)
        /\ wk[w].cur = Null /\ wk'[w].cur = Null
        /\ wk'[w].stage = s
        /\ \/ wk'[w].vec = wk[w].vec /\ t \in fStageBuffers[w][s]
           \/ t \in wk[w].vec /\ wk'[w].vec = wk[w].vec \ {t}
  BY StepLocals
<1>2. s \in Stages /\ stack \in [Workers -> SUBSET Tracks]
  BY DEF StepInv, WorkInv, WorkOf, BuffersOK
<1>3. /\ t \in Live
      /\ \A u \in Workers : t \notin stack[u] \union fQshare[u] \union Cur(u)
      /\ \A u \in Workers : u # w => NotWith(t, u)
      /\ \A d \in Basketized : t \notin basket[d]
      /\ t \in fStageBuffers[w][s] => t \notin wk[w].vec
  BY <1>1, <1>2, Alone DEF StepInv, NotWith
<1>4. /\ \A u \in Workers : u # w => /\ fStageBuffers'[u] = fStageBuffers[u] /\ stack'[u] = stack[u]
      /\ fQshare' = fQshare /\ basket' = basket
  BY <1>1, <1>2 DEF SentOn, BackOnStack, Ended, TakenOut, Stacked, stages
<1>5. (\A u \in Workers : u # w => AtHome(u)') /\ BasketsAtHome'
  BY <1>1, <1>3, <1>4, HomeOthers, HomeBaskets DEF StepInv
<1>6. AtHome(w)
  BY DEF HomeInv
<1>7. \A x \in Live \intersect Live' : x # t => track'[x] = track[x]
  BY <1>1 DEF OthersKept
<1>8. \A d \in Stages : \A x \in fStageBuffers[w][d] :
        x # t /\ x \in Live' => track'[x].stage = d
  BY <1>6, <1>7, HeldLive DEF AtHome, StepInv
<1>9. \A d \in Stages : \A x \in fStageBuffers'[w][d] : track'[x].stage = d
  <2> SUFFICES ASSUME NEW d \in Stages, NEW x \in fStageBuffers'[w][d]
               PROVE  track'[x].stage = d
    OBVIOUS
  <2>1. x \in Live'
    BY HeldLiveNext DEF StepInv
  <2>2. CASE \E dest, births : SentOn(w, t, dest, births)
    <3>1. PICK dest, births : SentOn(w, t, dest, births)
      BY <2>2
    <3>2. /\ fStageBuffers'[w][d] = (fStageBuffers[w][d] \ {t})
               \union (IF d = dest THEN {t} ELSE {})
               \union (IF d = kSteppingActions THEN births ELSE {})
          /\ track'[t].stage = dest /\ \A y \in births : track'[y].stage = kSteppingActions
      BY <3>1 DEF SentOn
    <3>3. CASE x \in fStageBuffers[w][d] \ {t}
      BY <1>8, <2>1, <3>3
    <3>4. CASE d = dest /\ x = t
      BY <3>2, <3>4
    <3>5. CASE d = kSteppingActions /\ x \in births
      BY <3>2, <3>5
    <3> QED
      BY <3>2, <3>3, <3>4, <3>5
  <2>3. CASE BackOnStack(w, t) \/ Ended(w, t)
    <3>1. x \in fStageBuffers[w][d] \ {t}
      BY <2>3 DEF BackOnStack, Ended, TakenOut
    <3> QED
      BY <1>8, <2>1, <3>1
  <2> QED
    BY <1>1, <2>2, <2>3
<1>10. \A x \in stack'[w] \union fQshare'[w] : track'[x].stage = kPreStep
  <2> SUFFICES ASSUME NEW x \in stack'[w] \union fQshare'[w] PROVE track'[x].stage = kPreStep
    OBVIOUS
  <2>1. x \in Live'
    BY HeldLiveNext DEF StepInv
  <2>2. x \in stack[w] \union fQshare[w] \/ (x = t /\ BackOnStack(w, t))
    BY <1>1, <1>2, <1>4 DEF SentOn, BackOnStack, Ended, Stacked
  <2>3. CASE x \in stack[w] \union fQshare[w]
    <3>1. x # t /\ x \in Live /\ track[x].stage = kPreStep
      BY <1>3, <1>6, <2>3, HeldLive DEF AtHome, StepInv
    <3> QED
      BY <1>7, <2>1, <3>1
  <2>4. CASE x = t /\ BackOnStack(w, t)
    BY <2>4 DEF BackOnStack
  <2> QED
    BY <2>2, <2>3, <2>4
<1>11. \A x \in wk'[w].vec \union Cur(w)' : track'[x].stage = wk'[w].stage
  <2> SUFFICES ASSUME NEW x \in wk'[w].vec \union Cur(w)' PROVE track'[x].stage = s
    BY <1>1
  <2>1. x \in wk[w].vec /\ x # t /\ x \in Live /\ x \in Live'
    <3>1. x \in Live' /\ x \in wk'[w].vec
      BY <1>1, HeldLiveNext DEF StepInv, Cur
    <3>2. x \in wk[w].vec /\ x # t
      BY <1>1, <1>3, <3>1
    <3> QED
      BY <3>1, <3>2, HeldLive DEF StepInv
  <2> QED
    BY <1>6, <1>7, <2>1 DEF AtHome
<1>12. AtHome(w)'
  BY <1>9, <1>10, <1>11 DEF AtHome
<1> QED
  BY <1>5, <1>12 DEF HomeInv

\* Every step leaves the tracks where their stages say.
LEMMA HomeNext ==
  ASSUME StepInv, StepInv', HomeInv, LaneInv, FlagsOK, NEW w \in Workers, Action(w)
  PROVE  HomeInv'
<1>1. CASE Stop(w) \/ NoTracks(w) \/ CheckBasketizers(w) \/ EndCheck(w) \/ SkipFlush(w) \/ Unlock(w)
  <2>1. /\ UNCHANGED <<trackVars, buffers, basket>>
        /\ OthersAlike(w) /\ SameHands(w) /\ wk'[w].stage = wk[w].stage
    BY <1>1, IdleLocals DEF SameRound
  <2> QED
    BY <2>1, HomeQuiet
<1>2. CASE Visit(w)
  <2>1. /\ UNCHANGED <<trackVars, buffers, basket>>
        /\ OthersAlike(w) /\ SameHands(w) /\ GoesOn(w)
    BY <1>2, VisitLocals
  <2>2. wk[w].vec = {} /\ wk[w].cur = Null
    BY <2>1 DEF GoesOn, StepInv, WorkInv
  <2> QED
    BY <2>1, <2>2, HomeQuiet
<1>3. CASE Enter(w) \/ Wrap(w)
  <2>1. /\ UNCHANGED <<trackVars, basket>> /\ OthersAlike(w) /\ SameHands(w)
        /\ UNCHANGED buffers \/ \E share \in BOOLEAN : FlushOneLane(w, share)
    <3>1. wk[w].flushed \in BOOLEAN
      BY DEF StepInv, WorkInv, WorkOf
    <3> QED
      BY <1>3, <3>1, EnterLocals, WrapLocals
  <2>2. wk[w].vec = {} /\ wk[w].cur = Null
    BY <1>3, EnterLocals, WrapLocals DEF GoesOn, StepInv, WorkInv
  <2>3. CASE UNCHANGED buffers
    BY <2>1, <2>2, <2>3, HomeQuiet
  <2>4. CASE \E share \in BOOLEAN : FlushOneLane(w, share)
    <3>1. PICK share \in BOOLEAN : FlushOneLane(w, share)
      BY <2>4
    <3>2. PICK given, spill : Flushes(w, share, given, spill)
      BY <3>1, FlushFacts DEF LaneInv, FlagsOK
    <3> QED
      BY <2>1, <2>2, <3>2, HomeFlush
  <2> QED
    BY <2>1, <2>3, <2>4
<1> QED
  BY <1>1, <1>2, <1>3, HomeSteal, HomeHandler, HomeTake, HomeStep DEF Action

\* Where the tracks are, and which lane is the last.
LoopInv == StepInv /\ HomeInv /\ LaneInv /\ FlagsOK

\* It holds when nothing has been served.
LEMMA LoopInit == Init => LoopInv
<1> SUFFICES ASSUME Init PROVE LoopInv
  OBVIOUS
<1>1. StepInv
  BY StepInitInv
<1>2. /\ \A w \in Workers : /\ \A s \in Stages : fStageBuffers[w][s] = {}
                            /\ stack[w] = {} /\ fQshare[w] = {} /\ fLastLane[w] = 0
                            /\ wk[w].vec = {} /\ Cur(w) = {}
      /\ \A s \in Basketized : basket[s] = {}
  BY DEF Init, NoWork, Cur
<1>3. HomeInv
  BY <1>2 DEF HomeInv, AtHome, BasketsAtHome
<1>4. LaneInv
  BY <1>2 DEF LaneInv, IsTop
<1>5. FlagsOK
  <2>1. 0 \in 0 .. fNlanes - 1
    BY SteppingAssumption
  <2> QED
    BY <2>1 DEF Init, FlagsOK
<1> QED
  BY <1>1, <1>3, <1>4, <1>5 DEF LoopInv

\* A step is nothing, or an action of a worker.
LEMMA StepOf == [Next]_vars => UNCHANGED vars \/ \E w \in Workers : Action(w)
BY DEF Next, Action

\* Every step keeps it.
LEMMA LoopNext == LoopInv /\ [Next]_vars => LoopInv'
<1> SUFFICES ASSUME LoopInv, [Next]_vars PROVE LoopInv'
  OBVIOUS
<1>1. StepInv /\ StepInv' /\ HomeInv /\ LaneInv /\ FlagsOK
  BY StepNext DEF LoopInv
<1>2. CASE UNCHANGED vars
  <2>1. /\ HomeInv' <=> HomeInv
        /\ LaneInv' <=> LaneInv
        /\ FlagsOK' <=> FlagsOK
    <3>1. UNCHANGED <<track, fStageBuffers, stack, fLastLane, fQshare, wk, basket>>
      BY <1>2 DEF vars, trackVars, buffers, stages
    <3>2. HomeInv' <=> HomeInv
      BY <3>1 DEF HomeInv, AtHome, BasketsAtHome, Cur
    <3>3. LaneInv' <=> LaneInv
      BY <3>1 DEF LaneInv, IsTop, Lane
    <3>4. FlagsOK' <=> FlagsOK
      BY <1>2 DEF vars, buffers, stages, FlagsOK
    <3> QED
      BY <3>2, <3>3, <3>4
  <2> QED
    BY <1>1, <2>1 DEF LoopInv
<1>3. ASSUME NEW w \in Workers, Action(w)
      PROVE  LoopInv'
  BY <1>1, <1>3, HomeNext, LaneNext, FlagsNext DEF LoopInv
<1> QED
  BY <1>2, <1>3, StepOf

\* The tracks are at home, and the last lanes right, whatever the workers do.
THEOREM SteppingLoopInvariant == Spec => []LoopInv
<1> QED
  BY LoopInit, LoopNext, PTL DEF Spec

\* A track is in the buffer of the stage it has been sent to: Place overrides
\* the choice of a handler only where CopyToFollowUps finds a unique follow-up,
\* and there the handlers have no choice.
THEOREM SteppingBufferMatchesStage == Spec => []BufferMatchesStage
<1>1. LoopInv => BufferMatchesStage
  BY DEF LoopInv, HomeInv, AtHome, BufferMatchesStage
<1> QED
  BY <1>1, SteppingLoopInvariant, PTL

\* The last lane of a stack that is not empty has tracks: FlushOneLane finds
\* something to inject after any order of AddTrack, ShareTracks and flushes.
THEOREM SteppingLastLaneHolds == Spec => []LastLaneHolds
<1>1. LoopInv => LastLaneHolds
  <2> SUFFICES ASSUME LoopInv, NEW w \in Workers, stack[w] # {}
               PROVE  fLastLane[w] = Max({Lane(t) : t \in stack[w]})
    BY DEF LastLaneHolds
  <2>1. stack[w] \in SUBSET Live /\ StepInv /\ IsTop(fLastLane[w], stack[w])
    BY HeldLive DEF LoopInv, StepInv, LaneInv
  <2> QED
    BY <2>1, TopIsMax
<1> QED
  BY <1>1, SteppingLoopInvariant, PTL

\* The state keeps its types, and the containers hold live tracks only.
THEOREM SteppingTypeOK == Spec => []TypeOK
<1>1. LoopInv => TypeOK
  <2> SUFFICES ASSUME LoopInv PROVE TypeOK
    OBVIOUS
  <2>1. /\ StepInv /\ FlagsOK /\ TrackTypeOK /\ BuffersOK /\ WorkInv /\ HeldInv
    BY DEF LoopInv, StepInv, TrackInv
  <2>2. todo \subseteq Primaries /\ transported \subseteq Events /\ Live \subseteq Tracks
    BY <2>1 DEF TrackTypeOK
  <2>3. /\ fStageBuffers \in [Workers -> [Stages -> SUBSET Live]]
        /\ {stack, fQshare} \subseteq [Workers -> SUBSET Live]
        /\ basket \in [Basketized -> SUBSET Live]
    <3>1. fStageBuffers \in [Workers -> [Stages -> SUBSET Live]]
      BY <2>1, HeldLive DEF BuffersOK
    <3>2. stack \in [Workers -> SUBSET Live] /\ fQshare \in [Workers -> SUBSET Live]
      BY <2>1, HeldLive DEF BuffersOK
    <3>3. basket \in [Basketized -> SUBSET Live]
      BY <2>1, HeldLive DEF BuffersOK
    <3> QED
      BY <3>1, <3>2, <3>3
  <2>4. \A w \in Workers : /\ wk[w].pc \in Pcs /\ wk[w].stage \in Stages
                           /\ wk[w].vec \subseteq Live /\ wk[w].cur \in Live \union {Null}
    <3> SUFFICES ASSUME NEW w \in Workers
                 PROVE  /\ wk[w].pc \in Pcs /\ wk[w].stage \in Stages
                        /\ wk[w].vec \subseteq Live /\ wk[w].cur \in Live \union {Null}
      OBVIOUS
    <3>1. wk[w].pc \in Pcs /\ wk[w].stage \in Stages
      BY <2>1 DEF WorkInv, WorkOf
    <3>2. wk[w].vec \subseteq Live /\ Cur(w) \subseteq Live
      BY <2>1, HeldLive
    <3> QED
      BY <3>1, <3>2 DEF Cur
  <2>5. /\ {fActive, refused} \subseteq [Basketized -> BOOLEAN]
        /\ {fLock, fCheckLock} \subseteq [Basketized -> Workers \union {Null}]
        /\ fLastLane \in [Workers -> 0 .. fNlanes - 1]
    BY <2>1 DEF FlagsOK
  <2> QED
    BY <2>2, <2>3, <2>4, <2>5 DEF TypeOK
<1> QED
  BY <1>1, SteppingLoopInvariant, PTL

------------------------------------------------------------------------------
(* The rounds of a worker                                                  *)

InLoop(w) == wk[w].pc \notin {"feed", "enter", "stop"}

\* The stages a round has been through, the current one included.
Behind(w) == IF wk[w].pc = "loop" THEN {} ELSE 0 .. wk[w].stage

\* A round without activity is made in flush mode and has left nothing behind,
\* the flush is on request while the worker is flushed, and a worker that
\* reports itself flushed holds nothing.
Round(w) ==
  /\ InLoop(w) => wk[w].flushreq = wk[w].flushed
  /\ wk[w].pc = "add" => wk[w].busy
  /\ InLoop(w) /\ wk[w].pc # "loop" /\ ~ wk[w].busy => wk[w].flush
  /\ InLoop(w) /\ ~ wk[w].busy => \A d \in Behind(w) : fStageBuffers[w][d] = {}
  /\ Flushed(w) => stack[w] = {} /\ \A s \in Stages : fStageBuffers[w][s] = {}

RoundInv == \A w \in Workers : Round(w)

\* Where a worker goes when it does not touch a track.
LEMMA IdlePcs ==
  ASSUME StepInv, NEW w \in Workers
  PROVE  /\ Stop(w) => wk'[w].pc = "stop"
         /\ NoTracks(w) => \/ wk[w].flushed /\ UNCHANGED wk
                           \/ wk'[w].pc = "enter"
         /\ CheckBasketizers(w) => /\ wk[w].pc = "check"
                                   /\ \/ wk'[w].pc = Work(w, wk[w].stage)
                                      \/ wk'[w].pc = "drain" /\ fActive' = [fActive EXCEPT ![wk[w].stage] = FALSE]
         /\ EndCheck(w) => wk[w].pc = "checked" /\ wk'[w].pc = Work(w, wk[w].stage)
         /\ SkipFlush(w) => wk[w].pc = "flush" /\ wk'[w].pc = "tracks"
         /\ Unlock(w) => wk[w].pc = "unlock" /\ wk'[w].pc \in {"tracks", "checked", "vec"}
<1>1. ASSUME NEW label, Do(w, [pc |-> label])
      PROVE  wk'[w].pc = label
  <2> DEFINE c == [pc |-> label]
  <2>1. Do(w, c) /\ DOMAIN c = {"pc"} /\ c["pc"] = label
    BY <1>1
  <2> HIDE DEF c
  <2> QED
    BY <2>1, DoLocals DEF StepInv
<1>2. Stop(w) => wk'[w].pc = "stop"
  BY <1>1 DEF Stop
<1>3. NoTracks(w) => (wk[w].flushed /\ UNCHANGED wk) \/ wk'[w].pc = "enter"
  <2> SUFFICES ASSUME NoTracks(w), ~ wk[w].flushed PROVE wk'[w].pc = "enter"
    BY DEF NoTracks
  <2> DEFINE c == [pc |-> "enter", flushed |-> TRUE]
  <2>1. Do(w, c) /\ DOMAIN c = {"pc", "flushed"} /\ c["pc"] = "enter"
    BY DEF NoTracks
  <2> HIDE DEF c
  <2> QED
    BY <2>1, DoLocals DEF StepInv
<1>4. CheckBasketizers(w) => /\ wk[w].pc = "check"
                             /\ \/ wk'[w].pc = Work(w, wk[w].stage)
                                \/ wk'[w].pc = "drain" /\ fActive' = [fActive EXCEPT ![wk[w].stage] = FALSE]
  BY <1>1 DEF CheckBasketizers
<1>5. EndCheck(w) => wk[w].pc = "checked" /\ wk'[w].pc = Work(w, wk[w].stage)
  BY <1>1 DEF EndCheck
<1>6. SkipFlush(w) => wk[w].pc = "flush" /\ wk'[w].pc = "tracks"
  BY <1>1 DEF SkipFlush
<1>7. Unlock(w) => wk[w].pc = "unlock" /\ wk'[w].pc \in {"tracks", "checked", "vec"}
  <2> SUFFICES ASSUME Unlock(w) PROVE wk[w].pc = "unlock" /\ wk'[w].pc \in {"tracks", "checked", "vec"}
    OBVIOUS
  <2>1. PICK label \in {"tracks", "checked", "vec"} : Do(w, [pc |-> label])
    BY DEF Unlock, Resume
  <2> QED
    BY <1>1, <2>1 DEF Unlock
<1> QED
  BY <1>2, <1>3, <1>4, <1>5, <1>6, <1>7

\* A worker touches the buffers of another one only by taking tracks it shares.
LEMMA OthersUntouched ==
  ASSUME LoopInv, NEW w \in Workers, Action(w)
  PROVE  /\ OthersAlike(w)
         /\ \A u \in Workers : u # w => fStageBuffers'[u] = fStageBuffers[u] /\ stack'[u] = stack[u]
         /\ ~ Steal(w) => \A u \in Workers : u # w => fQshare'[u] = fQshare[u]
<1>1. StepInv /\ HomeInv /\ LaneInv /\ FlagsOK
  BY DEF LoopInv
<1>2. CASE Stop(w) \/ NoTracks(w) \/ CheckBasketizers(w) \/ EndCheck(w) \/ SkipFlush(w) \/ Unlock(w)
  BY <1>1, <1>2, IdleLocals DEF buffers
<1>3. CASE Visit(w)
  BY <1>1, <1>3, VisitLocals DEF buffers
<1>4. CASE FlushHandler(w) \/ AddTrack(w)
  BY <1>1, <1>4, FlushHandlerLocals, AddTrackLocals DEF buffers
<1>5. CASE Select(w)
  BY <1>1, <1>5, SelectLocals
<1>6. CASE Steal(w)
  BY <1>1, <1>6, StealLocals
<1>7. CASE Take(w)
  <2>1. PICK t : Stacked(w, t, 0)
    BY <1>1, <1>7, TakeLocals
  <2>2. \A u \in Workers : u # w => stack'[u] = stack[u]
    BY <1>1, <2>1 DEF Stacked, StepInv, BuffersOK
  <2> QED
    BY <1>1, <1>7, <2>2, TakeLocals
<1>8. CASE Enter(w) \/ Wrap(w)
  <2>1. /\ OthersAlike(w)
        /\ UNCHANGED buffers \/ \E share \in BOOLEAN : FlushOneLane(w, share)
    <3>1. wk[w].flushed \in BOOLEAN
      BY <1>1 DEF StepInv, WorkInv, WorkOf
    <3> QED
      BY <1>1, <1>8, <3>1, EnterLocals, WrapLocals
  <2>2. CASE UNCHANGED buffers
    BY <2>1, <2>2 DEF buffers
  <2>3. ASSUME NEW share \in BOOLEAN, FlushOneLane(w, share)
        PROVE  \A u \in Workers : u # w => /\ fStageBuffers'[u] = fStageBuffers[u]
                                           /\ stack'[u] = stack[u] /\ fQshare'[u] = fQshare[u]
    <3>1. PICK given, spill : Flushes(w, share, given, spill)
      BY <1>1, <2>3, FlushFacts DEF LaneInv, FlagsOK
    <3> QED
      BY <3>1 DEF Flushes
  <2> QED
    BY <2>1, <2>2, <2>3
<1>9. CASE Scalar(w) \/ Vector(w)
  <2>1. PICK t \in fStageBuffers[w][wk[w].stage] \union wk[w].vec :
          /\ OthersAlike(w)
          /\ \/ \E dest, births : SentOn(w, t, dest, births)
             \/ BackOnStack(w, t)
             \/ Ended(w, t)
    BY <1>1, <1>9, StepLocals
  <2>2. /\ \A u \in Workers : u # w => fStageBuffers'[u] = fStageBuffers[u]
        /\ UNCHANGED fQshare
    BY <2>1 DEF SentOn, BackOnStack, Ended, TakenOut
  <2>3. \A u \in Workers : u # w => stack'[u] = stack[u]
    BY <1>1, <2>1 DEF SentOn, BackOnStack, Ended, Stacked, StepInv, BuffersOK
  <2> QED
    BY <2>1, <2>2, <2>3
<1> QED
  BY <1>2, <1>3, <1>4, <1>5, <1>6, <1>7, <1>8, <1>9 DEF Action

\* The stages before the one a worker goes to are not due.
LEMMA SkippedEmpty ==
  ASSUME StepInv, NEW w \in Workers, Visit(w), NEW d \in Stages, d < wk'[w].stage, d \notin Behind(w)
  PROVE  fStageBuffers[w][d] = {} /\ ~ (wk[w].flush /\ d \in Basketized)
<1>1. GoesOn(w) /\ \A x \in Due(w) : wk'[w].stage <= x
  BY VisitLocals
<1>2. wk[w].stage \in Stages /\ wk'[w].stage \in Stages
  <2>1. wk'[w].stage \in Due(w)
    BY VisitLocals
  <2> QED
    BY <2>1 DEF Due, Stages, kSteppingActions, StepInv, WorkInv, WorkOf
<1>3. d \notin Due(w)
  BY <1>1, <1>2 DEF Stages
<1>4. d \in (IF wk[w].pc = "loop" THEN 0 ELSE wk[w].stage + 1) .. kSteppingActions
  BY <1>2 DEF Behind, Stages, kSteppingActions
<1> QED
  BY <1>3, <1>4 DEF Due

\* In its flush mode a worker has been at a stage and at its handler.
Passed(w, s) ==
  /\ wk[w].pc # "loop"
  /\ s < wk[w].stage \/ (s = wk[w].stage /\ wk[w].pc \notin {"check", "flush"})

\* The other workers are where they were in their rounds.
LEMMA RoundOthers ==
  ASSUME LoopInv, RoundInv, NEW w \in Workers, Action(w), NEW u \in Workers, u # w
  PROVE  Round(u)'
<1>1. wk'[u] = wk[u] /\ fStageBuffers'[u] = fStageBuffers[u] /\ stack'[u] = stack[u]
  BY OthersUntouched DEF OthersAlike
<1>2. Round(u)
  BY DEF RoundInv
<1> QED
  BY <1>1, <1>2 DEF Round, InLoop, Behind, Flushed

\* A worker that has left the loop, or not entered it.
LEMMA RoundOutside ==
  ASSUME NEW w \in Workers, wk'[w].pc \in {"feed", "enter", "stop"},
         wk'[w].pc = "feed" => ~ wk'[w].flushed
  PROVE  Round(w)'
BY DEF Round, InLoop, Flushed

\* A worker that goes on in the loop with its stage buffers as they were.
LEMMA RoundGoesOn ==
  ASSUME RoundInv, NEW w \in Workers, InLoop(w), wk[w].pc # "loop",
         wk'[w].stage = wk[w].stage, wk'[w].busy = wk[w].busy,
         wk'[w].flush = wk[w].flush, wk'[w].flushreq = wk[w].flushreq, wk'[w].flushed = wk[w].flushed,
         wk'[w].pc \notin {"feed", "enter", "stop", "loop"}, wk'[w].pc = "add" => wk[w].busy,
         wk[w].busy \/ fStageBuffers'[w] = fStageBuffers[w]
  PROVE  Round(w)'
<1>1. Round(w)
  BY DEF RoundInv
<1> QED
  BY <1>1 DEF Round, InLoop, Behind, Flushed

\* A worker at a stage that has tracks is in a round with activity.
LEMMA BusyAtTracks ==
  ASSUME StepInv, RoundInv, NEW w \in Workers, InLoop(w), wk[w].pc # "loop",
         fStageBuffers[w][wk[w].stage] # {}
  PROVE  wk[w].busy
<1>1. wk[w].stage \in Behind(w)
  BY DEF StepInv, WorkInv, WorkOf, Stages, Behind
<1> QED
  BY <1>1 DEF RoundInv, Round

\* Entering a stage.
LEMMA RoundVisit ==
  ASSUME LoopInv, RoundInv, NEW w \in Workers, Visit(w)
  PROVE  Round(w)'
<1> DEFINE s == wk'[w].stage
<1>1. StepInv /\ Round(w)
  BY DEF LoopInv, RoundInv
<1>2. /\ s \in Due(w) /\ UNCHANGED fStageBuffers
      /\ wk'[w].flush = wk[w].flush /\ wk'[w].flushreq = wk[w].flushreq /\ wk'[w].flushed = wk[w].flushed
      /\ wk'[w].pc \in {"tracks", "flush", "check"}
      /\ wk'[w].busy <=> (wk[w].busy \/ fStageBuffers[w][s] # {})
      /\ InLoop(w)
  BY <1>1, VisitLocals DEF buffers, GoesOn, InLoop
<1>3. s \in Stages
  BY <1>1, <1>2 DEF Due, Stages, kSteppingActions, StepInv, WorkInv, WorkOf
<1>4. CASE wk'[w].busy
  BY <1>1, <1>2, <1>4 DEF Round, InLoop, Flushed
<1>5. CASE ~ wk'[w].busy
  <2>1. ~ wk[w].busy /\ fStageBuffers[w][s] = {} /\ wk[w].flush
    BY <1>2, <1>5 DEF Due
  <2>2. ASSUME NEW d \in 0 .. s
        PROVE  fStageBuffers[w][d] = {}
    <3>1. d \in Stages /\ (d < s \/ d = s)
      BY <1>3 DEF Stages
    <3>2. CASE d = s
      BY <2>1, <3>2
    <3>3. CASE d < s /\ d \in Behind(w)
      BY <1>1, <1>2, <2>1, <3>3 DEF Round
    <3>4. CASE d < s /\ d \notin Behind(w)
      BY <1>1, <3>1, <3>4, SkippedEmpty
    <3> QED
      BY <3>1, <3>2, <3>3, <3>4
  <2>3. \A d \in 0 .. wk'[w].stage : fStageBuffers'[w][d] = {}
    BY <1>2, <2>2
  <2> QED
    BY <1>1, <1>2, <1>5, <2>1, <2>3 DEF Round, InLoop, Behind, Flushed
<1> QED
  BY <1>4, <1>5

\* Entering the loop.
LEMMA RoundEnter ==
  ASSUME LoopInv, RoundInv, NEW w \in Workers, Enter(w)
  PROVE  Round(w)'
<1>1. StepInv
  BY DEF LoopInv
<1>2. CASE Injected(w) \/ wk[w].flushed
  <2>1. /\ wk'[w].pc = "loop" /\ wk'[w].flushreq = wk[w].flushed /\ wk'[w].flushed = wk[w].flushed
    BY <1>1, <1>2, EnterLocals
  <2> QED
    BY <2>1 DEF Round, InLoop, Behind, Flushed
<1>3. CASE ~ (Injected(w) \/ wk[w].flushed)
  <2>1. wk'[w].pc = "feed" /\ wk'[w].flushed = wk[w].flushed
    BY <1>1, <1>3, EnterLocals
  <2> QED
    BY <1>3, <2>1, RoundOutside
<1> QED
  BY <1>2, <1>3

\* When nothing is due at the end of a round without activity, the stage buffers are empty.
LEMMA NothingDue ==
  ASSUME StepInv, RoundInv, NEW w \in Workers, GoesOn(w), Due(w) = {}, ~ wk[w].busy
  PROVE  /\ \A d \in Stages : fStageBuffers[w][d] = {}
         /\ \A s \in Basketized : wk[w].flush => Passed(w, s)
<1>1. wk[w].stage \in Stages /\ InLoop(w) /\ wk[w].pc \in {"loop", "tracks"}
  BY DEF StepInv, WorkInv, WorkOf, GoesOn, InLoop
<1>2. \A d \in Stages \ Behind(w) :
        d \in (IF wk[w].pc = "loop" THEN 0 ELSE wk[w].stage + 1) .. kSteppingActions
  BY <1>1 DEF Behind, Stages, kSteppingActions
<1>3. ASSUME NEW d \in Stages
      PROVE  fStageBuffers[w][d] = {}
  <2>1. CASE d \in Behind(w)
    BY <1>1, <2>1 DEF RoundInv, Round
  <2>2. CASE d \notin Behind(w)
    BY <1>2, <2>2 DEF Due
  <2> QED
    BY <2>1, <2>2
<1>4. ASSUME NEW s \in Basketized, wk[w].flush
      PROVE  Passed(w, s)
  <2>1. s \in Stages
    BY SteppingAssumption DEF Stages, kGeometryStep, kPropagation, kPostPropagation, kPostStep
  <2>2. s \in Behind(w)
    BY <1>2, <1>4, <2>1 DEF Due
  <2> QED
    BY <1>1, <2>1, <2>2 DEF Behind, Passed, Stages
<1> QED
  BY <1>3, <1>4

\* The end of a round.
LEMMA RoundWrap ==
  ASSUME LoopInv, RoundInv, NEW w \in Workers, Wrap(w)
  PROVE  Round(w)'
<1>1. StepInv /\ Round(w) /\ LaneInv /\ FlagsOK
  BY DEF LoopInv, RoundInv
<1>2. GoesOn(w) /\ Due(w) = {} /\ InLoop(w) /\ wk'[w].flushed = wk[w].flushed
  BY <1>1, WrapLocals DEF GoesOn, InLoop
<1>3. CASE wk'[w].pc = "loop" /\ wk'[w].flushreq = wk[w].flushreq
  BY <1>1, <1>2, <1>3 DEF Round, InLoop, Behind, Flushed
<1>4. CASE ~ wk[w].busy /\ FlushOneLane(w, TRUE) /\ ~ Injected(w) /\ wk'[w].pc = "feed"
  <2>1. PICK given, spill : Flushes(w, TRUE, given, spill)
    BY <1>1, <1>4, FlushFacts DEF LaneInv, FlagsOK
  <2>2. /\ spill = {} /\ stack'[w] = {}
        /\ \A d \in Stages : fStageBuffers'[w][d] = fStageBuffers[w][d]
    <3>1. spill = {} /\ stack'[w] = {}
      BY <1>4, <2>1 DEF Flushes
    <3>2. ASSUME NEW d \in Stages PROVE fStageBuffers'[w][d] = fStageBuffers[w][d]
      BY <2>1, <3>1 DEF Flushes
    <3> QED
      BY <3>1, <3>2
  <2>3. \A d \in Stages : fStageBuffers[w][d] = {}
    BY <1>1, <1>2, <1>4, NothingDue
  <2> QED
    BY <1>4, <2>2, <2>3 DEF Round, InLoop, Flushed
<1> QED
  BY <1>1, <1>3, <1>4, WrapLocals

\* A track that is stepped: a check that flushes the handler sends it to a stage
\* that is still to come.
LEMMA RoundStep ==
  ASSUME LoopInv, RoundInv, NothingSentBack, NEW w \in Workers, Scalar(w) \/ Vector(w)
  PROVE  Round(w)'
<1>1. StepInv /\ HomeInv /\ Round(w)
  BY DEF LoopInv, RoundInv
<1>2. PICK t \in fStageBuffers[w][wk[w].stage] \union wk[w].vec :
        /\ \/ \E dest, births : SentOn(w, t, dest, births)
           \/ BackOnStack(w, t)
           \/ Ended(w, t)
        /\ wk'[w].stage = wk[w].stage /\ wk'[w].flush = wk[w].flush
        /\ wk'[w].flushreq = wk[w].flushreq /\ wk'[w].flushed = wk[w].flushed
        /\ \/ wk[w].pc = "tracks" /\ wk' = wk /\ t \in fStageBuffers[w][wk[w].stage]
           \/ /\ wk[w].pc = "vec" /\ t \in wk[w].vec
              /\ wk'[w].busy = (wk[w].busy \/ ~ Checking(w))
              /\ wk'[w].pc = IF wk[w].vec = {t} THEN Resume(w) ELSE "vec"
  BY <1>1, StepLocals
<1>3. wk[w].stage \in Stages /\ InLoop(w) /\ wk[w].pc # "loop" /\ wk[w].busy \in BOOLEAN
  BY <1>1, <1>2 DEF StepInv, WorkInv, WorkOf, InLoop
<1>4. wk'[w].pc \in {"tracks", "vec", "checked"}
  BY <1>2 DEF Resume
<1>5. CASE wk[w].pc = "tracks" /\ t \in fStageBuffers[w][wk[w].stage] /\ wk' = wk
  <2>1. wk[w].busy
    BY <1>1, <1>3, <1>5, BusyAtTracks
  <2> QED
    BY <1>3, <1>5, <2>1, RoundGoesOn
<1>6. CASE wk[w].pc = "vec" /\ t \in wk[w].vec /\ wk'[w].busy = (wk[w].busy \/ ~ Checking(w))
  <2>1. CASE wk'[w].busy
    BY <1>1, <1>2, <1>3, <1>4, <2>1 DEF Round, InLoop, Flushed
  <2>2. CASE ~ wk'[w].busy
    <3>1. ~ wk[w].busy /\ wk[w].stage \in Basketized
      BY <1>6, <2>2 DEF Checking
    <3>2. \A d \in 0 .. wk[w].stage : fStageBuffers[w][d] = {}
      BY <1>1, <1>3, <3>1 DEF Round, Behind
    <3>3. wk[w].stage < kSteppingActions
      <4>1. wk[w].stage \in {kGeometryStep, kPropagation, kPostPropagation, kPostStep}
        BY <3>1, SteppingAssumption
      <4> QED
        BY <4>1 DEF kGeometryStep, kPropagation, kPostPropagation, kPostStep, kSteppingActions
    <3>4. ASSUME NEW d \in 0 .. wk[w].stage
          PROVE  fStageBuffers'[w][d] = {}
      <4>1. d \in Stages /\ d # kSteppingActions
        BY <1>3, <3>3 DEF Stages, kSteppingActions
      <4>2. CASE \E dest, births : SentOn(w, t, dest, births)
        <5>1. PICK dest, births : SentOn(w, t, dest, births)
          BY <4>2
        <5>2. dest > wk[w].stage /\ dest \in Stages
          BY <3>1, <5>1 DEF SentOn
        <5>3. d # dest
          BY <1>3, <5>2 DEF Stages
        <5>4. fStageBuffers'[w][d] = fStageBuffers[w][d] \ {t}
          BY <4>1, <5>1, <5>3 DEF SentOn
        <5> QED
          BY <3>2, <5>4
      <4>3. CASE BackOnStack(w, t) \/ Ended(w, t)
        <5>1. fStageBuffers'[w][d] = fStageBuffers[w][d] \ {t}
          BY <4>1, <4>3 DEF BackOnStack, Ended, TakenOut
        <5> QED
          BY <3>2, <5>1
      <4> QED
        BY <1>2, <4>2, <4>3
    <3> QED
      BY <1>1, <1>2, <1>3, <1>4, <3>1, <3>4 DEF Round, InLoop, Behind, Flushed
  <2> QED
    BY <2>1, <2>2
<1> QED
  BY <1>2, <1>5, <1>6

\* The rounds stay right.
LEMMA RoundNext ==
  ASSUME LoopInv, RoundInv, NothingSentBack, NEW w \in Workers, Action(w)
  PROVE  RoundInv'
<1>1. StepInv /\ HomeInv /\ LaneInv /\ FlagsOK /\ Round(w)
  BY DEF LoopInv, RoundInv
<1>2. ASSUME Stop(w) \/ NoTracks(w)
      PROVE  Round(w)'
  <2>1. CASE UNCHANGED wk
    <3>1. UNCHANGED buffers
      BY <1>1, <1>2, IdleLocals
    <3>2. wk'[w] = wk[w] /\ fStageBuffers'[w] = fStageBuffers[w] /\ stack'[w] = stack[w]
      BY <2>1, <3>1 DEF buffers
    <3> QED
      BY <1>1, <3>2 DEF Round, InLoop, Behind, Flushed
  <2>2. CASE ~ UNCHANGED wk
    <3>1. wk'[w].pc \in {"enter", "stop"}
      BY <1>1, <1>2, <2>2, IdlePcs
    <3> QED
      BY <3>1, RoundOutside
  <2> QED
    BY <2>1, <2>2
<1>3. ASSUME CheckBasketizers(w) \/ EndCheck(w) \/ SkipFlush(w) \/ Unlock(w)
      PROVE  Round(w)'
  <2>1. /\ wk[w].pc \in {"check", "checked", "flush", "unlock"}
        /\ wk'[w].pc \in {"tracks", "flush", "drain", "checked", "vec"}
    BY <1>1, <1>3, IdlePcs DEF Work
  <2>2. /\ wk'[w].stage = wk[w].stage /\ wk'[w].busy = wk[w].busy
        /\ wk'[w].flush = wk[w].flush /\ wk'[w].flushreq = wk[w].flushreq
        /\ wk'[w].flushed = wk[w].flushed /\ fStageBuffers'[w] = fStageBuffers[w]
    <3>1. ~ NoTracks(w)
      BY <2>1 DEF NoTracks
    <3> QED
      BY <1>1, <1>3, <3>1, IdleLocals DEF SameRound, buffers
  <2> QED
    BY <2>1, <2>2, RoundGoesOn DEF InLoop
<1>4. ASSUME Take(w) \/ Steal(w)
      PROVE  Round(w)'
  <2>1. wk'[w].pc \in {"feed", "enter"} /\ ~ wk'[w].flushed
    BY <1>1, <1>4, TakeLocals, StealLocals
  <2> QED
    BY <2>1, RoundOutside
<1>5. ASSUME FlushHandler(w)
      PROVE  Round(w)'
  <2>1. /\ wk[w].pc \in {"drain", "flush"} /\ wk'[w].pc \in {"tracks", "checked", "unlock"}
        /\ wk'[w].stage = wk[w].stage /\ wk'[w].busy = wk[w].busy
        /\ wk'[w].flush = wk[w].flush /\ wk'[w].flushreq = wk[w].flushreq
        /\ wk'[w].flushed = wk[w].flushed /\ fStageBuffers'[w] = fStageBuffers[w]
    BY <1>1, <1>5, FlushHandlerLocals DEF SameRound, buffers, Resume
  <2> QED
    BY <2>1, RoundGoesOn DEF InLoop
<1>6. ASSUME Select(w)
      PROVE  Round(w)'
  <2>1. /\ wk[w].pc = "tracks" /\ fStageBuffers[w][wk[w].stage] # {} /\ wk'[w].pc = "add"
        /\ wk'[w].stage = wk[w].stage /\ wk'[w].busy = wk[w].busy
        /\ wk'[w].flush = wk[w].flush /\ wk'[w].flushreq = wk[w].flushreq
        /\ wk'[w].flushed = wk[w].flushed
    BY <1>1, <1>6, SelectLocals DEF SameRound
  <2>2. wk[w].busy
    BY <1>1, <2>1, BusyAtTracks DEF InLoop
  <2> QED
    BY <2>1, <2>2, RoundGoesOn DEF InLoop
<1>7. ASSUME AddTrack(w)
      PROVE  Round(w)'
  <2>1. /\ wk[w].pc = "add" /\ wk'[w].pc \in {"tracks", "vec"}
        /\ wk'[w].stage = wk[w].stage /\ wk'[w].busy = wk[w].busy
        /\ wk'[w].flush = wk[w].flush /\ wk'[w].flushreq = wk[w].flushreq
        /\ wk'[w].flushed = wk[w].flushed
    BY <1>1, <1>7, AddTrackLocals DEF SameRound
  <2>2. wk[w].busy
    BY <1>1, <2>1 DEF Round
  <2> QED
    BY <2>1, <2>2, RoundGoesOn DEF InLoop
<1>8. Round(w)'
  BY <1>2, <1>3, <1>4, <1>5, <1>6, <1>7, RoundVisit, RoundEnter, RoundWrap, RoundStep DEF Action
<1> QED
  BY <1>8, RoundOthers DEF RoundInv


\* The first round has not begun.
LEMMA RoundInit == Init => RoundInv
<1> SUFFICES ASSUME Init, NEW w \in Workers PROVE Round(w)
  BY DEF RoundInv
<1>1. wk[w].pc = "feed" /\ wk[w].flushed = FALSE
  BY DEF Init, NoWork
<1> QED
  BY <1>1 DEF Round, InLoop, Flushed

\* No step makes a worker report itself flushed with a track in its hands.
LEMMA RoundsNext == LoopInv /\ RoundInv /\ NothingSentBack /\ [Next]_vars => RoundInv'
<1> SUFFICES ASSUME LoopInv, RoundInv, NothingSentBack, [Next]_vars PROVE RoundInv'
  OBVIOUS
<1>1. CASE UNCHANGED vars
  <2>1. UNCHANGED <<wk, fStageBuffers, stack>>
    BY <1>1 DEF vars, buffers
  <2> QED
    BY <2>1 DEF RoundInv, Round, InLoop, Behind, Flushed
<1>2. ASSUME NEW w \in Workers, Action(w)
      PROVE  RoundInv'
  BY <1>2, RoundNext
<1> QED
  BY <1>1, <1>2, StepOf

\* A worker that reports itself flushed holds nothing, whatever the size of its
\* stack did to the flush mode: as long as no basketized propagation sends a
\* track back to the geometry stage in a check that the loop does not count.
THEOREM SteppingFlushedHoldsNothing ==
  ASSUME NothingSentBack
  PROVE  Spec => []FlushedHoldsNothing
<1>1. LoopInv /\ RoundInv /\ [Next]_vars => RoundInv'
  BY RoundsNext
<1>2. RoundInv => FlushedHoldsNothing
  BY DEF RoundInv, Round, FlushedHoldsNothing
<1> QED
  BY <1>1, <1>2, RoundInit, SteppingLoopInvariant, PTL DEF Spec

------------------------------------------------------------------------------
(* The tracks that wait in a basketizer                                    *)

\* A worker that will be at the handler of a stage in flush mode before it
\* reports itself flushed.
Owes(w, s) ==
  /\ wk[w].pc # "stop"
  /\ \/ ~ wk[w].flushed
     \/ wk[w].pc = "enter"
     \/ /\ InLoop(w)
        /\ \/ wk[w].busy
           \/ stack[w] # {}
           \/ \E d \in Stages \ Behind(w) : fStageBuffers[w][d] # {}
           \/ wk[w].flush /\ ~ Passed(w, s)

\* An active handler keeps tracks, and no flush of it was refused.
Waits(s) == basket[s] # {} /\ fActive[s] /\ ~ refused[s]

Owed(s) == todo # {} \/ \E w \in Workers : fQshare[w] # {} \/ Owes(w, s)

\* The basket of an active handler will be flushed by somebody.
OwedInv == \A s \in Basketized : Waits(s) => Owed(s)

\* The other workers owe what they owed.
LEMMA OthersOwe ==
  ASSUME LoopInv, NEW w \in Workers, Action(w), NEW s \in Basketized,
         NEW u \in Workers, u # w, Owes(u, s)
  PROVE  Owes(u, s)'
<1>1. wk'[u] = wk[u] /\ fStageBuffers'[u] = fStageBuffers[u] /\ stack'[u] = stack[u]
  BY OthersUntouched DEF OthersAlike
<1> QED
  BY <1>1 DEF Owes, InLoop, Behind, Passed

\* A worker in the loop that is busy, or is not flushed.
LEMMA BusyOwes ==
  ASSUME NEW w \in Workers, NEW s \in Basketized, wk'[w].pc \notin {"feed", "enter", "stop"},
         wk'[w].busy \/ ~ wk'[w].flushed
  PROVE  Owes(w, s)'
BY DEF Owes, InLoop

\* A worker that goes on in its round owes what it owed.
LEMMA OwesGoesOn ==
  ASSUME NEW w \in Workers, NEW s \in Basketized, Owes(w, s), InLoop(w), wk[w].pc # "loop",
         wk'[w].pc \notin {"feed", "enter", "stop", "loop"},
         wk'[w].stage = wk[w].stage, wk'[w].flush = wk[w].flush, wk'[w].flushed = wk[w].flushed,
         wk[w].busy => wk'[w].busy,
         stack[w] # {} => stack'[w] # {},
         \A d \in Stages : fStageBuffers[w][d] # {} => fStageBuffers'[w][d] # {},
         ~ Passed(w, s) => wk'[w].busy \/ ~ Passed(w, s)'
  PROVE  Owes(w, s)'
<1>1. Behind(w)' = Behind(w) /\ InLoop(w)'
  BY DEF Behind, InLoop
<1>2. CASE wk[w].busy \/ ~ wk[w].flushed
  BY <1>2, BusyOwes
<1>3. CASE stack[w] # {}
  BY <1>1, <1>3 DEF Owes
<1>4. CASE \E d \in Stages \ Behind(w) : fStageBuffers[w][d] # {}
  BY <1>1, <1>4 DEF Owes
<1>5. CASE wk[w].flush /\ ~ Passed(w, s)
  BY <1>1, <1>5 DEF Owes
<1> QED
  BY <1>2, <1>3, <1>4, <1>5 DEF Owes, InLoop

\* Whoever adds a track to a handler, or switches it on, will be back.
LEMMA WaitsAnew ==
  ASSUME LoopInv, RoundInv, NEW w \in Workers, Action(w), NEW s \in Basketized, Waits(s)', ~ Waits(s)
  PROVE  Owes(w, s)'
<1>1. StepInv /\ HomeInv /\ LaneInv /\ FlagsOK /\ Round(w)
  BY DEF LoopInv, RoundInv
<1>2. CASE AddTrack(w)
  <2>1. wk'[w].pc \in {"tracks", "vec"} /\ wk[w].pc = "add" /\ wk'[w].busy = wk[w].busy
    BY <1>1, <1>2, AddTrackLocals DEF SameRound
  <2> QED
    BY <1>1, <2>1, BusyOwes DEF Round
<1>3. CASE CheckBasketizers(w)
  <2>1. UNCHANGED <<basket, refused>> /\ wk[w].stage \in Stages
    BY <1>1, <1>3 DEF CheckBasketizers, StepInv, WorkInv, WorkOf
  <2>2. ~ fActive[s] /\ fActive'[s]
    BY <1>1, <2>1 DEF Waits, FlagsOK
  <2>3. wk[w].pc = "check" /\ s = wk[w].stage /\ wk'[w].pc = Work(w, s)
    BY <1>1, <1>3, <2>2, IdlePcs DEF CheckBasketizers, FlagsOK
  <2>4. /\ SameRound(w) /\ UNCHANGED fStageBuffers
    BY <1>1, <1>3, IdleLocals DEF buffers
  <2>5. CASE wk[w].busy
    BY <2>3, <2>4, <2>5, BusyOwes DEF SameRound, Work
  <2>6. CASE ~ wk[w].busy
    <3>1. wk[w].flush
      BY <1>1, <2>3, <2>6 DEF Round, InLoop
    <3>2. fStageBuffers[w][s] = {}
      BY <1>1, <2>3, <2>6, BusyAtTracks DEF InLoop
    <3>3. wk'[w].pc = "flush"
      BY <2>3, <3>2 DEF Work
    <3> QED
      BY <2>1, <2>3, <2>4, <3>1, <3>3 DEF Owes, InLoop, Passed, SameRound, Stages
  <2> QED
    BY <2>5, <2>6
<1>4. CASE ~ AddTrack(w) /\ ~ CheckBasketizers(w)
  <2>1. CASE FlushHandler(w)
    BY <1>1, <2>1, FlushHandlerLocals DEF Waits
  <2>2. CASE Stop(w) \/ Take(w) \/ Steal(w) \/ NoTracks(w) \/ Enter(w) \/ Visit(w) \/ Wrap(w)
    <3>1. UNCHANGED <<basket, fActive, refused>>
      BY <1>1, <2>2 DEF Stop, Take, Steal, NoTracks, Enter, Visit, Wrap, stages
    <3> QED
      BY <3>1 DEF Waits
  <2>3. CASE EndCheck(w) \/ SkipFlush(w) \/ Unlock(w) \/ Scalar(w) \/ Select(w) \/ Vector(w)
    <3>1. UNCHANGED <<basket, fActive, refused>>
      BY <1>1, <2>3 DEF EndCheck, SkipFlush, Unlock, Scalar, Select, Vector, stages
    <3> QED
      BY <3>1 DEF Waits
  <2> QED
    BY <1>4, <2>1, <2>2, <2>3 DEF Action
<1> QED
  BY <1>2, <1>3, <1>4

\* There is no end of the run while a track waits.
LEMMA NoStop ==
  ASSUME StepInv, NEW s \in Basketized, basket[s] # {}
  PROVE  transported # Events
<1>1. PICK t : t \in basket[s]
  OBVIOUS
<1>2. t \in Live /\ TrackTypeOK /\ TransportedIsOver
  BY <1>1, HeldLive DEF StepInv, TrackInv
<1>3. track[t].event \in Events /\ t \in LiveOf(track[t].event)
  BY <1>2 DEF TrackTypeOK, Records, LiveOf
<1> QED
  BY <1>2, <1>3 DEF TransportedIsOver

\* A worker on its way to a stage.
LEMMA OwesVisit ==
  ASSUME LoopInv, RoundInv, NEW w \in Workers, Visit(w), NEW s \in Basketized, Owes(w, s)
  PROVE  Owes(w, s)'
<1> DEFINE e == wk'[w].stage
<1>1. /\ StepInv /\ InLoop(w) /\ e \in Due(w)
      /\ wk'[w].pc \in {"tracks", "flush", "check"}
      /\ UNCHANGED <<fStageBuffers, stack>>
      /\ wk'[w].flush = wk[w].flush /\ wk'[w].flushed = wk[w].flushed
      /\ wk'[w].busy <=> (wk[w].busy \/ fStageBuffers[w][e] # {})
      /\ wk'[w].pc = "tracks" => fStageBuffers[w][e] # {}
      /\ wk[w].pc \in {"loop", "tracks"}
  BY VisitLocals DEF LoopInv, GoesOn, InLoop, buffers
<1>2. e \in Stages /\ s \in Stages /\ InLoop(w)' /\ Behind(w)' = 0 .. e /\ wk[w].stage \in Stages
  <2>1. s \in Stages
    BY SteppingAssumption DEF Stages, kGeometryStep, kPropagation, kPostPropagation, kPostStep
  <2> QED
    BY <1>1, <2>1 DEF Due, Stages, kSteppingActions, StepInv, WorkInv, WorkOf, InLoop, Behind
<1>3. CASE wk'[w].busy \/ ~ wk'[w].flushed
  BY <1>1, <1>3, BusyOwes
<1>4. CASE stack[w] # {}
  BY <1>1, <1>2, <1>4 DEF Owes, InLoop
<1>5. ASSUME NEW d \in Stages \ Behind(w), fStageBuffers[w][d] # {}, fStageBuffers[w][e] = {}
      PROVE  Owes(w, s)'
  <2>1. ~ (d < e)
    BY <1>1, <1>5, SkippedEmpty
  <2>2. d \in Stages \ 0 .. e
    BY <1>2, <1>5, <2>1 DEF Stages
  <2> QED
    BY <1>1, <1>2, <1>5, <2>2 DEF Owes, InLoop
<1>6. CASE wk[w].flush /\ ~ Passed(w, s) /\ fStageBuffers[w][e] = {}
  <2>1. s \notin Behind(w)
    BY <1>1, <1>2, <1>6 DEF Passed, Behind, Stages
  <2>2. ~ (s < e)
    BY <1>1, <1>2, <1>6, <2>1, SkippedEmpty
  <2>3. ~ Passed(w, s)'
    BY <1>1, <1>2, <1>6, <2>2 DEF Passed, Stages
  <2> QED
    BY <1>1, <1>2, <1>6, <2>3 DEF Owes, InLoop
<1> QED
  BY <1>1, <1>3, <1>4, <1>5, <1>6 DEF Owes, InLoop

\* A worker at the checkpoint goes on as long as it owes anything, or gives
\* its last tracks away.
LEMMA OwesWrap ==
  ASSUME LoopInv, RoundInv, NEW w \in Workers, Wrap(w), NEW s \in Basketized, Owes(w, s)
  PROVE  fQshare'[w] # {} \/ Owes(w, s)'
<1>1. StepInv /\ Round(w) /\ LaneInv /\ FlagsOK
  BY DEF LoopInv, RoundInv
<1>2. /\ GoesOn(w) /\ Due(w) = {} /\ wk'[w].flushed = wk[w].flushed
      /\ wk'[w].pc \in {"loop", "feed"} /\ wk[w].pc \in {"loop", "tracks"} /\ InLoop(w)
  BY <1>1, WrapLocals DEF GoesOn, InLoop
<1>3. CASE ~ wk[w].flushed
  BY <1>2, <1>3 DEF Owes
<1>4. CASE wk[w].busy /\ wk[w].flushed
  <2>1. /\ UNCHANGED buffers /\ wk'[w].pc = "loop" /\ wk'[w].flush = NextFlush(w)
    BY <1>1, <1>4, WrapLocals
  <2>2. CASE NextFlush(w)
    BY <2>1, <2>2 DEF Owes, InLoop, Passed
  <2>3. CASE ~ NextFlush(w)
    <3>1. stack[w] # {}
      <4>1. wk[w].flushreq /\ kFlushThreshold \in Nat /\ wk[w].flush \in BOOLEAN
        BY <1>1, <1>2, <1>4, SteppingAssumption DEF Round, StepInv, WorkInv, WorkOf
      <4>2. Cardinality({}) = 0
        BY FS_EmptySet
      <4> QED
        BY <2>3, <4>1, <4>2 DEF NextFlush
    <3> QED
      BY <2>1, <3>1 DEF Owes, InLoop, buffers
  <2> QED
    BY <2>2, <2>3
<1>5. CASE ~ wk[w].busy /\ wk[w].flushed
  <2>1. /\ FlushOneLane(w, TRUE)
        /\ \/ Injected(w) /\ wk'[w].pc = "loop"
           \/ ~ Injected(w)
    BY <1>1, <1>5, WrapLocals
  <2>2. PICK given, spill : Flushes(w, TRUE, given, spill)
    BY <1>1, <2>1, FlushFacts DEF LaneInv, FlagsOK
  <2>3. CASE Injected(w) /\ wk'[w].pc = "loop"
    <3>1. fStageBuffers'[w][0] # {}
      BY <2>2, <2>3 DEF Flushes
    <3>2. 0 \in Stages \ Behind(w)' /\ InLoop(w)'
      BY <2>3 DEF Stages, Behind, InLoop
    <3> QED
      BY <2>3, <3>1, <3>2 DEF Owes
  <2>4. CASE ~ Injected(w)
    <3>1. stack[w] # {}
      <4>1. /\ \A d \in Stages : fStageBuffers[w][d] = {}
            /\ wk[w].flush => Passed(w, s)
        BY <1>1, <1>2, <1>5, NothingDue DEF RoundInv
      <4> QED
        BY <1>2, <1>5, <4>1 DEF Owes
    <3>2. given # {}
      BY <2>2, <2>4, <3>1 DEF Flushes
    <3> QED
      BY <2>2, <3>2 DEF Flushes
  <2> QED
    BY <2>1, <2>3, <2>4
<1>6. wk[w].flushed \in BOOLEAN /\ wk[w].busy \in BOOLEAN
  BY <1>1 DEF StepInv, WorkInv, WorkOf
<1> QED
  BY <1>3, <1>4, <1>5, <1>6

\* A worker that steps a track.
LEMMA OwesStep ==
  ASSUME LoopInv, RoundInv, NEW w \in Workers, Scalar(w) \/ Vector(w),
         NEW s \in Basketized, Owes(w, s)
  PROVE  Owes(w, s)'
<1>1. StepInv /\ HomeInv /\ HeldInv /\ wk[w].stage \in Stages
  BY DEF LoopInv, StepInv, WorkInv, WorkOf
<1>2. PICK t \in fStageBuffers[w][wk[w].stage] \union wk[w].vec :
        /\ \/ \E dest, births : SentOn(w, t, dest, births)
           \/ BackOnStack(w, t)
           \/ Ended(w, t)
        /\ wk'[w].stage = wk[w].stage /\ wk'[w].flush = wk[w].flush
        /\ wk'[w].flushed = wk[w].flushed
        /\ \/ wk[w].pc = "tracks" /\ wk' = wk /\ t \in fStageBuffers[w][wk[w].stage]
           \/ /\ wk[w].pc = "vec" /\ t \in wk[w].vec
              /\ wk'[w].busy = (wk[w].busy \/ ~ Checking(w))
              /\ wk'[w].pc = IF wk[w].vec = {t} THEN Resume(w) ELSE "vec"
  BY <1>1, StepLocals
<1>3. CASE wk[w].pc = "tracks" /\ wk' = wk /\ t \in fStageBuffers[w][wk[w].stage]
  <2>1. wk[w].busy
    BY <1>1, <1>3, BusyAtTracks DEF InLoop
  <2> QED
    BY <1>3, <2>1, BusyOwes
<1>4. CASE wk[w].pc = "vec" /\ t \in wk[w].vec
  <2>1. InLoop(w) /\ wk'[w].pc \in {"vec", "tracks", "checked"}
    BY <1>2, <1>4 DEF InLoop, Resume
  <2>2. wk[w].busy => wk'[w].busy
    BY <1>2, <1>4
  <2>3. \A d \in Stages : t \notin fStageBuffers[w][d]
    BY <1>1, <1>4, Alone
  <2>4. \A d \in Stages : fStageBuffers[w][d] \subseteq fStageBuffers'[w][d]
    BY <1>2, <2>3 DEF SentOn, BackOnStack, Ended, TakenOut
  <2>5. stack[w] # {} => stack'[w] # {}
    <3>1. BackOnStack(w, t) => stack'[w] = stack[w] \union {t}
      BY <1>1 DEF BackOnStack, Stacked, StepInv, BuffersOK
    <3> QED
      BY <1>2, <3>1 DEF SentOn, Ended
  <2>6. ~ Passed(w, s) => ~ Passed(w, s)'
    BY <1>2, <1>4, <2>1 DEF Passed
  <2> QED
    BY <1>2, <1>4, <2>1, <2>2, <2>4, <2>5, <2>6, OwesGoesOn
<1> QED
  BY <1>2, <1>3, <1>4

\* A worker at the handler of a stage.
LEMMA OwesAtHandler ==
  ASSUME LoopInv, RoundInv, NEW w \in Workers,
         CheckBasketizers(w) \/ EndCheck(w) \/ SkipFlush(w) \/ Unlock(w) \/ FlushHandler(w),
         NEW s \in Basketized, Owes(w, s), Waits(s), Waits(s)'
  PROVE  Owes(w, s)'
<1>1. StepInv /\ FlagsOK /\ wk[w].stage \in Stages /\ s \in Stages
  <2>1. s \in Stages
    BY SteppingAssumption DEF Stages, kGeometryStep, kPropagation, kPostPropagation, kPostStep
  <2> QED
    BY <2>1 DEF LoopInv, StepInv, WorkInv, WorkOf
<1>2. /\ SameRound(w) /\ wk'[w].flushed = wk[w].flushed /\ UNCHANGED <<fStageBuffers, stack>>
  <2>1. CASE FlushHandler(w)
    BY <1>1, <2>1, FlushHandlerLocals DEF buffers
  <2>2. CASE CheckBasketizers(w) \/ EndCheck(w) \/ SkipFlush(w) \/ Unlock(w)
    <3>1. ~ NoTracks(w)
      BY <1>1, <2>2, IdlePcs DEF NoTracks
    <3> QED
      BY <1>1, <2>2, <3>1, IdleLocals DEF buffers
  <2> QED
    BY <2>1, <2>2
<1>3. /\ wk[w].pc \in {"check", "checked", "flush", "unlock", "drain"}
      /\ wk'[w].pc \in {"tracks", "flush", "drain", "checked", "vec", "unlock"}
      /\ wk'[w].pc = "flush" => wk[w].pc \in {"check", "checked"}
  <2>1. CASE FlushHandler(w)
    BY <1>1, <2>1, FlushHandlerLocals DEF Resume
  <2>2. CASE CheckBasketizers(w) \/ EndCheck(w) \/ SkipFlush(w) \/ Unlock(w)
    BY <1>1, <2>2, IdlePcs DEF Work
  <2> QED
    BY <2>1, <2>2
<1>4. ASSUME ~ Passed(w, s), Passed(w, s)'
      PROVE  wk'[w].busy
  <2>1. s = wk[w].stage /\ wk[w].pc \in {"check", "flush"} /\ wk'[w].pc \notin {"check", "flush"}
    BY <1>1, <1>2, <1>3, <1>4 DEF Passed, SameRound
  <2>2. CheckBasketizers(w)
    <3>1. ~ SkipFlush(w)
      BY <2>1 DEF SkipFlush, Waits
    <3>2. ~ FlushHandler(w)
      BY <1>1, <2>1, FlushHandlerLocals DEF Waits
    <3>3. ~ EndCheck(w) /\ ~ Unlock(w)
      BY <2>1 DEF EndCheck, Unlock
    <3> QED
      BY <3>1, <3>2, <3>3
  <2>3. wk'[w].pc = Work(w, s)
    <3>1. CASE fActive' = [fActive EXCEPT ![s] = FALSE]
      BY <1>1, <3>1 DEF Waits, FlagsOK
    <3> QED
      BY <1>1, <2>1, <2>2, <3>1, IdlePcs
  <2>4. fStageBuffers[w][wk[w].stage] # {} /\ wk[w].pc = "check"
    BY <1>1, <2>1, <2>2, <2>3, IdlePcs DEF Work
  <2>5. wk[w].busy
    BY <1>1, <2>4, BusyAtTracks DEF InLoop
  <2> QED
    BY <1>2, <2>5 DEF SameRound
<1>5. InLoop(w) /\ wk[w].pc # "loop" /\ wk'[w].pc \notin {"feed", "enter", "stop", "loop"}
  BY <1>3 DEF InLoop
<1> QED
  BY <1>2, <1>4, <1>5, OwesGoesOn DEF SameRound

\* What a worker does about the tracks that wait in a basketizer.
LEMMA OwesNext ==
  ASSUME LoopInv, RoundInv, NEW w \in Workers, Action(w),
         NEW s \in Basketized, Owes(w, s), Waits(s), Waits(s)'
  PROVE  fQshare'[w] # {} \/ Owes(w, s)'
<1>1. StepInv /\ HomeInv /\ LaneInv /\ FlagsOK /\ Round(w)
  BY DEF LoopInv, RoundInv
<1>2. CASE Stop(w)
  BY <1>1, <1>2, NoStop DEF Stop, Waits
<1>3. CASE Take(w) \/ Steal(w)
  <2>1. wk'[w].pc \in {"feed", "enter"} /\ ~ wk'[w].flushed
    BY <1>1, <1>3, TakeLocals, StealLocals
  <2> QED
    BY <2>1 DEF Owes
<1>4. CASE NoTracks(w)
  <2>1. wk[w].pc = "feed" /\ ~ wk[w].flushed
    BY <1>4 DEF NoTracks, Owes, InLoop
  <2>2. wk'[w].pc = "enter"
    BY <1>1, <1>4, <2>1, IdlePcs
  <2> QED
    BY <2>2 DEF Owes
<1>5. CASE Enter(w)
  <2>1. CASE wk[w].flushed
    <3>1. wk'[w].pc = "loop" /\ wk'[w].flush
      BY <1>1, <1>5, <2>1, EnterLocals
    <3> QED
      BY <3>1 DEF Owes, InLoop, Passed
  <2>2. CASE ~ wk[w].flushed
    <3>1. wk'[w].pc \in {"loop", "feed"} /\ ~ wk'[w].flushed
      BY <1>1, <1>5, <2>2, EnterLocals
    <3> QED
      BY <3>1 DEF Owes
  <2> QED
    BY <2>1, <2>2
<1>6. CASE Select(w)
  <2>1. /\ wk[w].pc = "tracks" /\ fStageBuffers[w][wk[w].stage] # {}
        /\ wk'[w].pc = "add" /\ wk'[w].busy = wk[w].busy
    BY <1>1, <1>6, SelectLocals DEF SameRound
  <2>2. wk[w].busy
    BY <1>1, <2>1, BusyAtTracks DEF InLoop
  <2> QED
    BY <2>1, <2>2, BusyOwes
<1>7. CASE AddTrack(w)
  <2>1. wk[w].pc = "add" /\ wk'[w].pc \in {"tracks", "vec"} /\ wk'[w].busy = wk[w].busy
    BY <1>1, <1>7, AddTrackLocals DEF SameRound
  <2>2. wk[w].busy
    BY <1>1, <2>1 DEF Round
  <2> QED
    BY <2>1, <2>2, BusyOwes
<1>8. CASE Visit(w) \/ Scalar(w) \/ Vector(w)
  BY <1>8, OwesVisit, OwesStep
<1>9. CASE CheckBasketizers(w) \/ EndCheck(w) \/ SkipFlush(w) \/ Unlock(w) \/ FlushHandler(w)
  BY <1>9, OwesAtHandler
<1>10. CASE Wrap(w)
  BY <1>10, OwesWrap
<1> QED
  BY <1>2, <1>3, <1>4, <1>5, <1>6, <1>7, <1>8, <1>9, <1>10 DEF Action

\* Nothing to serve, and nothing to steal, is taken without a worker that owes.
LEMMA SharesKept ==
  ASSUME LoopInv, NEW w \in Workers, Action(w), NEW s \in Basketized
  PROVE  \/ Owes(w, s)'
         \/ todo' = todo /\ \A u \in Workers : fQshare[u] \subseteq fQshare'[u]
<1>1. StepInv /\ HomeInv /\ LaneInv /\ FlagsOK
  BY DEF LoopInv
<1>2. CASE Take(w) \/ Steal(w)
  <2>1. wk'[w].pc \in {"feed", "enter"} /\ ~ wk'[w].flushed
    BY <1>1, <1>2, TakeLocals, StealLocals
  <2> QED
    BY <2>1 DEF Owes
<1>3. CASE Enter(w) \/ Wrap(w)
  <2>1. /\ todo' = todo
        /\ UNCHANGED fQshare \/ \E share \in BOOLEAN : FlushOneLane(w, share)
    <3>1. wk[w].flushed \in BOOLEAN
      BY <1>1 DEF StepInv, WorkInv, WorkOf
    <3> QED
      BY <1>1, <1>3, <3>1, EnterLocals, WrapLocals DEF trackVars, buffers
  <2>2. ASSUME NEW share \in BOOLEAN, FlushOneLane(w, share)
        PROVE  \A u \in Workers : fQshare[u] \subseteq fQshare'[u]
    <3>1. PICK given, spill : Flushes(w, share, given, spill)
      BY <1>1, <2>2, FlushFacts DEF LaneInv, FlagsOK
    <3> QED
      BY <3>1 DEF Flushes
  <2> QED
    BY <2>1, <2>2
<1>4. CASE Scalar(w) \/ Vector(w)
  BY <1>1, <1>4, StepLocals DEF SentOn, BackOnStack, Ended, TakenOut
<1>5. CASE ~ (Take(w) \/ Steal(w) \/ Enter(w) \/ Wrap(w) \/ Scalar(w) \/ Vector(w))
  <2>1. UNCHANGED <<todo, fQshare>>
    <3>1. CASE Stop(w) \/ NoTracks(w) \/ CheckBasketizers(w) \/ EndCheck(w) \/ SkipFlush(w) \/ Unlock(w)
      BY <1>1, <3>1, IdleLocals DEF trackVars, buffers
    <3>2. CASE Visit(w) \/ FlushHandler(w) \/ AddTrack(w) \/ Select(w)
      BY <3>2 DEF Visit, FlushHandler, AddTrack, Select, trackVars, buffers
    <3> QED
      BY <1>5, <3>1, <3>2 DEF Action
  <2> QED
    BY <2>1
<1> QED
  BY <1>2, <1>3, <1>4, <1>5

\* Nobody forgets the basket of an active handler.
LEMMA OwedNext == LoopInv /\ RoundInv /\ OwedInv /\ [Next]_vars => OwedInv'
<1> SUFFICES ASSUME LoopInv, RoundInv, OwedInv, [Next]_vars, NEW s \in Basketized, Waits(s)'
             PROVE  Owed(s)'
  BY DEF OwedInv
<1>1. CASE UNCHANGED vars
  <2>1. UNCHANGED <<todo, fStageBuffers, stack, fQshare, wk, basket, fActive, refused>>
    BY <1>1 DEF vars, trackVars, buffers, stages
  <2>2. Owed(s)
    BY <2>1 DEF OwedInv, Waits
  <2> QED
    BY <2>1, <2>2 DEF Owed, Owes, InLoop, Behind, Passed
<1>2. ASSUME NEW w \in Workers, Action(w), Waits(s)
      PROVE  Owed(s)'
  <2>1. CASE todo # {}
    BY <1>2, <2>1, SharesKept DEF Owed
  <2>2. ASSUME NEW u \in Workers, fQshare[u] # {}
        PROVE  Owed(s)'
    BY <1>2, <2>2, SharesKept DEF Owed
  <2>3. ASSUME NEW u \in Workers, u # w, Owes(u, s)
        PROVE  Owed(s)'
    BY <1>2, <2>3, OthersOwe DEF Owed
  <2>4. CASE Owes(w, s)
    BY <1>2, <2>4, OwesNext DEF Owed
  <2> QED
    BY <1>2, <2>1, <2>2, <2>3, <2>4 DEF OwedInv, Owed
<1>3. ASSUME NEW w \in Workers, Action(w), ~ Waits(s)
      PROVE  Owed(s)'
  BY <1>3, WaitsAnew DEF Owed
<1> QED
  BY <1>1, <1>2, <1>3, StepOf

\* At first no basket has a track.
LEMMA OwedInit == Init => OwedInv
BY DEF Init, OwedInv, Waits

\* Where the flushed workers leave a track.
LEMMA LeftOver == LoopInv /\ RoundInv /\ OwedInv => LeftInBasketizer
<1> SUFFICES ASSUME LoopInv, RoundInv, OwedInv, todo = {},
                    \A w \in Workers : Flushed(w) /\ fQshare[w] = {},
                    NEW t \in Live
             PROVE  \E s \in Basketized : t \in basket[s] /\ (~ fActive[s] \/ refused[s])
  BY DEF LeftInBasketizer
<1>1. StepInv /\ HeldInv /\ WorkInv
  BY DEF LoopInv, StepInv
<1>2. ASSUME NEW w \in Workers
      PROVE  /\ \A s \in Stages : fStageBuffers[w][s] = {}
             /\ stack[w] = {} /\ fQshare[w] = {} /\ wk[w].vec = {} /\ Cur(w) = {}
             /\ \A s \in Basketized : ~ Owes(w, s)
  BY <1>1 DEF RoundInv, Round, Flushed, WorkInv, Cur, Owes, InLoop
<1>3. PICK p \in PlaceIds : t \in Content(p)
  BY <1>1 DEF HeldInv, Places
<1>4. \A w \in Workers : /\ \A s \in Stages : p # AtStage(w, s)
                         /\ p # OnStack(w) /\ p # InQshare(w) /\ p # InVec(w) /\ p # AsCur(w)
  BY <1>2, <1>3, ContentOf DEF ContentIs
<1>5. PICK s \in Basketized : p = InBasket(s)
  BY <1>4 DEF PlaceIds
<1>6. t \in basket[s]
  BY <1>3, <1>5, ContentOf DEF ContentIs
<1>7. ~ Owed(s)
  BY <1>2 DEF Owed
<1> QED
  BY <1>6, <1>7 DEF OwedInv, Waits

\* When all workers are flushed and nobody has anything to take, a track is
\* left only in a handler that was switched off, or whose last flush was
\* refused: a worker that filled an active handler owes it a flush, and does
\* not report itself flushed before.
THEOREM SteppingLeftInBasketizer ==
  ASSUME NothingSentBack
  PROVE  Spec => []LeftInBasketizer
<1>1. LoopInv /\ RoundInv /\ [Next]_vars => RoundInv'
  BY RoundsNext
<1> QED
  BY <1>1, RoundInit, OwedInit, OwedNext, LeftOver, SteppingLoopInvariant, PTL DEF Spec

=============================================================================
