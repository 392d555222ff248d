------------------------------ MODULE Stepping ------------------------------
(***************************************************************************)
(* How the workers of a propagator take the tracks through the stages:     *)
(* the worker loop (WorkloadManager.cxx), the stages and their handlers    *)
(* (SimulationStage.cxx, Handler.cxx), the stack-like buffer and the work  *)
(* other workers may steal (StackLikeBuffer.h, TaskData.h).  What a stage  *)
(* does to a track is TrackSteps; here is where the track waits.           *)
(*                                                                         *)
(* The buffers of a worker are its own, so a track moves between them      *)
(* without the shuttle basket.  A basketized stage has one handler, shared *)
(* by the workers; its basketizer hands out whole baskets: Basketizer is   *)
(* the module that looks inside.                                           *)
(***************************************************************************)
EXTENDS TrackSteps, FiniteSetsExt

CONSTANTS Workers,
          Basketized,       \* the basketized stages
          fThreshold,       \* tracks in a full basket
          CheckPeriod,      \* tracks between two checks of the basketizers
          Bsize,            \* fBsize: primaries taken at once
          fNlanes, fNmaxBuffSpill,
          kFlushThreshold, kShareThreshold,
          ShareDenominator, \* one over kShareFraction
          Null

ASSUME SteppingAssumption ==
  /\ Basketized \subseteq {kGeometryStep, kPropagation, kPostPropagation, kPostStep}
  /\ {fThreshold, CheckPeriod, Bsize, fNlanes, fNmaxBuffSpill, ShareDenominator} \subseteq Nat \ {0}
  /\ {kFlushThreshold, kShareThreshold} \subseteq Nat
  /\ Null \notin Workers \union Tracks

VARIABLES
  \* of each worker (its TaskData)
  fStageBuffers,  \* the input of each stage
  stack,          \* the tracks of the lanes of the stack-like buffer
  fLastLane,
  fQshare,        \* the tracks others may steal
  calls,          \* the stages with scalar or vector calls on its counters
  wk,             \* where it is and the locals of its loops
  \* of each basketized stage and its handler
  basket, fActive, fLock, fCheckLock, fCheckCountdown,
  refused         \* a flush was refused and nobody has taken the basket since

stages == <<basket, fActive, fLock, fCheckLock, fCheckCountdown, refused>>
buffers == <<fStageBuffers, stack, fLastLane, fQshare>>
vars == <<trackVars, buffers, calls, wk, stages>>

NoWork == [pc |-> "feed", stage |-> 0, flush |-> FALSE, flushreq |-> FALSE, flushed |-> FALSE,
           busy |-> FALSE, room |-> Bsize, vec |-> {}, cur |-> Null]

Init ==
  /\ TrackInit
  /\ fStageBuffers = [w \in Workers |-> [s \in Stages |-> {}]]
  /\ stack = [w \in Workers |-> {}]
  /\ fLastLane = [w \in Workers |-> 0]
  /\ fQshare = [w \in Workers |-> {}]
  /\ calls = [w \in Workers |-> {}]
  /\ wk = [w \in Workers |-> NoWork]
  /\ basket = [s \in Basketized |-> {}]
  /\ fActive \in [Basketized -> BOOLEAN]
  /\ fLock = [s \in Basketized |-> Null]
  /\ fCheckLock = [s \in Basketized |-> Null]
  /\ fCheckCountdown = [s \in Basketized |-> CheckPeriod]
  /\ refused = [s \in Basketized |-> FALSE]

\* A worker goes on with some of its locals changed.
With(r, changes) == [f \in DOMAIN r |-> IF f \in DOMAIN changes THEN changes[f] ELSE r[f]]
Do(w, changes) == wk' = [wk EXCEPT ![w] = With(@, changes)]

------------------------------------------------------------------------------
(* StackLikeBuffer: a track is in the lane of its generation, the last     *)
(* lane takes the rest.                                                    *)

Lane(t) == Min({track[t].generation, fNlanes - 1})
TopLane(S) == IF S = {} THEN 0 ELSE Max({Lane(t) : t \in S})

\* Mutant of Stacked: the last lane follows the track that was added last.
StackedLowers(w, t, generation) ==
  /\ stack' = [stack EXCEPT ![w] = @ \union {t}]
  /\ fLastLane' = [fLastLane EXCEPT ![w] = Min({generation, fNlanes - 1})]

\* Mutant of Stacked: the lanes are counted from one.
StackedOneOff(w, t, generation) ==
  /\ stack' = [stack EXCEPT ![w] = @ \union {t}]
  /\ fLastLane' = [fLastLane EXCEPT ![w] = Max({@, Min({generation + 1, fNlanes})})]

\* AddTrack of a track of the given generation
Stacked(w, t, generation) ==
  /\ stack' = [stack EXCEPT ![w] = @ \union {t}]
  /\ fLastLane' = [fLastLane EXCEPT ![w] = Max({@, Min({generation, fNlanes - 1})})]

\* Mutant of Shareable: a track of the last lane is shared, and the threshold ignored.
ShareableFromTheTop(w) ==
  {S \in SUBSET stack[w] : /\ Cardinality(S) = Min({1, Cardinality(stack[w])})
                           /\ \A t \in S, u \in stack[w] \ S : Lane(t) >= Lane(u)}

NtoShare(w) ==
  LET n == Cardinality(stack[w]) IN
  IF n >= kShareThreshold THEN n \div ShareDenominator ELSE 0

\* ShareTracks: what it may take, from the low lanes up.
Shareable(w) ==
  LET n == NtoShare(w) - Cardinality(fQshare[w])
      low == {t \in stack[w] : Lane(t) <= fLastLane[w]}
  IN  IF n <= 0 THEN {{}}
      ELSE {S \in SUBSET low : /\ Cardinality(S) = Min({n, Cardinality(low)})
                               /\ \A t \in S, u \in low \ S : Lane(t) <= Lane(u)}

\* Lanes are flushed from the last one down until enough is spilled; an
\* empty lane ends it.
Spill(S, last) ==
  IF {t \in S : Lane(t) = last} = {} THEN {}
  ELSE {t \in S : /\ Lane(t) <= last
                  /\ Cardinality({u \in S : Lane(u) > Lane(t)}) < fNmaxBuffSpill}

\* FlushOneLane: the share is given away, the spill goes to the first stage.
FlushOneLane(w, share) ==
  \E given \in IF share /\ Cardinality(Workers) > 1 THEN Shareable(w) ELSE {{}} :
    LET rest == stack[w] \ given
        spill == Spill(rest, fLastLane[w]) IN
    /\ fQshare' = [fQshare EXCEPT ![w] = @ \union given]
    /\ stack' = [stack EXCEPT ![w] = rest \ spill]
    /\ fLastLane' = [fLastLane EXCEPT ![w] =
                       TopLane({t \in rest \ spill : Lane(t) <= fLastLane[w]})]
    /\ fStageBuffers' = [fStageBuffers EXCEPT ![w][0] = @ \union spill]

Injected(w) == fStageBuffers'[w][0] # fStageBuffers[w][0]

------------------------------------------------------------------------------
(* PreloadTracksForStep and the loop of TransportTracksV3                  *)

Stop(w) ==
  /\ wk[w].pc = "feed"
  /\ transported = Events
  /\ Do(w, [pc |-> "stop"])
  /\ UNCHANGED <<trackVars, buffers, calls, stages>>

\* FillStackBuffer
Take(w) ==
  /\ wk[w].pc = "feed"
  /\ transported # Events
  /\ \E t \in todo : Dispatch(t) /\ Stacked(w, t, 0)
  /\ IF wk[w].room = 1 \/ todo' = {}
       THEN Do(w, [pc |-> "enter", flushed |-> FALSE, room |-> Bsize])
       ELSE Do(w, [flushed |-> FALSE, room |-> wk[w].room - 1])
  /\ UNCHANGED <<fStageBuffers, fQshare, calls, stages>>

\* StealTracks: its own shared tracks first; several thieves may split the
\* tracks of a queue.
Steal(w) ==
  /\ wk[w].pc = "feed"
  /\ transported # Events
  /\ wk[w].room = Bsize /\ todo = {}
  /\ \E v \in Workers :
       \E S \in IF v = w THEN {fQshare[w]} ELSE SUBSET fQshare[v] :
         /\ S # {}
         /\ v # w => fQshare[w] = {}
         /\ fQshare' = [fQshare EXCEPT ![v] = @ \ S]
         /\ fStageBuffers' = [fStageBuffers EXCEPT ![w][0] = @ \union S]
  /\ Do(w, [pc |-> "enter", flushed |-> FALSE])
  /\ UNCHANGED <<trackVars, stack, fLastLane, calls, stages>>

\* Nothing in the server nor, when it was looked at, in any queue.
NoTracks(w) ==
  /\ wk[w].pc = "feed"
  /\ transported # Events
  /\ todo = {} /\ wk[w].room = Bsize
  /\ fQshare[w] = {}
  /\ IF wk[w].flushed
       THEN UNCHANGED wk
       ELSE Do(w, [pc |-> "enter", flushed |-> TRUE])
  /\ UNCHANGED <<trackVars, buffers, calls, stages>>

(* SteppingLoop                                                            *)
Enter(w) ==
  LET flush == wk[w].flushed IN
  /\ wk[w].pc = "enter"
  /\ FlushOneLane(w, ~ flush)
  /\ IF Injected(w) \/ flush
       THEN Do(w, [pc |-> "loop", stage |-> 0, flush |-> flush, flushreq |-> flush, busy |-> FALSE])
       ELSE Do(w, [pc |-> "feed"])
  /\ UNCHANGED <<trackVars, calls, stages>>

\* It starts a round, or has done the input of a stage.
GoesOn(w) ==
  \/ wk[w].pc = "loop"
  \/ wk[w].pc = "tracks" /\ fStageBuffers[w][wk[w].stage] = {}

\* The next stages with input or, in flush mode, with a basketizer.
Due(w) ==
  {s \in (IF wk[w].pc = "loop" THEN 0 ELSE wk[w].stage + 1) .. kSteppingActions :
     fStageBuffers[w][s] # {} \/ (wk[w].flush /\ s \in Basketized)}

\* The first part of Process and of FlushAndProcess: the countdown.
Visit(w) ==
  /\ GoesOn(w)
  /\ \E s \in Due(w) :
       LET n == Cardinality(fStageBuffers[w][s])
           left == Max({fCheckCountdown[s] - n, 0})
           work == IF n > 0 THEN "tracks" ELSE "flush" IN
       /\ \A d \in Due(w) : s <= d
       /\ IF s \in Basketized
            THEN /\ fCheckCountdown' = [fCheckCountdown EXCEPT ![s] = left]
                 /\ Do(w, [pc |-> IF left = 0 /\ s \in calls[w] THEN "check" ELSE work,
                           stage |-> s, busy |-> wk[w].busy \/ n > 0])
            ELSE /\ Do(w, [pc |-> "tracks", stage |-> s, busy |-> TRUE])
                 /\ UNCHANGED fCheckCountdown
  /\ UNCHANGED <<trackVars, buffers, calls, basket, fActive, fLock, fCheckLock, refused>>

\* Mutant of NextFlush: once switched off the flush mode stays off.
NextFlushStaysOff(w) == wk[w].flush /\ Cardinality(stack[w]) <= kFlushThreshold

\* The checkpoint after the last stage: the flush mode is off while there is
\* enough on the stack and on again, if it was requested, when that is empty.
NextFlush(w) ==
  \/ wk[w].flush /\ Cardinality(stack[w]) <= kFlushThreshold
  \/ ~ wk[w].flush /\ wk[w].flushreq /\ stack[w] = {}

Wrap(w) ==
  LET flush == NextFlush(w) IN
  /\ GoesOn(w)
  /\ Due(w) = {}
  /\ IF wk[w].busy
       THEN /\ Do(w, [pc |-> "loop", stage |-> 0, flush |-> flush, busy |-> FALSE])
            /\ UNCHANGED buffers
       ELSE /\ FlushOneLane(w, TRUE)
            /\ Do(w, IF Injected(w) THEN [pc |-> "loop", stage |-> 0, flush |-> flush]
                     ELSE [pc |-> "feed", stage |-> 0, flush |-> FALSE, flushreq |-> FALSE])
  /\ UNCHANGED <<trackVars, calls, stages>>

------------------------------------------------------------------------------
(* CheckBasketizers.  Whether the handler fired often enough to be active  *)
(* depends on counters of the whole run: any answer.                       *)

Work(w, s) == IF fStageBuffers[w][s] # {} THEN "tracks" ELSE "flush"

CheckBasketizers(w) ==
  LET s == wk[w].stage IN
  /\ wk[w].pc = "check"
  /\ \/ /\ fCheckLock[s] # Null
        /\ Do(w, [pc |-> Work(w, s)])
        /\ UNCHANGED <<fActive, fCheckLock, fCheckCountdown>>
     \/ /\ fCheckLock[s] = Null
        /\ fCheckCountdown' = [fCheckCountdown EXCEPT ![s] = CheckPeriod]
        /\ \/ /\ UNCHANGED <<fActive, fCheckLock>>
              /\ Do(w, [pc |-> Work(w, s)])
           \/ /\ ~ fActive[s]
              /\ fActive' = [fActive EXCEPT ![s] = TRUE]
              /\ Do(w, [pc |-> Work(w, s)])
              /\ UNCHANGED fCheckLock
           \/ /\ fActive[s]
              /\ fActive' = [fActive EXCEPT ![s] = FALSE]
              /\ fCheckLock' = [fCheckLock EXCEPT ![s] = w]
              /\ Do(w, [pc |-> "drain"])
  /\ UNCHANGED <<trackVars, buffers, calls, basket, fLock, refused>>

\* The end of a check that flushed the handler.
EndCheck(w) ==
  LET s == wk[w].stage IN
  /\ wk[w].pc = "checked"
  /\ fCheckLock' = [fCheckLock EXCEPT ![s] = Null]
  /\ Do(w, [pc |-> Work(w, s)])
  /\ UNCHANGED <<trackVars, buffers, calls, basket, fActive, fLock, fCheckCountdown, refused>>

Checking(w) == wk[w].stage \in Basketized /\ fCheckLock[wk[w].stage] = w

\* What follows when there is nothing to step in vector mode.
Resume(w) == IF Checking(w) THEN "checked" ELSE "tracks"

(* Handler::Flush: it gives up if another flush is going on; the lock is   *)
(* still held when the basket has been taken or found empty.  A check does *)
(* not try when there are no tracks.                                       *)
FlushHandler(w) ==
  LET s == wk[w].stage IN
  /\ \/ wk[w].pc = "drain"
     \/ wk[w].pc = "flush" /\ fActive[s]
  /\ IF fLock[s] # Null \/ (wk[w].pc = "drain" /\ basket[s] = {})
       THEN /\ Do(w, [pc |-> Resume(w)])
            /\ refused' = [refused EXCEPT ![s] = basket[s] # {}]
            /\ UNCHANGED <<basket, fLock>>
       ELSE /\ fLock' = [fLock EXCEPT ![s] = w]
            /\ Do(w, [pc |-> "unlock", vec |-> basket[s]])
            /\ basket' = [basket EXCEPT ![s] = {}]
            /\ refused' = [refused EXCEPT ![s] = FALSE]
  /\ UNCHANGED <<trackVars, buffers, calls, fActive, fCheckLock, fCheckCountdown>>

SkipFlush(w) ==
  /\ wk[w].pc = "flush" /\ ~ fActive[wk[w].stage]
  /\ Do(w, [pc |-> "tracks"])
  /\ UNCHANGED <<trackVars, buffers, calls, stages>>

Unlock(w) ==
  LET s == wk[w].stage IN
  /\ wk[w].pc = "unlock"
  /\ fLock' = [fLock EXCEPT ![s] = Null]
  /\ Do(w, [pc |-> IF wk[w].vec = {} THEN Resume(w) ELSE "vec"])
  /\ UNCHANGED <<trackVars, buffers, calls, basket, fActive, fCheckLock, fCheckCountdown, refused>>

------------------------------------------------------------------------------
(* DoIt on one track by the current stage, and CopyToFollowUps.            *)

\* Mutant of Place: every track goes to the stage's follow-up.
PlaceInFollowUp(w, s, t, stage, births) ==
  [fStageBuffers[w] EXCEPT ![s] = @ \ {t}, ![FollowUp[s]] = @ \union {t} \union births]

Place(w, s, t, stage, births) ==
  LET dest == IF s \in UniqueFollowUp THEN FollowUp[s] ELSE stage
      into == [d \in Stages |-> (IF d = dest THEN {t} ELSE {})
                  \union (IF d = kSteppingActions THEN births ELSE {})]
  IN [d \in Stages |-> (fStageBuffers[w][d] \ {t}) \union into[d]]

StepTrack(w, t) ==
  LET s == wk[w].stage IN
  \/ /\ \E r \in Outcomes(t, track[t]), births \in Births(t, track[t]) :
          /\ Move(t, r, births)
          /\ fStageBuffers' = [fStageBuffers EXCEPT ![w] = Place(w, s, t, r.stage, births)]
     /\ calls' = [calls EXCEPT ![w] = @ \union ({s} \cap Basketized)]
     /\ UNCHANGED <<stack, fLastLane, fQshare>>
  \/ /\ fStageBuffers' = [fStageBuffers EXCEPT ![w][s] = @ \ {t}]
     /\ UNCHANGED <<fQshare, calls>>
     /\ \/ Survive(t) /\ Stacked(w, t, track[t].generation)
        \/ Finish(t) /\ UNCHANGED <<stack, fLastLane>>

\* Process, a track in scalar mode: its handler is not active, or it has none.
Scalar(w) ==
  /\ wk[w].pc = "tracks"
  /\ \E t \in fStageBuffers[w][wk[w].stage] : StepTrack(w, t)
  /\ UNCHANGED <<wk, stages>>

\* The handler was seen active: the track is added to it in a later step.
Select(w) ==
  LET s == wk[w].stage IN
  /\ wk[w].pc = "tracks"
  /\ s \in Basketized /\ fActive[s]
  /\ \E t \in fStageBuffers[w][s] :
       /\ fStageBuffers' = [fStageBuffers EXCEPT ![w][s] = @ \ {t}]
       /\ Do(w, [pc |-> "add", cur |-> t])
  /\ UNCHANGED <<trackVars, stack, fLastLane, fQshare, calls, stages>>

\* Mutant of Taken: the basket is handed out and kept.
TakenTwice(s, content) == basket' = [basket EXCEPT ![s] = content]
\* The basket that is taken is replaced by an empty one.
Taken(s, content) == basket' = [basket EXCEPT ![s] = {}]

\* Handler::AddTrack: the track that fills the basket takes it.
AddTrack(w) ==
  LET s == wk[w].stage
      filled == basket[s] \union {wk[w].cur} IN
  /\ wk[w].pc = "add"
  /\ IF Cardinality(filled) >= fThreshold
       THEN /\ Taken(s, filled)
            /\ refused' = [refused EXCEPT ![s] = FALSE]
            /\ Do(w, [pc |-> "vec", vec |-> filled, cur |-> Null])
       ELSE /\ basket' = [basket EXCEPT ![s] = filled]
            /\ Do(w, [pc |-> "tracks", cur |-> Null])
            /\ UNCHANGED refused
  /\ UNCHANGED <<trackVars, buffers, calls, fActive, fLock, fCheckLock, fCheckCountdown>>

\* DoIt of a basket.  What a check flushes is not counted by the loop.
Vector(w) ==
  /\ wk[w].pc = "vec"
  /\ \E t \in wk[w].vec :
       /\ StepTrack(w, t)
       /\ Do(w, [vec |-> wk[w].vec \ {t}, busy |-> wk[w].busy \/ ~ Checking(w),
                 pc |-> IF wk[w].vec = {t} THEN Resume(w) ELSE "vec"])
  /\ UNCHANGED stages

------------------------------------------------------------------------------
Next ==
  \E w \in Workers :
    \/ Stop(w) \/ Take(w) \/ Steal(w) \/ NoTracks(w) \/ Enter(w)
    \/ Visit(w) \/ Wrap(w)
    \/ CheckBasketizers(w) \/ EndCheck(w) \/ FlushHandler(w) \/ SkipFlush(w) \/ Unlock(w)
    \/ Scalar(w) \/ Select(w) \/ AddTrack(w) \/ Vector(w)

Spec == Init /\ [][Next]_vars
------------------------------------------------------------------------------
(* Properties                                                              *)

Pcs == {"feed", "enter", "loop", "check", "drain", "flush", "unlock", "checked",
        "tracks", "add", "vec", "stop"}

\* The types of the state; every container holds live tracks only.
TypeOK ==
  /\ todo \subseteq Primaries /\ transported \subseteq Events /\ Live \subseteq Tracks
  /\ fStageBuffers \in [Workers -> [Stages -> SUBSET Live]]
  /\ {stack, fQshare} \subseteq [Workers -> SUBSET Live]
  /\ fLastLane \in [Workers -> 0 .. fNlanes - 1]
  /\ \A w \in Workers :
       /\ wk[w].pc \in Pcs /\ wk[w].stage \in Stages
       /\ wk[w].vec \subseteq Live /\ wk[w].cur \in Live \union {Null}
  /\ basket \in [Basketized -> SUBSET Live]
  /\ {fActive, refused} \subseteq [Basketized -> BOOLEAN]
  /\ {fLock, fCheckLock} \subseteq [Basketized -> Workers \union {Null}]

AtStage(w, s) == <<"stage", w, s>>
OnStack(w) == <<"stack", w, Null>>
InQshare(w) == <<"qshare", w, Null>>
InVec(w) == <<"vec", w, Null>>
AsCur(w) == <<"cur", w, Null>>
InBasket(s) == <<"basket", Null, s>>

PlaceIds ==
  {AtStage(w, s) : w \in Workers, s \in Stages} \union {InBasket(s) : s \in Basketized}
  \union UNION {{OnStack(w), InQshare(w), InVec(w), AsCur(w)} : w \in Workers}

\* The tracks in a place.
Content(p) ==
  LET w == p[2] IN
  CASE p[1] = "stage" -> fStageBuffers[w][p[3]]
    [] p[1] = "stack" -> stack[w]
    [] p[1] = "qshare" -> fQshare[w]
    [] p[1] = "vec" -> wk[w].vec
    [] p[1] = "cur" -> {wk[w].cur} \ {Null}
    [] p[1] = "basket" -> basket[p[3]]

Places(t) == {p \in PlaceIds : t \in Content(p)}

\* A live track waits in exactly one place, of one worker or of one shared
\* handler: sharing, stealing, basketizing and flushing neither lose a track
\* nor hand it to two workers.
OnePlace == \A t \in Live : Cardinality(Places(t)) = 1

\* A track is in the buffer of the stage it has been sent to: where a stage
\* has a unique follow-up, that does not override what a handler decided.
BufferMatchesStage ==
  \A w \in Workers, s \in Stages : \A t \in fStageBuffers[w][s] : track[t].stage = s

\* The last lane of a stack-like buffer that is not empty has tracks:
\* otherwise FlushOneLane would inject nothing and the loop end on a full stack.
LastLaneHolds ==
  \A w \in Workers :
    stack[w] # {} => fLastLane[w] = Max({Lane(t) : t \in stack[w]})

Flushed(w) == wk[w].pc = "feed" /\ wk[w].flushed

\* A worker that reports itself flushed, and may be suspended for it, holds no
\* track in its stage buffers or its stack, however the flush mode was
\* switched off and on again by the size of its stack.
FlushedHoldsNothing ==
  \A w \in Workers :
    Flushed(w) => stack[w] = {} /\ \A s \in Stages : fStageBuffers[w][s] = {}

\* When all workers are flushed and nobody has anything to take, a track is
\* left only in the basketizer of a handler that was switched off behind the
\* back of the worker that added the track, or whose last flush was refused.
LeftInBasketizer ==
  (todo = {} /\ \A w \in Workers : Flushed(w) /\ fQshare[w] = {})
    => \A t \in Live : \E s \in Basketized : t \in basket[s] /\ (~ fActive[s] \/ refused[s])
=============================================================================
