-------------------------- MODULE TimeStepLoop_proofs --------------------------
(***************************************************************************)
(* What follows the clock of the flow stays with it: the solid, the        *)
(* radiation, the time step and the statistics, for any adaptor, limits,   *)
(* step sizes, intervals, number of stages, kills and restarts.            *)
(***************************************************************************)
EXTENDS TimeStepLoop, TLAPS

(* A time and a step from it that a job may be at.                          *)
Fits(t) == t.step <= t.time /\ (t.time < MaxTime => t.time + t.dt <= MaxTime)

StepInv ==
    /\ pc \in {"monitor", "stage", "choose"} => Fits(ts)
    /\ pc \in {"stage", "choose"} => ts.time < MaxTime
    /\ pc = "monitor" => stage = 0
    /\ pc = "stage" => stage < Stages
    /\ pc = "stage" /\ stage > 1 => ~runInitialStep
    /\ file # NoFile => Fits(file.ts) /\ file.step = file.ts.step /\ file.step \in SaveSteps

TInv == TypeOK /\ StepInv

(* A solid that has been advanced to s, by w of it in vain, when the flow   *)
(* is at time t.                                                            *)
Level(s, w, t) == s = t + w /\ (method.adapt # "constrained" => w = 0)

(* Before the boundary of a step is evaluated the solid is where the flow   *)
(* is, after it where the flow will be, but for the refused attempts.       *)
SolidInv ==
    /\ pc \in {"monitor", "done"} \/ (pc = "stage" /\ PreStage) => Level(solid, wasted, ts.time)
    /\ pc = "choose" \/ (pc = "stage" /\ ~PreStage) => Level(solid, wasted, ts.time + ts.dt)
    /\ method.adapt # "constrained" => wasted = 0
    /\ file # NoFile => Level(file.solid, file.wasted, file.ts.time)

LastDue(g, s) ==
    /\ g \in RadiationSteps /\ g <= s
    /\ \A r \in RadiationSteps : r <= s => r <= g

(* Before it is evaluated, the gains are old only if radiation is due.      *)
GainsInv ==
    /\ pc = "monitor" \/ (pc = "stage" /\ PreStage) =>
           ts.step \in RadiationSteps \/ LastDue(gains, ts.step)
    /\ pc = "choose" \/ (pc = "stage" /\ ~PreStage) => LastDue(gains, ts.step)

AllowedBy(l) == IF method.adapt = "physics" THEN Safe[l] ELSE l

DtInv ==
    /\ pc \in {"monitor", "stage", "choose"} => ts.dt <= Larger(DtMin, AllowedBy(limit))
    /\ file # NoFile => file.ts.dt <= Larger(DtMin, AllowedBy(file.limit))

-----------------------------------------------------------------------------
(* The sizes of steps.                                                      *)

(* What the options allow is a size.                                        *)
LEMMA ClipSize ==
    ASSUME NEW h \in Nat
    PROVE  Clip(h) \in DtMin..DtMax /\ Clip(h) \in Nat \ {0} /\ Clip(h) <= Larger(DtMin, h)
BY StepAssumption DEF Clip, Larger, Smaller

(* A matched step is a size, is not larger, and does not go past MaxTime.   *)
LEMMA MatchStepSize ==
    ASSUME NEW t \in 0..MaxTime, NEW h \in Nat \ {0}
    PROVE  /\ MatchStep(t, h) \in Nat \ {0}
           /\ MatchStep(t, h) <= h
           /\ t < MaxTime => t + MatchStep(t, h) <= MaxTime
<1>1. MaxTime \in Nat
    BY StepAssumption
<1> QED BY <1>1 DEF MatchStep

(* The initializer shrinks.                                                 *)
LEMMA InitializerSize ==
    ASSUME NEW l \in Limits
    PROVE  /\ AdaptInitializer(FirstDt, l) \in Nat \ {0}
           /\ AdaptInitializer(FirstDt, l) <= FirstDt
           /\ AdaptInitializer(FirstDt, l) <= Larger(DtMin, Safe[l])
<1>1. Safe[l] \in Nat
    BY StepAssumption
<1>2. Clip(Safe[l]) \in Nat \ {0} /\ Clip(Safe[l]) <= Larger(DtMin, Safe[l])
    BY <1>1, ClipSize
<1> QED BY <1>1, <1>2, StepAssumption DEF AdaptInitializer, Smaller, Larger

(* The step a refused attempt is followed by is shorter than it.            *)
LEMMA NextDtSize ==
    ASSUME NEW h \in DtMin..DtMax, NEW l \in Limits
    PROVE  NextDt(h, l) \in Nat \ {0} /\ NextDt(h, l) <= h /\ NextDt(h, l) <= l
BY StepAssumption DEF NextDt, Smaller

(* The steps that an attempt may be followed by.                            *)
LEMMA ChooseCases ==
    ASSUME TInv, Choose
    PROVE  \/ /\ method.adapt = "constrained"
              /\ \E h \in Nat \ {0} : h < ts.dt /\ Refuse(h)
           \/ \E l \in Limits, h \in Nat \ {0} :
                 /\ Accept(l, h)
                 /\ method.adapt # "unestimated" => h <= Larger(DtMin, AllowedBy(l))
<1>1. PICK l \in Limits : ChoosePhysics(l) \/ Estimated(l) \/ TooLarge(l) \/ Unestimated(l)
    BY DEF Choose
<1>2. ts.dt \in Nat \ {0} /\ l \in Nat /\ Safe[l] \in Nat /\ DtMin \in Nat
    BY StepAssumption DEF TInv, TypeOK, TS
<1>3. CASE ChoosePhysics(l)
  <2>1. Clip(Safe[l]) \in Nat \ {0} /\ Clip(Safe[l]) <= Larger(DtMin, AllowedBy(l))
      BY <1>2, <1>3, ClipSize DEF ChoosePhysics, AllowedBy
  <2> QED BY <1>3, <2>1 DEF ChoosePhysics
<1>4. CASE Estimated(l)
  <2>1. PICK h \in DtMin..DtMax : Accept(l, NextDt(h, l))
      BY <1>4 DEF Estimated
  <2>2. NextDt(h, l) \in Nat \ {0} /\ NextDt(h, l) <= l
      BY NextDtSize
  <2>3. NextDt(h, l) <= Larger(DtMin, AllowedBy(l))
      BY <1>2, <1>4, <2>2 DEF Estimated, AllowedBy, Larger
  <2> QED BY <2>1, <2>2, <2>3
<1>5. CASE TooLarge(l)
  <2>1. PICK h \in DtMin..DtMax : h < ts.dt /\ Refuse(NextDt(h, l))
      BY <1>5 DEF TooLarge
  <2>2. NextDt(h, l) \in Nat \ {0} /\ NextDt(h, l) <= h
      BY NextDtSize
  <2>3. NextDt(h, l) < ts.dt
      BY <1>2, <2>1, <2>2, StepAssumption
  <2> QED BY <1>5, <2>1, <2>2, <2>3 DEF TooLarge
<1>6. CASE Unestimated(l)
    BY <1>2, <1>6 DEF Unestimated
<1> QED BY <1>1, <1>3, <1>4, <1>5, <1>6

-----------------------------------------------------------------------------
(* Types.                                                                   *)

(* The numbers that bound the variables.                                    *)
LEMMA Numbers ==
    /\ Stages \in Nat /\ Stages > 1 /\ 0 \in 0..Stages
    /\ MaxTime \in Nat /\ 0 \in 0..MaxTime /\ 0 \in Steps
    /\ MaxKills \in Nat /\ 0 \in 0..MaxKills
    /\ DtMin \in Nat \ {0}
BY StepAssumption, MethodAssumption, BoundAssumption DEF Steps

LEMMA TInit == Init => TInv
<1> SUFFICES ASSUME Init PROVE TInv
    OBVIOUS
<1>1. ts \in TS /\ ts.step <= ts.time
    BY Numbers, StepAssumption DEF Init, TS
<1>2. stats \in Stats
    BY DEF Init, Stats, NoStats
<1>3. TypeOK
    BY <1>1, <1>2, Numbers DEF Init, TypeOK
<1> QED BY <1>3 DEF Init, TInv, StepInv

LEMMA TStart == TInv /\ Start => TInv'
<1> SUFFICES ASSUME TInv, Start PROVE TInv'
    OBVIOUS
<1> USE DEF TInv
<1>1. ts'.dt \in Nat \ {0} /\ ts'.dt <= FirstDt /\ ts' = [step |-> 0, time |-> 0, dt |-> ts'.dt]
    BY InitializerSize, StepAssumption DEF Start
<1>2. ts' \in TS /\ Fits(ts')
    BY <1>1, Numbers, StepAssumption DEF TS, Fits
<1>3. stats' \in Stats
    BY DEF Start, Stats, NoStats
<1>4. TypeOK'
    BY <1>2, <1>3, Numbers DEF TypeOK, Start, Ready, InitializeModel, Fits
<1>5. StepInv'
    BY <1>2 DEF StepInv, Start, Ready
<1> QED BY <1>4, <1>5

LEMMA TResume == TInv /\ Resume => TInv'
<1> SUFFICES ASSUME TInv, Resume PROVE TInv'
    OBVIOUS
<1> USE DEF TInv
<1>1. file \in Checkpoint
    BY DEF TypeOK, Resume
<1>2. ts' \in TS /\ Fits(ts')
    BY <1>1 DEF Resume, RestoreTS, StepInv, Checkpoint
<1>3. limit' \in Limits /\ solid' \in Nat /\ wasted' \in Nat /\ stats' \in Stats
    BY <1>1 DEF Resume, Restore, RestoreSubDomain, RestoreSolid, RestoreStats, Checkpoint
<1>4. TypeOK'
    BY <1>2, <1>3, Numbers DEF TypeOK, Resume, Ready, InitializeModel, Fits
<1>5. StepInv'
    BY <1>2 DEF StepInv, Resume, Ready
<1> QED BY <1>4, <1>5

(* A sample keeps the sums numbers.                                         *)
LEMMA SampleType == TypeOK => WithSample \in Stats
BY DEF TypeOK, WithSample, Stats, TS

LEMMA TMonitor == TInv /\ Monitor => TInv'
<1> SUFFICES ASSUME TInv, Monitor PROVE TInv'
    OBVIOUS
<1> USE DEF TInv
<1>1. Fits(ts) /\ ts \in TS /\ ts.step \in Steps
    BY DEF Monitor, StepInv, TypeOK, TS
<1>2. \/ file' = file
      \/ /\ file' \in Checkpoint
         /\ file'.ts = ts /\ file'.step = ts.step /\ ts.step \in SaveSteps
    BY <1>1 DEF Monitor, Save, Saved, TypeOK, Checkpoint
<1>3. stats' \in Stats
    BY SampleType DEF Monitor, MonitorStats
<1>4. TypeOK'
    BY <1>2, <1>3 DEF TypeOK, Monitor, boundary
<1>5. file' # NoFile => Fits(file'.ts) /\ file'.step = file'.ts.step /\ file'.step \in SaveSteps
    BY <1>1, <1>2 DEF StepInv
<1>6. pc' = "stage" => stage' = 0 /\ ts'.time < MaxTime
    BY DEF Monitor, StepInv
<1>7. pc' \in {"stage", "done"} /\ ts' = ts
    BY DEF Monitor
<1>8. StepInv'
    BY <1>1, <1>5, <1>6, <1>7, Numbers DEF StepInv
<1> QED BY <1>4, <1>8

LEMMA TStage == TInv /\ Stage => TInv'
<1> SUFFICES ASSUME TInv, Stage PROVE TInv'
    OBVIOUS
<1> USE DEF TInv
<1>1. ts.dt \in Nat /\ ts.step \in Steps /\ stage \in Nat /\ stage < Stages
    BY Numbers DEF TypeOK, TS, Stage, StepInv
<1>2. stage' = stage + 1 /\ stage' \in 0..Stages
    BY <1>1, Numbers DEF Stage
<1>3. runInitialStep' \in BOOLEAN /\ (Reused => stage = 0) /\ (~Reused => ~runInitialStep')
    BY DEF Stage, Reused, PreStage, TypeOK
<1>4. solid' \in Nat /\ wall' \in Nat /\ gains' \in Steps \cup {Never}
  <2>1. CASE Reused
      BY <2>1 DEF Stage, boundary, TypeOK
  <2>2. CASE ~Reused
    <3>1. solid' \in Nat /\ wall' \in Nat
        BY <1>1, <2>2 DEF Stage, UpdateSolid, UpdateWall, SolveSolid, TypeOK
    <3>2. gains' \in Steps \cup {Never}
        BY <1>1, <2>2 DEF Stage, EvaluateGains, TypeOK
    <3> QED BY <3>1, <3>2
  <2> QED BY <2>1, <2>2
<1>5. TypeOK'
    BY <1>2, <1>3, <1>4 DEF TypeOK, Stage
<1>6. pc' = "stage" => stage' < Stages
    BY <1>2, Numbers DEF Stage
<1>7. stage' > 1 => ~runInitialStep'
  <2>1. stage' > 1 => stage # 0
      BY <1>1, <1>2
  <2> QED BY <1>3, <2>1
<1>8. StepInv'
    BY <1>6, <1>7 DEF StepInv, Stage
<1> QED BY <1>5, <1>8

LEMMA TChoose == TInv /\ Choose => TInv'
<1> SUFFICES ASSUME TInv, Choose PROVE TInv'
    OBVIOUS
<1> USE DEF TInv
<1>1. /\ ts \in TS /\ ts.step \in Nat /\ ts.time \in Nat /\ ts.dt \in Nat \ {0}
      /\ ts.step <= ts.time /\ ts.time < MaxTime /\ ts.time + ts.dt <= MaxTime
    BY DEF TypeOK, TS, Steps, Choose, StepInv, Fits
<1>2. /\ stage' = 0
      /\ UNCHANGED <<method, runInitialStep, solid, wall, gains, stats, file, kills>>
    BY DEF Choose, boundary
<1>3. CASE \E l \in Limits, h \in Nat \ {0} : Accept(l, h)
  <2>1. PICK l \in Limits, h \in Nat \ {0} : Accept(l, h)
      BY <1>3
  <2> DEFINE t == ts.time + ts.dt
  <2>2. t \in 0..MaxTime /\ ts.step + 1 \in Steps /\ ts.step + 1 <= t
      BY <1>1, Numbers DEF Steps
  <2>3. ts' = [step |-> ts.step + 1, time |-> t, dt |-> MatchStep(t, h)]
      BY <2>1 DEF Accept
  <2>4. ts' \in TS /\ Fits(ts')
      BY <2>2, <2>3, MatchStepSize DEF TS, Fits
  <2>5. TypeOK'
      BY <1>2, <2>1, <2>4, Numbers DEF TypeOK, Accept, Fits
  <2>6. StepInv'
      BY <1>2, <2>1, <2>4 DEF StepInv, Accept
  <2> QED BY <2>5, <2>6
<1>4. CASE \E h \in Nat \ {0} : h < ts.dt /\ Refuse(h)
  <2>1. PICK h \in Nat \ {0} : h < ts.dt /\ Refuse(h)
      BY <1>4
  <2>2. ts' = [ts EXCEPT !.dt = h]
      BY <2>1 DEF Refuse
  <2>3. ts' \in TS /\ Fits(ts') /\ ts'.time = ts.time
      BY <1>1, <2>1, <2>2, Numbers DEF TS, Fits
  <2>4. TypeOK'
    <3>1. wasted' \in Nat /\ refused' \in Nat
        BY <1>1, <2>1 DEF Refuse, TypeOK
    <3> QED BY <1>2, <2>1, <2>3, <3>1, Numbers DEF TypeOK, Refuse, Fits
  <2>5. StepInv'
      BY <1>1, <1>2, <2>1, <2>3, Numbers DEF StepInv, Refuse
  <2> QED BY <2>4, <2>5
<1> QED BY <1>3, <1>4, ChooseCases

LEMMA TKill == TInv /\ Kill => TInv'
<1> SUFFICES ASSUME TInv, Kill PROVE TInv'
    OBVIOUS
<1>1. kills' \in 0..MaxKills
    BY Numbers DEF Kill, TInv, TypeOK
<1> QED BY <1>1 DEF Kill, TInv, TypeOK, StepInv, stepping, boundary

(* Steps that change nothing.                                               *)
LEMMA TSame == TInv /\ UNCHANGED vars => TInv'
BY DEF TInv, TypeOK, StepInv, Fits, vars, stepping, boundary

LEMMA TNext == TInv /\ [Next]_vars => TInv'
BY TStart, TResume, TMonitor, TStage, TChoose, TKill, TSame DEF Next, Job, Finished

(* Every variable keeps its type: in particular a time step is never zero   *)
(* and no step goes past ts_max_time.                                       *)
THEOREM TypeCorrect == Spec => []TypeOK
<1>1. TInv => TypeOK
    BY DEF TInv
<1> QED BY <1>1, TInit, TNext, PTL DEF Spec

-----------------------------------------------------------------------------
(* What the steps of the loop do, as far as the invariants below see it.    *)

(* A job begins before its first step.                                      *)
LEMMA Begins ==
    ASSUME TInv, Start \/ Resume
    PROVE  pc' = "monitor" /\ UNCHANGED <<method, file>>
BY DEF Start, Resume, Ready

(* The monitors come before the first stage of a step.                      *)
LEMMA Monitors ==
    ASSUME TInv, Monitor
    PROVE  /\ pc' = "done" \/ (pc' = "stage" /\ PreStage')
           /\ UNCHANGED <<method, ts, limit, boundary>>
BY DEF TInv, StepInv, Monitor, PreStage

(* A stage that is not evaluated leaves the boundary to the next one.       *)
LEMMA StageCases ==
    ASSUME TInv, Stage
    PROVE  /\ UNCHANGED <<method, ts, limit, stats, file>>
           /\ \/ Reused /\ PreStage /\ pc' = "stage" /\ PreStage' /\ UNCHANGED boundary
              \/ /\ ~Reused /\ EvaluateGains(PreStage) /\ UpdateSolid(PreStage)
                 /\ pc' = "choose" \/ (pc' = "stage" /\ ~PreStage')
<1>1. stage \in Nat /\ stage' = stage + 1
    BY Numbers DEF TInv, TypeOK, Stage
<1>2. CASE Reused
  <2>1. stage = 0 /\ PreStage
      BY <1>2 DEF Reused, PreStage
  <2>2. pc' = "stage"
      BY <1>1, <2>1, Numbers DEF Stage
  <2>3. PreStage' /\ UNCHANGED boundary
      BY <1>2, <2>1 DEF Stage, PreStage
  <2> QED BY <1>2, <2>1, <2>2, <2>3 DEF Stage
<1>3. CASE ~Reused
  <2>1. stage' # 0 /\ ~runInitialStep'
      BY <1>1, <1>3 DEF Stage
  <2>2. ~PreStage'
      BY <2>1 DEF PreStage
  <2> QED BY <1>3, <2>2 DEF Stage
<1> QED BY <1>2, <1>3

-----------------------------------------------------------------------------
(* The solid.                                                               *)

LEMMA SolidStep == TInv /\ SolidInv /\ [Next]_vars => SolidInv'
<1> SUFFICES ASSUME TInv, SolidInv, [Next]_vars PROVE SolidInv'
    OBVIOUS
<1>1. ts.time \in Nat /\ ts.dt \in Nat /\ solid \in Nat /\ wasted \in Nat
    BY Numbers DEF TInv, TypeOK, TS
<1>2. CASE Start
  <2>1. ts'.time = 0 /\ solid' = 0 /\ wasted' = 0 /\ file' = NoFile
      BY <1>2 DEF Start, Ready
  <2> QED BY <1>2, <2>1, Begins DEF SolidInv, Level
<1>3. CASE Resume
    BY <1>3, Begins DEF SolidInv, Level, Resume, Restore, RestoreSolid, RestoreTS
<1>4. CASE Monitor
  <2>1. pc = "monitor" /\ Level(solid, wasted, ts.time) /\ wasted' = wasted
      BY <1>4 DEF Monitor, SolidInv
  <2>2. file' # NoFile => Level(file'.solid, file'.wasted, file'.ts.time)
      BY <1>4, <2>1 DEF Monitor, Save, Saved, SolidInv
  <2> QED BY <1>4, <2>1, <2>2, Monitors DEF SolidInv, Level, boundary
<1>5. CASE Stage
  <2>1. pc = "stage" /\ UNCHANGED <<method, ts, wasted, file>>
      BY <1>5 DEF Stage
  <2>2. CASE Reused
      BY <1>5, <2>1, <2>2, StageCases DEF SolidInv, Level, boundary
  <2>3. CASE ~Reused /\ PreStage
    <3>1. solid' = solid + ts.dt /\ Level(solid, wasted, ts.time)
        BY <1>5, <2>1, <2>3, StageCases DEF UpdateSolid, UpdateWall, SolveSolid, SolidInv
    <3>2. Level(solid', wasted, ts.time + ts.dt)
        BY <1>1, <3>1 DEF Level
    <3> QED BY <1>5, <2>1, <2>3, <3>2, StageCases DEF SolidInv, Level
  <2>4. CASE ~Reused /\ ~PreStage
    <3>1. solid' = solid
        BY <1>5, <2>4, StageCases DEF UpdateSolid
    <3> QED BY <1>5, <2>1, <2>4, <3>1, StageCases DEF SolidInv, Level
  <2> QED BY <2>2, <2>3, <2>4
<1>6. CASE Choose
  <2>1. Level(solid, wasted, ts.time + ts.dt) /\ UNCHANGED <<method, solid, file>> /\ stage' = 0
      BY <1>6 DEF Choose, SolidInv, boundary
  <2>2. CASE \E l \in Limits, h \in Nat \ {0} : Accept(l, h)
    <3>1. pc' = "monitor" /\ ts'.time = ts.time + ts.dt /\ wasted' = wasted
        BY <2>2 DEF Accept
    <3> QED BY <2>1, <3>1 DEF SolidInv, Level
  <2>3. CASE method.adapt = "constrained" /\ \E h \in Nat \ {0} : h < ts.dt /\ Refuse(h)
    <3>1. pc' \in {"stage", "failed"} /\ ts'.time = ts.time /\ wasted' = wasted + ts.dt
        BY <2>3 DEF Refuse, TInv, TypeOK, TS
    <3>2. PreStage'
        BY <2>1 DEF PreStage
    <3>3. solid = ts.time + (wasted + ts.dt)
        BY <1>1, <2>1 DEF Level
    <3>4. Level(solid', wasted', ts'.time)
        BY <2>1, <2>3, <3>1, <3>3 DEF Level
    <3> QED BY <2>1, <2>3, <3>1, <3>2, <3>4 DEF SolidInv, Level
  <2> QED BY <1>6, <2>2, <2>3, ChooseCases
<1>7. CASE Kill
    BY <1>7 DEF Kill, SolidInv, Level, stepping, boundary
<1>8. CASE UNCHANGED vars
    BY <1>8 DEF SolidInv, Level, PreStage, vars, stepping, boundary
<1> QED BY <1>2, <1>3, <1>4, <1>5, <1>6, <1>7, <1>8 DEF Next, Job, Finished

(* Each attempt of a step advances the solid once and nothing else does,    *)
(* with any number of stages, first stages that are not evaluated, refusals,*)
(* kills and restarts: at the end of a step it is where the flow is, but    *)
(* for the attempts that were refused.                                      *)
THEOREM SolidStaysInStep == Spec => []SolidInStep
<1>1. Init => SolidInv
    BY DEF Init, SolidInv
<1>2. TInv /\ SolidInv => SolidInStep
    BY DEF SolidInv, SolidInStep, Level
<1> QED BY <1>1, <1>2, TInit, TNext, SolidStep, PTL DEF Spec

-----------------------------------------------------------------------------
(* The radiation.                                                           *)

LEMMA GainsStep == RadiationWithSaves /\ TInv /\ GainsInv /\ [Next]_vars => GainsInv'
<1> SUFFICES ASSUME RadiationWithSaves, TInv, GainsInv, [Next]_vars PROVE GainsInv'
    OBVIOUS
<1>1. ts.step \in Nat /\ \A r \in RadiationSteps : r \in Nat
    BY Numbers, IntervalAssumption DEF TInv, TypeOK, TS, Steps
<1>2. CASE Start
  <2>1. ts'.step = 0
      BY <1>2 DEF Start
  <2> QED BY <1>2, <2>1, IntervalAssumption, Begins DEF GainsInv
<1>3. CASE Resume
  <2>1. ts'.step \in RadiationSteps
      BY <1>3 DEF Resume, RestoreTS, TInv, StepInv, RadiationWithSaves
  <2> QED BY <1>3, <2>1, Begins DEF GainsInv
<1>4. CASE Monitor
  <2>1. pc = "monitor"
      BY <1>4 DEF Monitor
  <2> QED BY <1>4, <2>1, Monitors DEF GainsInv, LastDue, boundary
<1>5. CASE Stage
  <2>1. pc = "stage" /\ UNCHANGED ts
      BY <1>5 DEF Stage
  <2>2. CASE Reused
      BY <1>5, <2>1, <2>2, StageCases DEF GainsInv, LastDue, boundary
  <2>3. CASE ~Reused
    <3>1. LastDue(gains', ts.step)
      <4>1. CASE PreStage /\ ts.step \in RadiationSteps
        <5>1. gains' = ts.step
            BY <1>5, <2>3, <4>1, StageCases DEF EvaluateGains
        <5> QED BY <1>1, <4>1, <5>1 DEF LastDue
      <4>2. CASE ~(PreStage /\ ts.step \in RadiationSteps)
        <5>1. gains' = gains
            BY <1>5, <2>3, <4>2, StageCases DEF EvaluateGains
        <5> QED BY <2>1, <4>2, <5>1 DEF GainsInv
      <4> QED BY <4>1, <4>2
    <3> QED BY <1>5, <2>1, <2>3, <3>1, StageCases DEF GainsInv, LastDue
  <2> QED BY <2>2, <2>3
<1>6. CASE Choose
  <2>1. LastDue(gains, ts.step) /\ UNCHANGED gains /\ stage' = 0
      BY <1>6 DEF Choose, GainsInv, boundary
  <2>2. CASE \E l \in Limits, h \in Nat \ {0} : Accept(l, h)
    <3>1. pc' = "monitor" /\ ts'.step = ts.step + 1
        BY <2>2 DEF Accept
    <3>2. ts'.step \in RadiationSteps \/ LastDue(gains, ts'.step)
        BY <1>1, <2>1, <3>1 DEF LastDue
    <3> QED BY <2>1, <3>1, <3>2 DEF GainsInv, LastDue
  <2>3. CASE \E h \in Nat \ {0} : h < ts.dt /\ Refuse(h)
    <3>1. pc' \in {"stage", "failed"} /\ ts'.step = ts.step
        BY <2>3 DEF Refuse, TInv, TypeOK, TS
    <3>2. PreStage'
        BY <2>1 DEF PreStage
    <3> QED BY <2>1, <3>1, <3>2 DEF GainsInv, LastDue
  <2> QED BY <1>6, <2>2, <2>3, ChooseCases
<1>7. CASE Kill
    BY <1>7 DEF Kill, GainsInv
<1>8. CASE UNCHANGED vars
    BY <1>8 DEF GainsInv, LastDue, PreStage, vars, stepping, boundary
<1> QED BY <1>2, <1>3, <1>4, <1>5, <1>6, <1>7, <1>8 DEF Next, Job, Finished

(* The gains a step uses are those of the last step at which radiation was  *)
(* due, although they are not saved and the first stage may not look.       *)
THEOREM GainsStayDue == Spec => []GainsOfLastDue
<1> DEFINE I == RadiationWithSaves => GainsInv
<1>1. Init => I
    BY DEF Init, GainsInv
<1>2. TInv /\ I /\ [Next]_vars => I'
    BY GainsStep DEF RadiationWithSaves
<1>3. TInv /\ I => GainsOfLastDue
  <2> SUFFICES ASSUME TInv, I, RadiationWithSaves, pc = "choose" \/ (pc = "stage" /\ stage > 1)
               PROVE  LastDue(gains, ts.step)
      BY DEF GainsOfLastDue, LastDue
  <2>1. pc = "stage" => ~runInitialStep /\ stage # 0
      BY Numbers DEF TInv, TypeOK, StepInv
  <2> QED BY <2>1 DEF GainsInv, PreStage
<1> QED BY <1>1, <1>2, <1>3, TInit, TNext, PTL DEF Spec

-----------------------------------------------------------------------------
(* The time step.                                                           *)

LEMMA DtStep ==
    TInv /\ (method.adapt # "unestimated" => DtInv) /\ [Next]_vars
        => (method.adapt # "unestimated" => DtInv)'
<1> SUFFICES ASSUME TInv, method.adapt # "unestimated" => DtInv, [Next]_vars,
                    method'.adapt # "unestimated"
             PROVE  DtInv'
    OBVIOUS
<1>1. UNCHANGED method
    BY DEF Next, Job, Start, Resume, Ready, Monitor, Stage, Choose, Kill, Finished, vars
<1>2. DtInv /\ method.adapt # "unestimated"
    BY <1>1
<1>3. CASE Start
  <2>1. PICK l \in Limits : limit' = l /\ ts'.dt = AdaptInitializer(FirstDt, l) /\ file' = NoFile
      BY <1>3 DEF Start, Ready
  <2>2. ts'.dt \in Nat /\ Safe[l] \in Nat /\ l \in Nat /\ Safe[l] <= l /\ DtMin \in Nat
        /\ ts'.dt <= Larger(DtMin, Safe[l])
      BY <2>1, InitializerSize, StepAssumption
  <2>3. ts'.dt <= Larger(DtMin, AllowedBy(l))
      BY <2>2 DEF Larger, AllowedBy
  <2> QED BY <1>1, <2>1, <2>3 DEF DtInv, AllowedBy
<1>4. CASE Resume
    BY <1>1, <1>2, <1>4 DEF DtInv, AllowedBy, Resume, Ready, Restore, RestoreSubDomain, RestoreTS
<1>5. CASE Monitor
    BY <1>1, <1>2, <1>5 DEF DtInv, AllowedBy, Monitor, Save, Saved
<1>6. CASE Stage
    BY <1>1, <1>2, <1>6 DEF DtInv, AllowedBy, Stage
<1>7. CASE Choose
  <2>1. /\ ts.dt <= Larger(DtMin, AllowedBy(limit)) /\ file' = file
        /\ ts.dt \in Nat /\ ts.time \in Nat /\ Larger(DtMin, AllowedBy(limit)) \in Int
    <3>1. Safe[limit] \in Nat /\ limit \in Nat
        BY StepAssumption DEF TInv, TypeOK
    <3> QED BY <1>2, <1>7, <3>1, Numbers DEF Choose, DtInv, TInv, TypeOK, TS, Larger, AllowedBy
  <2>2. CASE \E l \in Limits, h \in Nat \ {0} :
                 Accept(l, h) /\ h <= Larger(DtMin, AllowedBy(l))
    <3>1. PICK l \in Limits, h \in Nat \ {0} :
                 Accept(l, h) /\ h <= Larger(DtMin, AllowedBy(l))
        BY <2>2
    <3>2. ts.time + ts.dt \in 0..MaxTime
        BY <1>7, <2>1, Numbers DEF TInv, StepInv, Fits, Choose
    <3>3. MatchStep(ts.time + ts.dt, h) \in Nat /\ MatchStep(ts.time + ts.dt, h) <= h
        BY <3>2, MatchStepSize
    <3>4. Larger(DtMin, AllowedBy(l)) \in Int
      <4>1. Safe[l] \in Nat /\ l \in Nat
          BY StepAssumption
      <4> QED BY <4>1, Numbers DEF Larger, AllowedBy
    <3>5. MatchStep(ts.time + ts.dt, h) <= Larger(DtMin, AllowedBy(l))
        BY <3>1, <3>3, <3>4
    <3>6. ts'.dt = MatchStep(ts.time + ts.dt, h) /\ limit' = l
        BY <3>1 DEF Accept
    <3> QED BY <1>1, <1>2, <2>1, <3>5, <3>6 DEF DtInv, AllowedBy
  <2>3. CASE \E h \in Nat \ {0} : h < ts.dt /\ Refuse(h)
    <3>1. PICK h \in Nat \ {0} : h < ts.dt /\ Refuse(h)
        BY <2>3
    <3>2. ts'.dt = h /\ limit' = limit
        BY <3>1 DEF Refuse, TInv, TypeOK, TS
    <3>3. h <= Larger(DtMin, AllowedBy(limit))
        BY <2>1, <3>1
    <3> QED BY <1>1, <1>2, <2>1, <3>2, <3>3 DEF DtInv, AllowedBy
  <2> QED BY <1>2, <1>7, <2>2, <2>3, ChooseCases
<1>8. CASE Kill
    BY <1>1, <1>2, <1>8 DEF DtInv, AllowedBy, Kill
<1>9. CASE UNCHANGED vars
    BY <1>2, <1>9 DEF DtInv, AllowedBy, vars
<1> QED BY <1>3, <1>4, <1>5, <1>6, <1>7, <1>8, <1>9 DEF Next, Job, Finished

(* No attempt is longer than the solution it starts from allows, whatever   *)
(* the limits, the options and the error estimates are.                     *)
THEOREM DtStaysWithinPhysics == Spec => []DtWithinPhysics
<1> DEFINE I == method.adapt # "unestimated" => DtInv
<1>1. Init => I
    BY DEF Init, DtInv
<1>2. TInv /\ I /\ [Next]_vars => I'
    BY DtStep
<1>3. I => DtWithinPhysics
    BY DEF DtInv, DtWithinPhysics, Allowed, AllowedBy
<1> QED BY <1>1, <1>2, <1>3, TInit, TNext, PTL DEF Spec

-----------------------------------------------------------------------------
(* The statistics.                                                          *)

(* The sums at the beginning of a step, and with its sample.                *)
Before(st, s, t) ==
    /\ \A r \in Steps : st.taken[r] = IF r \in StatsSteps /\ r < s THEN 1 ELSE 0
    /\ Steps \subseteq StatsSteps /\ method.adapt # "constrained" => st.dtSum = t

(* After the sample of a step come the sums of the next one's beginning.    *)
LEMMA SampleBefore ==
    ASSUME TInv, Before(stats, ts.step, ts.time)
    PROVE  Before(WithSample, ts.step + 1, ts.time + ts.dt)
<1>1. /\ ts.step \in Steps /\ ts.time \in Nat /\ ts.dt \in Nat
      /\ stats.taken \in [Steps -> Nat] /\ stats.dtSum \in Nat
    BY Numbers DEF TInv, TypeOK, TS, Stats
<1>2. \A r \in Steps : r \in Int
    BY DEF Steps
<1>3. ASSUME NEW r \in Steps
      PROVE  WithSample.taken[r] = IF r \in StatsSteps /\ r < ts.step + 1 THEN 1 ELSE 0
  <2>1. CASE r = ts.step
      BY <1>1, <1>2, <2>1 DEF WithSample, Before
  <2>2. CASE r # ts.step
      BY <1>1, <1>2, <2>2 DEF WithSample, Before
  <2> QED BY <2>1, <2>2
<1>4. Steps \subseteq StatsSteps /\ method.adapt # "constrained"
         => WithSample.dtSum = ts.time + ts.dt
    BY <1>1 DEF WithSample, Before
<1> QED BY <1>3, <1>4 DEF Before

LEMMA StatsAsBefore ==
    ASSUME TInv
    PROVE  StatsOnce <=> /\ pc = "monitor" => Before(stats, ts.step, ts.time)
                         /\ pc \in {"stage", "choose", "done"} =>
                                Before(stats, ts.step + 1, ts.time + ts.dt)
<1>1. ts.step \in Int /\ \A r \in Steps : r \in Int
    BY Numbers DEF TInv, TypeOK, TS, Steps
<1>2. \A r \in Steps : r < ts.step + 1 <=> r < ts.step \/ r = ts.step
    BY <1>1
<1>3. pc \in {"down", "monitor", "stage", "choose", "done", "failed"}
    BY DEF TInv, TypeOK
<1>4. CASE pc = "monitor"
    BY <1>4 DEF StatsOnce, Sampled, Before
<1>5. CASE pc \in {"stage", "choose", "done"}
  <2>1. \A r \in Steps : Sampled(r) <=> r < ts.step + 1
      BY <1>2, <1>5 DEF Sampled
  <2> QED BY <1>5, <2>1 DEF StatsOnce, Before
<1>6. CASE pc \in {"down", "failed"}
    BY <1>6 DEF StatsOnce
<1> QED BY <1>3, <1>4, <1>5, <1>6

(* The sums of a checkpoint do not have the step that it is at.             *)
StatsBefore ==
    /\ pc = "monitor" => Before(stats, ts.step, ts.time)
    /\ pc \in {"stage", "choose", "done"} => Before(stats, ts.step + 1, ts.time + ts.dt)
    /\ file # NoFile => Before(file.stats, file.ts.step, file.ts.time)

LEMMA StatsStep == TInv /\ StatsBefore /\ [Next]_vars => StatsBefore'
<1> SUFFICES ASSUME TInv, StatsBefore, [Next]_vars PROVE StatsBefore'
    OBVIOUS
<1>1. CASE Start
  <2>1. ts'.step = 0 /\ ts'.time = 0 /\ stats' = NoStats /\ file' = NoFile
      BY <1>1 DEF Start, Ready
  <2>2. Before(NoStats, 0, 0) /\ UNCHANGED method
      BY <1>1, Begins DEF Before, NoStats, Steps
  <2> QED BY <1>1, <2>1, <2>2, Begins DEF StatsBefore, Before
<1>2. CASE Resume
    BY <1>2, Begins DEF StatsBefore, Before, Resume, Restore, RestoreStats, RestoreTS
<1>3. CASE Monitor
  <2>1. Before(stats, ts.step, ts.time) /\ pc' \in {"stage", "done"}
      BY <1>3 DEF Monitor, StatsBefore
  <2>2. Before(stats', ts.step + 1, ts.time + ts.dt)
      BY <1>3, <2>1, SampleBefore DEF Monitor, MonitorStats
  <2>3. file' # NoFile => Before(file'.stats, file'.ts.step, file'.ts.time)
      BY <1>3, <2>1 DEF Monitor, Save, Saved, StatsBefore
  <2> QED BY <1>3, <2>1, <2>2, <2>3, Monitors DEF StatsBefore, Before
<1>4. CASE Stage
    BY <1>4 DEF Stage, StatsBefore, Before
<1>5. CASE Choose
  <2>1. Before(stats, ts.step + 1, ts.time + ts.dt) /\ UNCHANGED <<method, stats, file>>
      BY <1>5 DEF Choose, StatsBefore
  <2>2. CASE \E l \in Limits, h \in Nat \ {0} : Accept(l, h)
    <3>1. pc' = "monitor" /\ ts'.step = ts.step + 1 /\ ts'.time = ts.time + ts.dt
        BY <2>2 DEF Accept
    <3> QED BY <2>1, <3>1 DEF StatsBefore, Before
  <2>3. CASE method.adapt = "constrained" /\ \E h \in Nat \ {0} : h < ts.dt /\ Refuse(h)
    <3>1. pc' \in {"stage", "failed"} /\ ts'.step = ts.step
        BY <2>3 DEF Refuse, TInv, TypeOK, TS
    <3> QED BY <2>1, <2>3, <3>1 DEF StatsBefore, Before
  <2> QED BY <1>5, <2>2, <2>3, ChooseCases
<1>6. CASE Kill
    BY <1>6 DEF Kill, StatsBefore, Before
<1>7. CASE UNCHANGED vars
    BY <1>7 DEF StatsBefore, Before, vars
<1> QED BY <1>1, <1>2, <1>3, <1>4, <1>5, <1>6, <1>7 DEF Next, Job, Finished

(* The sums of the statistics have each due step once.                      *)
THEOREM StatsCountOnce == Spec => []StatsOnce
<1>1. Init => StatsBefore
    BY DEF Init, StatsBefore
<1>2. TInv /\ StatsBefore => StatsOnce
    BY StatsAsBefore DEF StatsBefore
<1> QED BY <1>1, <1>2, TInit, TNext, StatsStep, PTL DEF Spec
=============================================================================
