----------------------------- MODULE TimeStepLoop -----------------------------
(***************************************************************************)
(* ablate::solver::TimeStepper with what follows its clock: the adaptors   *)
(* AdaptPhysics and AdaptPhysicsConstrained, a sublimating boundary with   *)
(* its one dimensional solid (src/boundarySolver/physics) and radiation,   *)
(* and the statistics of TurbFlowStats, over refused attempts, kills and   *)
(* restarts.                                                               *)
(*                                                                         *)
(* The solver's steps are collective, so that a job is one process.  The   *)
(* solution is known by the largest time step that it allows, a            *)
(* temperature of the solid by the time it was advanced to.  TSSolve and   *)
(* TSStep_RK are PETSc's.                                                  *)
(***************************************************************************)
EXTENDS Integers

CONSTANTS
    Methods,         \* [adapt, fsal] given by the options: the adaptor, and whether
                     \* the tableau's last stage is the first of the next step
    Stages,
    Limits,          \* what ComputePhysicsTimeStep may return
    Safe,            \* a limit times adapt->safety
    DtMin, DtMax,    \* -ts_adapt_dt_min, -ts_adapt_dt_max
    FirstDt,         \* -ts_dt
    MaxTime,         \* bound: -ts_max_time
    MaxReject,       \* -ts_max_reject
    SaveSteps,       \* the steps at which the interval of the serializer is due,
    RadiationSteps,  \* that of the radiation,
    StatsSteps,      \* that of the statistics
    MaxKills         \* bound: how many jobs are killed

ASSUME MethodAssumption ==
    /\ Methods \subseteq [adapt : {"physics", "constrained", "unestimated"}, fsal : BOOLEAN]
    /\ Stages \in Nat \ {0, 1}
ASSUME StepAssumption ==
    /\ Limits \subseteq Nat \ {0}
    /\ Safe \in [Limits -> Nat] /\ \A l \in Limits : Safe[l] <= l
    /\ DtMin \in Nat \ {0} /\ DtMax \in Nat /\ DtMin <= DtMax
    /\ FirstDt \in Nat \ {0} /\ MaxTime \in Nat /\ FirstDt <= MaxTime
ASSUME BoundAssumption == MaxReject \in Nat /\ MaxKills \in Nat
(* FixedInterval::Check begins with steps == 0.                             *)
ASSUME IntervalAssumption ==
    /\ SaveSteps \subseteq Nat /\ RadiationSteps \subseteq Nat /\ StatsSteps \subseteq Nat
    /\ 0 \in SaveSteps /\ 0 \in RadiationSteps /\ 0 \in StatsSteps

Never == -1
NoFile == [step |-> -1]

VARIABLES
    method,
    pc,
    ts,              \* step, time and time step of the TS
    limit,           \* of the solution
    stage,
    runInitialStep,
    restart,         \* TS::steprestart, the first stage is not reused
    refused,         \* attempts of this step that were refused
    solid,           \* the time the solid has been advanced to
    wasted,          \* how much of it refused attempts have added (read by no action)
    wall,            \* the time of the surface temperature in the boundary cells
    gains,           \* the step of evaluatedGains
    stats,           \* how often each step is in the sums, and the sum of their dt
    file,            \* the last checkpoint
    kills

stepping == <<stage, runInitialStep, restart, refused>>
boundary == <<solid, wall, gains>>
vars     == <<method, pc, ts, limit, stepping, boundary, wasted, stats, file, kills>>

(* A step is at least one unit of time long.                                *)
Steps == 0..MaxTime
NoStats == [taken |-> [s \in Steps |-> 0], dtSum |-> 0]

Smaller(a, b) == IF a < b THEN a ELSE b
Larger(a, b)  == IF a < b THEN b ELSE a

(* PetscClipInterval.                                                       *)
Clip(h) == Larger(DtMin, Smaller(h, DtMax))

Init ==
    /\ method \in Methods
    /\ pc = "down"
    /\ ts = [step |-> 0, time |-> 0, dt |-> FirstDt]
    /\ limit \in Limits
    /\ stage = 0 /\ runInitialStep = FALSE /\ restart = TRUE /\ refused = 0
    /\ solid = 0 /\ wasted = 0 /\ wall = 0 /\ gains = Never
    /\ stats = NoStats
    /\ file = NoFile /\ kills = 0

-----------------------------------------------------------------------------
(* TimeStepper::Initialize.  The initializer of either adaptor only shrinks *)
(* the time step, and RestoreTS comes after it.                             *)
AdaptInitializer(h, l) == Smaller(h, Clip(Safe[l]))

(* InitializeSubDomains: the solid as its initialization says, and the wall *)
(* with its surface temperature; no radiation was evaluated.                *)
InitializeModel == wall' = 0 /\ gains' = Never

Ready ==
    /\ pc = "down" /\ pc' = "monitor"
    /\ stage' = 0 /\ runInitialStep' = FALSE /\ restart' = TRUE /\ refused' = 0
    /\ InitializeModel
    /\ UNCHANGED <<method, file, kills>>

Start ==
    /\ file = NoFile
    /\ Ready
    /\ limit' \in Limits
    /\ ts' = [step |-> 0, time |-> 0, dt |-> AdaptInitializer(FirstDt, limit')]
    /\ solid' = 0 /\ wasted' = 0 /\ stats' = NoStats

(* Variant: the time step is that of the options.                           *)
RestoreTSWithoutDt == ts' = [file.ts EXCEPT !.dt = FirstDt]

RestoreTS == ts' = file.ts

(* The auxiliary fields of a SubDomain are saved and not read back.         *)
RestoreSubDomain == limit' = file.limit
RestoreSolid     == solid' = file.solid /\ wasted' = file.wasted
RestoreStats     == stats' = file.stats

(* RegisterSerializableComponents: Register restores what it registers.     *)
Restore == RestoreSubDomain /\ RestoreSolid /\ RestoreStats

Resume == file # NoFile /\ Ready /\ Restore /\ RestoreTS

-----------------------------------------------------------------------------
(* TSMonitor: the serializer, and after it the statistics.                  *)

(* The serializer has written or read a step that is not before this one.   *)
Written == ts.step <= file.step

(* The sums with the sample of this step.                                   *)
WithSample ==
    IF ts.step \in StatsSteps
    THEN [taken |-> [stats.taken EXCEPT ![ts.step] = @ + 1], dtSum |-> stats.dtSum + ts.dt]
    ELSE stats

Saved(sums) ==
    [step |-> ts.step, ts |-> ts, limit |-> limit, solid |-> solid, wasted |-> wasted, stats |-> sums]

(* Variant: the serializer is a monitor behind the statistics.              *)
SaveLast ==
    IF ts.step \in SaveSteps /\ ~Written
    THEN file' = Saved(WithSample)
    ELSE UNCHANGED file

Save ==
    IF ts.step \in SaveSteps /\ ~Written
    THEN file' = Saved(stats)
    ELSE UNCHANGED file

(* MonitorTurbFlowStats, for one field.                                     *)
MonitorStats == stats' = WithSample

(* The top of the loop of TSSolve, or what is after it.  PreStep functions  *)
(* that change the solution (UpdateSpecies) restart the method.             *)
Monitor ==
    /\ pc = "monitor"
    /\ Save /\ MonitorStats
    /\ \/ /\ ts.time < MaxTime
          /\ pc' = "stage"
          /\ restart' \in {restart, TRUE}
       \/ /\ ts.time = MaxTime
          /\ pc' = "done"
          /\ UNCHANGED restart
    /\ UNCHANGED <<method, ts, limit, stage, runInitialStep, refused, boundary, wasted, kills>>

-----------------------------------------------------------------------------
(* A stage of TSStep_RK.                                                    *)

(* Variant: the flag is that of the present stage.                          *)
PreStageNow == stage = 0

(* TSPreStageFunction: the flag stays until a right hand side is evaluated. *)
PreStage == runInitialStep \/ stage = 0

(* The stage has its right hand side from the step before.                  *)
Reused == method.fsal /\ ~restart /\ stage = 0

(* Variant: the radiation looks for the first stage itself.                 *)
EvaluateGainsAtStage(initialStage) ==
    gains' = IF stage = 0 /\ ts.step \in RadiationSteps THEN ts.step ELSE gains

(* SublimationPreRHS and VolumeRadiation::PreRHSFunction.                   *)
EvaluateGains(initialStage) ==
    gains' = IF initialStage /\ ts.step \in RadiationSteps THEN ts.step ELSE gains

(* OneDimensionHeatTransfer::Solve: another time step from where it is.     *)
SolveSolid == solid' = solid + ts.dt

(* UpdateBoundaryHeatTransferModel.                                         *)
UpdateWall == SolveSolid /\ wall' = solid'

(* ComputeBoundaryPreRHSPointFunction, for one face.                        *)
UpdateSolid(initialStage) ==
    IF initialStage THEN UpdateWall ELSE UNCHANGED <<solid, wall>>

Stage ==
    /\ pc = "stage"
    /\ \/ /\ Reused
          /\ runInitialStep' = PreStage
          /\ UNCHANGED boundary
       \/ /\ ~Reused
          /\ EvaluateGains(PreStage) /\ UpdateSolid(PreStage)
          /\ runInitialStep' = FALSE
    /\ stage' = stage + 1
    /\ pc' = IF stage' = Stages THEN "choose" ELSE "stage"
    /\ UNCHANGED <<method, ts, limit, restart, refused, wasted, stats, file, kills>>

-----------------------------------------------------------------------------
(* TSAdaptChoose.  The solution is already that of the end of the attempt,  *)
(* which allows l.                                                          *)

(* TS_EXACTFINALTIME_MATCHSTEP: a step h from time t ends at MaxTime or is  *)
(* followed by one that is not much smaller.                                *)
MatchStep(t, h) ==
    LET rest == MaxTime - t
    IN IF t >= MaxTime THEN h
       ELSE IF h > rest THEN rest
       ELSE IF h < rest /\ 2 * h > rest THEN rest \div 2
       ELSE h

Accept(l, h) ==
    LET t == ts.time + ts.dt
    IN /\ ts' = [step |-> ts.step + 1, time |-> t, dt |-> MatchStep(t, h)]
       /\ limit' = l
       /\ pc' = "monitor" /\ restart' = FALSE /\ refused' = 0
       /\ UNCHANGED wasted

(* TSRollBack, and another attempt with h if there may be one.              *)
Refuse(h) ==
    /\ ts' = [ts EXCEPT !.dt = h]
    /\ refused' = refused + 1 /\ wasted' = wasted + ts.dt
    /\ pc' = IF refused' > MaxReject THEN "failed" ELSE "stage"
    /\ UNCHANGED <<limit, restart>>

(* Variant: without the interval of the options.                            *)
ChoosePhysicsUnclipped(l) == method.adapt = "physics" /\ Accept(l, Safe[l])

(* AdaptPhysics::TSAdaptChoose.                                             *)
ChoosePhysics(l) == method.adapt = "physics" /\ Accept(l, Clip(Safe[l]))

(* AdaptPhysicsConstrained::TSAdaptChoose: h is what the error estimate     *)
(* asks for.                                                                *)
NextDt(h, l) == Smaller(h, l)

Estimated(l) ==
    /\ method.adapt = "constrained"
    /\ \E h \in DtMin..DtMax : Accept(l, NextDt(h, l))

(* Variant: an attempt of the smallest size may be refused too.             *)
TooLargeAtMinimum(l) ==
    /\ method.adapt = "constrained"
    /\ \E h \in DtMin..DtMax : h <= ts.dt /\ Refuse(NextDt(h, l))

TooLarge(l) ==
    /\ method.adapt = "constrained" /\ ts.dt > DtMin
    /\ \E h \in DtMin..DtMax : h < ts.dt /\ Refuse(NextDt(h, l))

(* The same with a method that estimates no error.                          *)
Unestimated(l) == method.adapt = "unestimated" /\ Accept(l, ts.dt)

Choose ==
    /\ pc = "choose"
    /\ \E l \in Limits : ChoosePhysics(l) \/ Estimated(l) \/ TooLarge(l) \/ Unestimated(l)
    /\ stage' = 0
    /\ UNCHANGED <<method, runInitialStep, boundary, stats, file, kills>>

-----------------------------------------------------------------------------
(* A kill, or the end of a job that another one follows.                    *)
Kill ==
    /\ pc # "down" /\ kills < MaxKills
    /\ pc' = "down" /\ kills' = kills + 1
    /\ UNCHANGED <<method, ts, limit, stepping, boundary, wasted, stats, file>>

Finished == pc \in {"done", "failed"} /\ UNCHANGED vars

Job  == Start \/ Resume \/ Monitor \/ Stage \/ Choose
Next == Job \/ Kill \/ Finished

Spec == Init /\ [][Next]_vars

(* The program goes on while it can, and a job that was killed is started   *)
(* again.                                                                   *)
FairSpec == Spec /\ WF_vars(Job)

-----------------------------------------------------------------------------
(* Properties.                                                              *)

Stats == [taken : [Steps -> Nat], dtSum : Nat]
TS    == [step : Steps, time : 0..MaxTime, dt : Nat \ {0}]
Checkpoint == [step : Steps, ts : TS, limit : Limits, solid : Nat, wasted : Nat, stats : Stats]

(* The time step is never zero, and no step goes past ts_max_time: every    *)
(* adaptor, with PETSc's last step, keeps both.                             *)
TypeOK ==
    /\ method \in Methods
    /\ pc \in {"down", "monitor", "stage", "choose", "done", "failed"}
    /\ ts \in TS /\ ts.step <= ts.time
    /\ limit \in Limits
    /\ stage \in 0..Stages /\ runInitialStep \in BOOLEAN /\ restart \in BOOLEAN /\ refused \in Nat
    /\ solid \in Nat /\ wasted \in Nat /\ wall \in Nat
    /\ gains \in Steps \cup {Never}
    /\ stats \in Stats
    /\ file \in Checkpoint \cup {NoFile}
    /\ kills \in 0..MaxKills

(* The solid is advanced once by every attempt of a step and by nothing     *)
(* else, also when the first stage of a step is not evaluated and when a    *)
(* job resumes: it is ahead of the flow by exactly the attempts that were   *)
(* refused, and by none with an adaptor that refuses none.                  *)
SolidInStep ==
    /\ pc \in {"monitor", "done"} => solid = ts.time + wasted
    /\ pc = "choose" => solid = ts.time + ts.dt + wasted
    /\ method.adapt # "constrained" => wasted = 0

(* Every checkpoint is at a step at which radiation is due.                 *)
RadiationWithSaves == SaveSteps \subseteq RadiationSteps

(* Once a step evaluates the boundary, it uses the gains of the last step   *)
(* at which radiation was due, also in a resumed job, if radiation is due   *)
(* wherever a job may resume.                                               *)
GainsOfLastDue ==
    RadiationWithSaves /\ (pc = "choose" \/ (pc = "stage" /\ stage > 1)) =>
        /\ gains \in RadiationSteps /\ gains <= ts.step
        /\ \A s \in RadiationSteps : s <= ts.step => s <= gains

(* What the solution allows, in the sense of the adaptor.                   *)
Allowed == IF method.adapt = "physics" THEN Safe[limit] ELSE limit

(* No attempt is longer than the solution it starts from allows, but for    *)
(* the minimum of the options: also the first of a job, the ones after a    *)
(* refusal (chosen from the solution that was rolled back) and the last.    *)
DtWithinPhysics ==
    pc \in {"stage", "choose"} /\ method.adapt # "unestimated" => ts.dt <= Larger(DtMin, Allowed)

(* Steps whose sample is in the sums.                                       *)
Sampled(s) == s < ts.step \/ (s = ts.step /\ pc \in {"stage", "choose", "done"})

(* Each due step is in the sums once, over any kills and restarts, and with *)
(* an adaptor that takes the step it plans the weights of the samples add   *)
(* up to the time they stand for.                                           *)
StatsOnce ==
    pc \notin {"down", "failed"} =>
        /\ \A s \in Steps : stats.taken[s] = IF s \in StatsSteps /\ Sampled(s) THEN 1 ELSE 0
        /\ Steps \subseteq StatsSteps /\ method.adapt # "constrained" =>
               stats.dtSum = IF pc = "monitor" THEN ts.time ELSE ts.time + ts.dt

(* A job gets to ts_max_time unless it is killed, also when attempts are    *)
(* refused: from the smallest time step on none is.  MaxReject must allow   *)
(* as many attempts as it takes to get there.                               *)
Finishes == []<>(pc = "done")

(* "The only item that needs to be explicitly restored is the flowField"    *)
(* (SubDomain::Restore): between steps the temperature of the wall, from    *)
(* which the heat flux of the next step is computed, is that of the solid.  *)
WallIsSurface == pc # "down" => wall = solid
=============================================================================
