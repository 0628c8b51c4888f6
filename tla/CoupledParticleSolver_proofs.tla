---------------------- MODULE CoupledParticleSolver_proofs ----------------------
(***************************************************************************)
(* Proofs about CoupledParticleSolver, for any number of particles and     *)
(* ranks, any step sizes and any number of restarts: no source is lost or  *)
(* counted twice, the vectors of the particle TS fit the swarm, and the    *)
(* pre-step coordinates are right from the second step on.                 *)
(***************************************************************************)
EXTENDS CoupledParticleSolver, FiniteSetTheorems, TLAPS

-----------------------------------------------------------------------------
(* The vectors of the particle TS.  Before a macro step they fit, or are    *)
(* not there, or every rank knows that the swarm has changed.               *)
FitInv ==
    /\ ResetAgreed
    /\ VectorsFit
    /\ dmChanged \in [Ranks -> BOOLEAN]
    /\ pc \in {"monitor", "step", "post"} =>
           \A r \in Ranks : dmChanged[r] \/ work[r] \in {NoWork, LocalSize(on, r)}

LEMMA InitFit == Init => FitInv
BY DEF Init, FitInv, ResetAgreed, VectorsFit

(* After a migration either a size has changed, and every rank sees it, or  *)
(* the vectors that fitted before still do.                                 *)
LEMMA MigrateFit == FitInv /\ SwarmMigrate => FitInv'
<1> SUFFICES ASSUME FitInv, SwarmMigrate PROVE FitInv'
    OBVIOUS
<1>1. dmChanged' = Changed
    BY DEF SwarmMigrate
<1>2. /\ ResetAgreed'
      /\ dmChanged' \in [Ranks -> BOOLEAN]
    BY <1>1 DEF ResetAgreed, Changed
<1>3. VectorsFit'
    BY DEF SwarmMigrate, VectorsFit
<1>4. ASSUME NEW r \in Ranks PROVE dmChanged'[r] \/ work'[r] = LocalSize(on', r)
  <2>1. work'[r] = LocalSize(on, r)
      BY DEF SwarmMigrate, FitInv, VectorsFit
  <2>2. LocalSize(on, r) # LocalSize(on', r) => Changed[r]
      BY DEF Changed
  <2> QED BY <1>1, <2>1, <2>2
<1>5. \A r \in Ranks : dmChanged'[r] \/ work'[r] \in {NoWork, LocalSize(on', r)}
    BY <1>4
<1> QED BY <1>2, <1>3, <1>5 DEF FitInv, LocalSize

LEMMA MacroStepFit == FitInv /\ MacroStep => FitInv'
<1> SUFFICES ASSUME FitInv, MacroStep PROVE FitInv'
    OBVIOUS
<1>1. dmChanged' = [r \in Ranks |-> FALSE]
    BY DEF MacroStep, ParticleStep
<1>2. ASSUME NEW r \in Ranks PROVE work'[r] = LocalSize(on, r)
  <2>1. work'[r] = IF dmChanged[r] \/ work[r] = NoWork THEN LocalSize(on, r) ELSE work[r]
      BY DEF MacroStep, ParticleStep
  <2>2. dmChanged[r] \/ work[r] \in {NoWork, LocalSize(on, r)}
      BY DEF MacroStep, FitInv
  <2> QED BY <2>1, <2>2
<1>3. pc' = "migrate" /\ on' = on
    BY DEF MacroStep
<1>4. VectorsFit'
    BY <1>2, <1>3 DEF VectorsFit, LocalSize
<1> QED BY <1>1, <1>3, <1>4 DEF FitInv, ResetAgreed

LEMMA NextFit == FitInv /\ [Next]_vars => FitInv'
<1> SUFFICES ASSUME FitInv, [Next]_vars PROVE FitInv'
    OBVIOUS
<1>1. CASE Start
    BY <1>1 DEF Start, FitInv, ResetAgreed, VectorsFit
<1>2. CASE Restore
    BY <1>2 DEF Restore, FitInv, ResetAgreed, VectorsFit
<1>3. CASE Monitor
    BY <1>3 DEF Monitor, swarm, solver, FitInv, ResetAgreed, VectorsFit, LocalSize
<1>4. CASE Stage
    BY <1>4 DEF Stage, swarm, solver, FitInv, ResetAgreed, VectorsFit, LocalSize
<1>5. CASE Reject
    BY <1>5 DEF Reject, swarm, solver, FitInv, ResetAgreed, VectorsFit, LocalSize
<1>6. CASE Accept
    BY <1>6 DEF Accept, swarm, solver, FitInv, ResetAgreed, VectorsFit, LocalSize
<1>7. CASE MacroStep
    BY <1>7, MacroStepFit
<1>8. CASE SwarmMigrate
    BY <1>8, MigrateFit
<1>9. CASE Kill
    BY <1>9 DEF Kill, swarm, solver, FitInv, ResetAgreed, VectorsFit, LocalSize
<1>10. CASE Finished \/ UNCHANGED vars
    BY <1>10 DEF Finished, vars, swarm, solver, FitInv, ResetAgreed, VectorsFit, LocalSize
<1> QED BY <1>1, <1>2, <1>3, <1>4, <1>5, <1>6, <1>7, <1>8, <1>9, <1>10 DEF Next

(* The particle TS never advances a swarm with vectors of another size.     *)
THEOREM VectorsAlwaysFit == Spec => []VectorsFit
<1>1. FitInv => VectorsFit
    BY DEF FitInv
<1> QED BY InitFit, NextFit, <1>1, PTL DEF Spec

(* The ranks never disagree about the collective TSReset.                   *)
THEOREM ResetAlwaysAgreed == Spec => []ResetAgreed
<1>1. FitInv => ResetAgreed
    BY DEF FitInv
<1> QED BY InitFit, NextFit, <1>1, PTL DEF Spec

-----------------------------------------------------------------------------
(* The coordinates in PackedSolution.  From the first macro step on they    *)
(* are those of the swarm, in memory and in a checkpoint.                   *)
CoordInv ==
    /\ pc \in {"monitor", "step", "post"} => on = pos
    /\ pc \in {"monitor", "migrate"} => clock = time
    /\ pc = "migrate" => \A p \in Particles : on[p] = Outside => pos[p] = Outside
    /\ pc \in {"monitor", "step", "post", "migrate"} /\ clock > 0 =>
           \A p \in Particles : on[p] # Outside => packed[p] = pos[p]
    /\ file.time > 0 =>
           \A p \in Particles : file.pos[p] # Outside => file.packed[p] = file.pos[p]

LEMMA InitCoord == Init => CoordInv
BY DEF Init, CoordInv, NoFile

LEMMA MonitorCoord == CoordInv /\ Monitor => CoordInv'
<1> SUFFICES ASSUME CoordInv, Monitor PROVE CoordInv'
    OBVIOUS
<1>1. on = pos /\ clock = time
    BY DEF CoordInv, Monitor
<1>2. clock > 0 => \A p \in Particles : on[p] # Outside => packed[p] = pos[p]
    BY DEF CoordInv, Monitor
<1>3. file'.time > 0 =>
          \A p \in Particles : file'.pos[p] # Outside => file'.packed[p] = file'.pos[p]
  <2>1. CASE UNCHANGED file
      BY <2>1 DEF CoordInv
  <2>2. CASE ~ UNCHANGED file
      BY <1>1, <1>2, <2>2 DEF Monitor
  <2> QED BY <2>1, <2>2
<1>4. UNCHANGED <<on, pos, packed, clock, time>> /\ pc' \in {"done", "step"}
    BY DEF Monitor, flow, swarm, solver
<1> QED BY <1>1, <1>2, <1>3, <1>4 DEF CoordInv

LEMMA MacroStepCoord == CoordInv /\ MacroStep => CoordInv'
<1> SUFFICES ASSUME CoordInv, MacroStep PROVE CoordInv'
    OBVIOUS
<1>1. /\ pc' = "migrate" /\ clock' = time
      /\ UNCHANGED <<on, time, file>>
    BY DEF MacroStep, ParticleStep, flow
<1>2. \A p \in Particles : on[p] = Outside => pos'[p] = Outside
    BY DEF MacroStep, ParticleStep, Alive
<1>3. \A p \in Particles : on[p] # Outside => packed'[p] = pos'[p]
    BY DEF MacroStep, ParticleStep, Alive
<1> QED BY <1>1, <1>2, <1>3 DEF CoordInv

LEMMA MigrateCoord == CoordInv /\ SwarmMigrate => CoordInv'
<1> SUFFICES ASSUME CoordInv, SwarmMigrate PROVE CoordInv'
    OBVIOUS
<1>1. /\ pc' = "monitor" /\ on' = pos /\ clock = time
      /\ UNCHANGED <<pos, clock, time, file>>
    BY DEF SwarmMigrate, CoordInv
<1>2. ASSUME clock > 0, NEW p \in Particles, pos[p] # Outside
      PROVE  packed'[p] = pos[p]
  <2>1. on[p] # Outside
      BY <1>2 DEF CoordInv, SwarmMigrate
  <2>2. packed[p] = pos[p]
      BY <1>2, <2>1 DEF CoordInv, SwarmMigrate
  <2> QED BY <1>2, <2>2 DEF SwarmMigrate
<1> QED BY <1>1, <1>2 DEF CoordInv

LEMMA NextCoord == CoordInv /\ [Next]_vars => CoordInv'
<1> SUFFICES ASSUME CoordInv, [Next]_vars PROVE CoordInv'
    OBVIOUS
<1>1. CASE Start
    BY <1>1 DEF Start, CoordInv
<1>2. CASE Restore
    BY <1>2 DEF Restore, CoordInv
<1>3. CASE Monitor
    BY <1>3, MonitorCoord
<1>4. CASE Stage
    BY <1>4 DEF Stage, swarm, solver, CoordInv
<1>5. CASE Reject
    BY <1>5 DEF Reject, swarm, solver, CoordInv
<1>6. CASE Accept
    BY <1>6 DEF Accept, swarm, solver, CoordInv
<1>7. CASE MacroStep
    BY <1>7, MacroStepCoord
<1>8. CASE SwarmMigrate
    BY <1>8, MigrateCoord
<1>9. CASE Kill
    BY <1>9 DEF Kill, flow, swarm, solver, CoordInv
<1>10. CASE Finished \/ UNCHANGED vars
    BY <1>10 DEF Finished, vars, flow, swarm, solver, CoordInv
<1> QED BY <1>1, <1>2, <1>3, <1>4, <1>5, <1>6, <1>7, <1>8, <1>9, <1>10 DEF Next

(* Only the macro step leads from the post step to the migration.           *)
LEMMA OnlyMacroStep ==
    ASSUME [Next]_vars, pc = "post", pc' = "migrate"
    PROVE  MacroStep
BY DEF Next, vars, Start, Restore, Monitor, Stage, Reject, Accept, SwarmMigrate, Kill, Finished

(* From the second step of a simulation on, the sources are computed with   *)
(* the coordinates that the particles had before they moved.                *)
THEOREM LaterStepsSeeCoordinates == Spec => LaterPreStepIsBefore
<1>1. CoordInv /\ [Next]_vars =>
          [pc = "post" /\ pc' = "migrate" /\ clock > 0 => \A p \in Alive : previous'[p] = pos[p]]_vars
  <2> SUFFICES ASSUME CoordInv, [Next]_vars, pc = "post", pc' = "migrate", clock > 0,
                      NEW p \in Alive
               PROVE  previous'[p] = pos[p]
      OBVIOUS
  <2>1. p \in Particles /\ on[p] # Outside
      BY DEF Alive
  <2>2. previous'[p] = packed[p]
      BY <2>1, OnlyMacroStep DEF MacroStep, KeepPacked
  <2> QED BY <2>1, <2>2 DEF CoordInv
<1> QED BY InitCoord, NextCoord, <1>1, PTL DEF Spec, LaterPreStepIsBefore

-----------------------------------------------------------------------------
(* Types, and the books of the source terms.                                *)

LEMMA DivExact ==
    ASSUME NEW a \in Nat, NEW d \in Nat \ {0}
    PROVE  (a * d) \div d = a
OBVIOUS

LEMMA OneMore ==
    ASSUME NEW n \in Nat, NEW a \in Nat
    PROVE  (n + 1) * a = n * a + a
OBVIOUS

LEMMA SmallerFits ==
    ASSUME NEW t \in Nat, NEW d \in Nat, NEW e \in Nat, NEW m \in Nat,
           t + d <= m, e < d
    PROVE  t + e <= m
OBVIOUS

(* An adaptor's step always fits into the time that is left, and the stages *)
(* of an attempt were scaled with the time step it has now.                 *)
StepInv ==
    /\ clock <= time
    /\ pc \in {"monitor", "step", "migrate"} => clock = time
    /\ pc \in {"monitor", "post", "migrate"} => stage = 0 /\ sum = [p \in Particles |-> 0]
    /\ pc = "monitor" /\ StepsFrom(time) # {} => dt \in StepsFrom(time)
    /\ pc = "step" => dt \in StepsFrom(time)
    /\ pc = "step" /\ stage > 0 => scale = dt
    /\ file # NoFile /\ StepsFrom(file.time) # {} => file.dt \in StepsFrom(file.time)

(* What the flow has received and what still waits, in memory, in the       *)
(* middle of a step and in a checkpoint.                                    *)
BooksInv ==
    /\ pc = "monitor" => on = pos
    /\ pc \in {"monitor", "step", "migrate", "done"} =>
           \A p \in Alive : received[p] + Stages * source[p] = Stages * time
    /\ pc = "post" => \A p \in Alive : received[p] = Stages * clock
    /\ pc = "step" => \A p \in Particles : sum[p] = stage * source[p]
    /\ pc = "migrate" => \A p \in Particles : pos[p] # Outside => on[p] # Outside
    /\ file # NoFile =>
           \A p \in Particles : file.pos[p] # Outside =>
               file.received[p] + Stages * file.source[p] = Stages * file.time

IInv == TypeOK /\ StepInv /\ BooksInv

LEMMA SizeType ==
    ASSUME NEW held, NEW r
    PROVE  LocalSize(held, r) \in Nat
<1>1. IsFiniteSet({p \in Particles : held[p] = r})
    BY SwarmAssumption, FS_Subset
<1> QED BY <1>1, FS_CardinalityType DEF LocalSize

LEMMA InitBooks == Init => IInv
<1> SUFFICES ASSUME Init PROVE IInv
    OBVIOUS
<1>1. TypeOK
    BY SwarmAssumption, FlowAssumption DEF Init, TypeOK, Where, Coordinates
<1>2. StepInv
    BY DEF Init, StepInv
<1>3. BooksInv
    BY DEF Init, BooksInv
<1> QED BY <1>1, <1>2, <1>3 DEF IInv

LEMMA StartBooks == IInv /\ Start => IInv'
<1> SUFFICES ASSUME IInv, Start PROVE IInv'
    OBVIOUS
<1>1. TypeOK'
    BY SwarmAssumption, FlowAssumption DEF IInv, Start, TypeOK, NoStages, Where, Coordinates, StepsFrom
<1>2. StepInv'
    BY FlowAssumption DEF IInv, Start, NoStages, StepInv, StepsFrom
<1>3. BooksInv'
  <2>1. \A p \in Particles : received'[p] + Stages * source'[p] = Stages * time'
      BY FlowAssumption DEF Start
  <2> QED BY <2>1 DEF Start, BooksInv, Alive
<1> QED BY <1>1, <1>2, <1>3 DEF IInv

LEMMA RestoreBooks == IInv /\ Restore => IInv'
<1> SUFFICES ASSUME IInv, Restore PROVE IInv'
    OBVIOUS
<1>1. file # NoFile /\ file \in Checkpoint
    BY DEF IInv, TypeOK, Restore
<1>2. TypeOK'
    BY <1>1, FlowAssumption DEF IInv, Restore, TypeOK, NoStages, Checkpoint
<1>3. StepInv'
    BY <1>1 DEF IInv, Restore, NoStages, StepInv, StepsFrom, Checkpoint
<1>4. BooksInv'
    BY <1>1 DEF IInv, Restore, BooksInv, Alive
<1> QED BY <1>2, <1>3, <1>4 DEF IInv

LEMMA MonitorBooks == IInv /\ Monitor => IInv'
<1> SUFFICES ASSUME IInv, Monitor PROVE IInv'
    OBVIOUS
<1>1. /\ UNCHANGED <<time, dt, stage, sum, scale, received, pos, on, source, packed, previous,
                      clock, dmChanged, work, kills>>
      /\ pc = "monitor" /\ pc' = IF StepsFrom(time) = {} THEN "done" ELSE "step"
    BY DEF Monitor, flow, swarm, solver
<1> DEFINE now == [time |-> time, dt |-> dt, received |-> received, pos |-> pos,
                   source |-> source, packed |-> packed, previous |-> previous]
<1>2. file' \in {file, now}
    BY DEF Monitor
<1>3. TypeOK'
  <2>1. now \in Checkpoint
      BY DEF IInv, TypeOK, Checkpoint
  <2> HIDE DEF now
  <2> QED BY <1>1, <1>2, <2>1 DEF IInv, TypeOK
<1>4. StepInv'
  <2>1. file' # NoFile /\ StepsFrom(file'.time) # {} => file'.dt \in StepsFrom(file'.time)
      BY <1>1, <1>2 DEF IInv, StepInv
  <2>2. pc' = "step" => dt \in StepsFrom(time) /\ stage = 0
      BY <1>1 DEF IInv, StepInv
  <2> QED BY <1>1, <2>1, <2>2 DEF IInv, StepInv, StepsFrom
<1>5. BooksInv'
  <2>1. \A p \in Particles : on[p] # Outside => received[p] + Stages * source[p] = Stages * time
      BY <1>1 DEF IInv, BooksInv, Alive
  <2>2. \A p \in Particles : sum[p] = 0
      BY <1>1 DEF IInv, StepInv
  <2>3. \A p \in Particles : sum[p] = stage * source[p]
      BY <1>1, <2>2 DEF IInv, StepInv, TypeOK
  <2>4. on = pos
      BY <1>1 DEF IInv, BooksInv
  <2>5. file' # NoFile =>
            \A p \in Particles : file'.pos[p] # Outside =>
                file'.received[p] + Stages * file'.source[p] = Stages * file'.time
    <3>1. CASE file' = file
        BY <3>1 DEF IInv, BooksInv
    <3>2. CASE file' = now
        BY <2>1, <2>4, <3>2
    <3> QED BY <1>2, <3>1, <3>2
  <2> QED BY <1>1, <2>1, <2>3, <2>5 DEF BooksInv, Alive
<1> QED BY <1>3, <1>4, <1>5 DEF IInv

LEMMA StageBooks == IInv /\ Stage => IInv'
<1> SUFFICES ASSUME IInv, Stage PROVE IInv'
    OBVIOUS
<1>1. /\ pc = "step" /\ stage < Stages /\ stage' = stage + 1 /\ scale' = dt
      /\ sum' = [p \in Particles |-> sum[p] + source[p]]
      /\ UNCHANGED <<pc, time, dt, received, pos, on, source, packed, previous,
                      clock, dmChanged, work, file, kills>>
    BY DEF Stage, Project, swarm, solver
<1>2. TypeOK'
  <2>1. sum' \in [Particles -> Nat]
      BY <1>1 DEF IInv, TypeOK
  <2>2. stage' \in 0..Stages
      BY <1>1, FlowAssumption DEF IInv, TypeOK
  <2> QED BY <1>1, <2>1, <2>2 DEF IInv, TypeOK
<1>3. StepInv'
    BY <1>1 DEF IInv, StepInv, StepsFrom
<1>4. BooksInv'
  <2>1. ASSUME NEW p \in Particles PROVE sum'[p] = stage' * source'[p]
    <3>1. sum[p] = stage * source[p]
        BY <1>1 DEF IInv, BooksInv
    <3>2. stage \in Nat /\ source[p] \in Nat
        BY FlowAssumption DEF IInv, TypeOK
    <3>3. (stage + 1) * source[p] = stage * source[p] + source[p]
        BY <3>2, OneMore
    <3> QED BY <1>1, <3>1, <3>3
  <2> QED BY <1>1, <2>1 DEF IInv, BooksInv, Alive
<1> QED BY <1>2, <1>3, <1>4 DEF IInv

LEMMA RejectBooks == IInv /\ Reject => IInv'
<1> SUFFICES ASSUME IInv, Reject PROVE IInv'
    OBVIOUS
<1>1. /\ pc = "step" /\ stage' = 0 /\ sum' = [p \in Particles |-> 0]
      /\ dt' \in StepSizes /\ dt' < dt
      /\ UNCHANGED <<pc, time, scale, received, pos, on, source, packed, previous,
                      clock, dmChanged, work, file, kills>>
    BY DEF Reject, NoStages, swarm, solver
<1>2. TypeOK'
    BY <1>1, FlowAssumption DEF IInv, TypeOK
<1>3. dt' \in StepsFrom(time)
  <2>1. time + dt <= EndTime /\ dt \in Nat
      BY <1>1, FlowAssumption DEF IInv, StepInv, StepsFrom
  <2>2. time \in Nat /\ dt' \in Nat
      BY <1>1, FlowAssumption DEF IInv, TypeOK
  <2>3. dt' < dt /\ EndTime \in Nat
      BY <1>1, FlowAssumption
  <2>4. time + dt' <= EndTime
      BY <2>1, <2>2, <2>3, SmallerFits
  <2> QED BY <1>1, <2>4 DEF StepsFrom
<1>4. StepInv'
    BY <1>1, <1>3 DEF IInv, StepInv, StepsFrom
<1>5. \A p \in Particles : sum'[p] = stage' * source'[p]
    BY <1>1 DEF IInv, TypeOK
<1>6. BooksInv'
    BY <1>1, <1>5 DEF IInv, BooksInv, Alive
<1> QED BY <1>2, <1>4, <1>6 DEF IInv

LEMMA AcceptBooks == IInv /\ Accept => IInv'
<1> SUFFICES ASSUME IInv, Accept PROVE IInv'
    OBVIOUS
<1>1. /\ pc = "step" /\ stage = Stages /\ pc' = "post" /\ time' = time + dt
      /\ stage' = 0 /\ sum' = [p \in Particles |-> 0]
      /\ received' = [p \in Particles |-> received[p] + Integrated(p)]
      /\ UNCHANGED <<dt, scale, pos, on, source, packed, previous,
                      clock, dmChanged, work, file, kills>>
    BY DEF Accept, NoStages, swarm, solver
<1>2. /\ dt \in StepSizes /\ dt \in Nat \ {0} /\ scale = dt /\ clock = time
      /\ time \in Nat /\ time + dt <= EndTime
    BY <1>1, FlowAssumption DEF IInv, TypeOK, StepInv, StepsFrom
<1>3. ASSUME NEW p \in Particles
      PROVE  Integrated(p) = Stages * source[p] /\ Integrated(p) \in Nat
  <2>1. sum[p] = Stages * source[p] /\ sum[p] \in Nat
      BY <1>1 DEF IInv, BooksInv, TypeOK
  <2>2. (sum[p] * dt) \div dt = sum[p]
      BY <1>2, <2>1, DivExact
  <2> QED BY <1>2, <2>1, <2>2 DEF Integrated
<1>4. TypeOK'
  <2>1. received' \in [Particles -> Nat]
      BY <1>1, <1>3 DEF IInv, TypeOK
  <2>2. time' \in 0..EndTime
      BY <1>1, <1>2, FlowAssumption
  <2> QED BY <1>1, <2>1, <2>2, FlowAssumption DEF IInv, TypeOK
<1>5. StepInv'
    BY <1>1, <1>2 DEF IInv, StepInv, StepsFrom
<1>6. ASSUME NEW p \in Alive PROVE received'[p] = Stages * clock
    BY <1>1, <1>2, <1>3 DEF IInv, BooksInv, Alive
<1>7. BooksInv'
    BY <1>1, <1>6 DEF IInv, BooksInv, Alive
<1> QED BY <1>4, <1>5, <1>7 DEF IInv

LEMMA MacroStepBooks == IInv /\ MacroStep => IInv'
<1> SUFFICES ASSUME IInv, MacroStep PROVE IInv'
    OBVIOUS
<1>1. /\ pc = "post" /\ pc' = "migrate" /\ clock' = time
      /\ UNCHANGED <<time, dt, stage, sum, scale, received, on, file, kills>>
      /\ source' = [p \in Particles |-> IF p \in Alive THEN time - clock ELSE 0]
    BY DEF MacroStep, ParticleStep, Emit, flow
<1>2. /\ clock \in Nat /\ time \in Nat /\ clock <= time /\ time <= EndTime
      /\ time - clock \in 0..EndTime /\ 0 \in 0..EndTime
    BY FlowAssumption DEF IInv, TypeOK, StepInv
<1>3. TypeOK'
  <2>1. work' \in [Ranks -> Nat \cup {NoWork}] /\ dmChanged' \in [Ranks -> BOOLEAN]
      BY SizeType DEF IInv, TypeOK, MacroStep, ParticleStep
  <2>2. pos' \in [Particles -> Where]
      BY DEF MacroStep, ParticleStep
  <2>3. packed' \in Coordinates /\ previous' \in Coordinates
      BY <2>2 DEF IInv, TypeOK, MacroStep, ParticleStep, KeepPacked, Coordinates
  <2>4. source' \in [Particles -> 0..EndTime]
      BY <1>1, <1>2
  <2>5. clock' \in 0..EndTime
      BY <1>1 DEF IInv, TypeOK
  <2> QED BY <1>1, <2>1, <2>2, <2>3, <2>4, <2>5 DEF IInv, TypeOK
<1>4. StepInv'
    BY <1>1, <1>2 DEF IInv, StepInv, StepsFrom
<1>5. ASSUME NEW p \in Alive PROVE received[p] + Stages * source'[p] = Stages * time
  <2>1. received[p] = Stages * clock
      BY <1>1 DEF IInv, BooksInv
  <2>2. source'[p] = time - clock
      BY <1>1 DEF Alive
  <2>3. Stages * clock + Stages * (time - clock) = Stages * time
      BY <1>2, FlowAssumption
  <2> QED BY <2>1, <2>2, <2>3
<1>6. \A p \in Particles : pos'[p] # Outside => on'[p] # Outside
    BY DEF MacroStep, ParticleStep, Alive
<1>7. BooksInv'
    BY <1>1, <1>5, <1>6 DEF IInv, BooksInv, Alive
<1> QED BY <1>3, <1>4, <1>7 DEF IInv

LEMMA MigrateBooks == IInv /\ SwarmMigrate => IInv'
<1> SUFFICES ASSUME IInv, SwarmMigrate PROVE IInv'
    OBVIOUS
<1>1. /\ pc = "migrate" /\ pc' = "monitor" /\ on' = pos
      /\ source' = [p \in Particles |-> IF pos[p] = Outside THEN 0 ELSE source[p]]
      /\ dt' \in StepsFrom(time) \cup {d \in {0} : StepsFrom(time) = {}}
      /\ UNCHANGED <<time, stage, sum, scale, received, pos, clock, work, file, kills>>
    BY DEF SwarmMigrate
<1>2. TypeOK'
  <2>1. dmChanged' \in [Ranks -> BOOLEAN]
      BY DEF SwarmMigrate, Changed
  <2>2. packed' \in Coordinates /\ previous' \in Coordinates
      BY DEF IInv, TypeOK, SwarmMigrate, Coordinates
  <2>3. source' \in [Particles -> 0..EndTime]
      BY <1>1, FlowAssumption DEF IInv, TypeOK
  <2>4. dt' \in StepSizes \cup {0}
      BY <1>1 DEF StepsFrom
  <2> QED BY <1>1, <2>1, <2>2, <2>3, <2>4 DEF IInv, TypeOK
<1>3. StepInv'
    BY <1>1 DEF IInv, StepInv, StepsFrom
<1>4. ASSUME NEW p \in Particles, pos[p] # Outside
      PROVE  received[p] + Stages * source'[p] = Stages * time
    BY <1>1, <1>4 DEF IInv, BooksInv, Alive
<1>5. BooksInv'
    BY <1>1, <1>4 DEF IInv, BooksInv, Alive
<1> QED BY <1>2, <1>3, <1>5 DEF IInv

LEMMA NextBooks == IInv /\ [Next]_vars => IInv'
<1> SUFFICES ASSUME IInv, [Next]_vars PROVE IInv'
    OBVIOUS
<1>1. CASE Kill
  <2>1. TypeOK'
      BY <1>1, FlowAssumption DEF IInv, Kill, TypeOK, flow, swarm, solver
  <2> QED BY <1>1, <2>1 DEF Kill, flow, swarm, solver, IInv, StepInv, BooksInv
<1>2. CASE Finished \/ UNCHANGED vars
  <2>1. UNCHANGED vars
      BY <1>2 DEF Finished
  <2>2. TypeOK'
      BY <2>1 DEF IInv, TypeOK, vars, flow, swarm, solver
  <2>3. StepInv'
      BY <2>1 DEF IInv, StepInv, StepsFrom, vars, flow, swarm, solver
  <2>4. BooksInv'
      BY <2>1 DEF IInv, BooksInv, Alive, vars, flow, swarm, solver
  <2> QED BY <2>2, <2>3, <2>4 DEF IInv
<1> QED BY <1>1, <1>2, StartBooks, RestoreBooks, MonitorBooks, StageBooks, RejectBooks,
           AcceptBooks, MacroStepBooks, MigrateBooks DEF Next

(* The types of the coupled solver's variables.                             *)
THEOREM CoupledTypeCorrect == Spec => []TypeOK
<1>1. IInv => TypeOK
    BY DEF IInv
<1> QED BY InitBooks, NextBooks, <1>1, PTL DEF Spec

(* Over rejected steps, migration and any number of restarts, the flow gets *)
(* exactly once what a particle has emitted up to the start of the last     *)
(* step.                                                                    *)
THEOREM SourcesAccounted == Spec => []Accounted
<1>1. IInv => Accounted
    BY DEF IInv, BooksInv, Accounted
<1> QED BY InitBooks, NextBooks, <1>1, PTL DEF Spec
=============================================================================
