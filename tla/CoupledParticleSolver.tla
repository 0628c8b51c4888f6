------------------------- MODULE CoupledParticleSolver -------------------------
(***************************************************************************)
(* ablate::particles::CoupledParticleSolver on top of ParticleSolver       *)
(* (src/particles): particles that move after every step of the flow, and  *)
(* whose effect on the flow is added in the stages of the next step, over  *)
(* rejected steps, migration between ranks and restarts.                   *)
(*                                                                         *)
(* Every operation here is collective, so a step is one action of all      *)
(* ranks; what each rank decides for itself is a function of the rank.     *)
(* A coordinate is the rank that owns the place, and a particle emits one  *)
(* unit of source in a unit of time.  The inner steps of the particle TS   *)
(* are one motion.                                                         *)
(***************************************************************************)
EXTENDS Integers, FiniteSets

CONSTANTS
    Particles,
    Ranks,
    Place,       \* where the initializer puts each particle
    StepSizes,   \* time steps that the flow's adaptor chooses from
    Stages,      \* evaluations of the right hand side in a step, of equal weight
    EndTime,     \* bound: ts_max_time of the flow
    MaxKills     \* bound: how many jobs are killed

ASSUME SwarmAssumption ==
    /\ IsFiniteSet(Particles)
    /\ IsFiniteSet(Ranks) /\ Ranks \subseteq Nat
    /\ Place \in [Particles -> Ranks]
ASSUME FlowAssumption ==
    /\ StepSizes \subseteq Nat \ {0} /\ Stages \in Nat \ {0}
    /\ EndTime \in Nat /\ MaxKills \in Nat

Outside == -1    \* left the domain; also the rank of a particle that was removed
Unset   == -2    \* swarm memory that nobody has written
NoWork  == -1    \* the particle TS has no vectors yet
NoFile  == [time |-> -1]

Where == Ranks \cup {Outside}

VARIABLES
    pc,
    time, dt,            \* of the flow TS
    stage,               \* how many right hand sides this attempt has evaluated
    sum, scale,          \* the source terms in them, and the dt they were divided by
    received,            \* what the flow has got from each particle, in parts of 1 / Stages
    pos,                 \* DMSwarmPICField_coor
    on,                  \* the rank that holds the particle
    source,              \* <field>_CoupledSourceTerm
    packed, previous,    \* the coordinates in PackedSolution and PreviousPackedSolution
    clock,               \* time of the particle TS
    dmChanged,           \* of each rank
    work,                \* local size of the particle TS's vectors, of each rank
    file,                \* the last checkpoint
    kills

flow   == <<time, dt, stage, sum, scale, received>>
swarm  == <<pos, on, source, packed, previous>>
solver == <<clock, dmChanged, work>>
vars   == <<pc, flow, swarm, solver, file, kills>>

Alive == {p \in Particles : on[p] # Outside}

(* DMSwarmGetLocalSize of a rank and DMSwarmGetSize, for a given placement. *)
LocalSize(held, r) == Cardinality({p \in Particles : held[p] = r})
GlobalSize(held)   == Cardinality({p \in Particles : held[p] # Outside})

(* Steps end at EndTime, TS_EXACTFINALTIME_MATCHSTEP.                       *)
StepsFrom(t) == {d \in StepSizes : t + d <= EndTime}

NoStages == stage' = 0 /\ sum' = [p \in Particles |-> 0]

Init ==
    /\ pc = "down"
    /\ time = 0 /\ dt = 0 /\ received = [p \in Particles |-> 0]
    /\ stage = 0 /\ sum = [p \in Particles |-> 0] /\ scale = 0
    /\ pos = Place /\ on = Place
    /\ source = [p \in Particles |-> 0]
    /\ packed = [p \in Particles |-> Unset] /\ previous = [p \in Particles |-> Unset]
    /\ clock = 0 /\ dmChanged = [r \in Ranks |-> FALSE] /\ work = [r \in Ranks |-> NoWork]
    /\ file = NoFile /\ kills = 0

-----------------------------------------------------------------------------
(* Initialize: a job without a checkpoint.                                  *)
Start ==
    /\ pc = "down" /\ file = NoFile
    /\ pc' = "monitor"
    /\ time' = 0 /\ dt' \in StepsFrom(0) /\ received' = [p \in Particles |-> 0]
    /\ NoStages /\ scale' = 0
    /\ pos' = Place /\ on' = Place
    /\ source' = [p \in Particles |-> 0]
    /\ packed' = [p \in Particles |-> Unset] /\ previous' = [p \in Particles |-> Unset]
    /\ clock' = 0
    /\ dmChanged' = [r \in Ranks |-> FALSE] /\ work' = [r \in Ranks |-> NoWork]
    /\ UNCHANGED <<file, kills>>

(* Restore: after the particles are dealt to the ranks by number they       *)
(* migrate to the ranks of their coordinates.                               *)
Restore ==
    /\ pc = "down" /\ file # NoFile
    /\ pc' = "monitor"
    /\ time' = file.time /\ dt' = file.dt /\ received' = file.received
    /\ NoStages /\ scale' = 0
    /\ pos' = file.pos /\ on' = file.pos
    /\ source' = file.source /\ packed' = file.packed /\ previous' = file.previous
    /\ clock' = file.time
    /\ dmChanged' = [r \in Ranks |-> TRUE] /\ work' = [r \in Ranks |-> NoWork]
    /\ UNCHANGED <<file, kills>>

(* The monitors, among them the serializer at its interval.                 *)
Monitor ==
    /\ pc = "monitor"
    /\ pc' = IF StepsFrom(time) = {} THEN "done" ELSE "step"
    /\ \/ UNCHANGED file
       \/ file' = [time |-> time, dt |-> dt, received |-> received, pos |-> pos,
                   source |-> source, packed |-> packed, previous |-> previous]
    /\ UNCHANGED <<flow, swarm, solver, kills>>

-----------------------------------------------------------------------------
(* A step of the flow.                                                      *)

(* Variant: the time step is taken once, in the first evaluation.           *)
ScaleOnce ==
    /\ sum' = [p \in Particles |-> sum[p] + source[p]]
    /\ scale' = IF scale = 0 THEN dt ELSE scale

(* PreRHSFunction and ComputeRHSFunction: the source of every particle is   *)
(* projected and divided by the time step of this attempt.                  *)
Project ==
    /\ sum' = [p \in Particles |-> sum[p] + source[p]]
    /\ scale' = dt

Stage ==
    /\ pc = "step" /\ stage < Stages
    /\ stage' = stage + 1
    /\ Project
    /\ UNCHANGED <<pc, time, dt, received, swarm, solver, file, kills>>

(* The attempt fails its error test, or a stage leaves the domain of the    *)
(* flow's functions: it is repeated with a smaller step.                    *)
Reject ==
    /\ pc = "step" /\ stage > 0
    /\ dt' \in {d \in StepSizes : d < dt}
    /\ NoStages
    /\ UNCHANGED <<pc, time, scale, received, swarm, solver, file, kills>>

(* What the stages of a step of length dt add to the flow for a particle.   *)
Integrated(p) == (sum[p] * dt) \div scale

Accept ==
    /\ pc = "step" /\ stage = Stages
    /\ received' = [p \in Particles |-> received[p] + Integrated(p)]
    /\ time' = time + dt
    /\ NoStages
    /\ pc' = "post"
    /\ UNCHANGED <<dt, scale, swarm, solver, file, kills>>

-----------------------------------------------------------------------------
(* The post step.                                                           *)

(* ParticleSolver::MacroStepParticles: vectors of another size are dropped, *)
(* the coordinates are copied to the solution vector, advanced to the time  *)
(* of the flow and copied back.                                             *)
ParticleStep ==
    /\ work' = [r \in Ranks |-> IF dmChanged[r] \/ work[r] = NoWork THEN LocalSize(on, r) ELSE work[r]]
    /\ dmChanged' = [r \in Ranks |-> FALSE]
    /\ clock' = time
    /\ pos' \in {f \in [Particles -> Where] : \A p \in Particles \ Alive : f[p] = Outside}
    /\ packed' = [p \in Particles |-> IF p \in Alive THEN pos'[p] ELSE packed[p]]

(* Variant: start and end of the step are swapped.                          *)
EmitSwapped ==
    source' = [p \in Particles |-> IF p \in Alive THEN clock - clock' ELSE 0]

(* ComputeEulerianSource adds to sources that were set to zero.             *)
Emit == source' = [p \in Particles |-> IF p \in Alive THEN clock' - clock ELSE 0]

(* Variant: the copy is made after the particles have moved.                *)
KeepMoved == previous' = [p \in Particles |-> IF p \in Alive THEN packed'[p] ELSE previous[p]]

KeepPacked == previous' = [p \in Particles |-> IF p \in Alive THEN packed[p] ELSE previous[p]]

(* CoupledParticleSolver::MacroStepParticles up to the migration.           *)
MacroStep ==
    /\ pc = "post"
    /\ ParticleStep
    /\ KeepPacked
    /\ Emit
    /\ pc' = "migrate"
    /\ UNCHANGED <<flow, on, file, kills>>

(* Variants: only the global number is compared; the ranks do not reduce    *)
(* what they found.                                                         *)
ChangedByNumber == [r \in Ranks |-> GlobalSize(on) # GlobalSize(on')]
ChangedHere     == [r \in Ranks |-> GlobalSize(on) # GlobalSize(on') \/ LocalSize(on, r) # LocalSize(on', r)]

Changed ==
    [r \in Ranks |-> \E q \in Ranks :
        GlobalSize(on) # GlobalSize(on') \/ LocalSize(on, q) # LocalSize(on', q)]

(* SwarmMigrate: a particle goes to the rank of its place, with all its     *)
(* fields; one that has left the domain is removed.                         *)
SwarmMigrate ==
    /\ pc = "migrate"
    /\ on' = pos
    /\ dmChanged' = Changed
    /\ source' = [p \in Particles |-> IF pos[p] = Outside THEN 0 ELSE source[p]]
    /\ packed' = [p \in Particles |-> IF pos[p] = Outside THEN Unset ELSE packed[p]]
    /\ previous' = [p \in Particles |-> IF pos[p] = Outside THEN Unset ELSE previous[p]]
    /\ dt' \in StepsFrom(time) \cup {d \in {0} : StepsFrom(time) = {}}
    /\ pc' = "monitor"
    /\ UNCHANGED <<time, stage, sum, scale, received, pos, clock, work, file, kills>>

(* The job is killed; only the checkpoint is left.                          *)
Kill ==
    /\ pc \notin {"down", "done"} /\ kills < MaxKills
    /\ kills' = kills + 1
    /\ pc' = "down"
    /\ UNCHANGED <<flow, swarm, solver, file>>

Finished == pc = "done" /\ UNCHANGED vars

Next ==
    \/ Start \/ Restore \/ Monitor
    \/ Stage \/ Reject \/ Accept
    \/ MacroStep \/ SwarmMigrate
    \/ Kill \/ Finished

Spec == Init /\ [][Next]_vars

-----------------------------------------------------------------------------
(* Properties.                                                              *)

(* What a checkpoint holds.                                                 *)
Coordinates == [Particles -> Where \cup {Unset}]
Checkpoint ==
    [time : 0..EndTime, dt : StepSizes \cup {0}, received : [Particles -> Nat],
     pos : [Particles -> Where], source : [Particles -> 0..EndTime],
     packed : Coordinates, previous : Coordinates]

(* The type of every variable.  A flow never takes more stages than a step  *)
(* has, and a particle never emits for a negative time.                     *)
TypeOK ==
    /\ pc \in {"down", "monitor", "step", "post", "migrate", "done"}
    /\ time \in 0..EndTime /\ dt \in StepSizes \cup {0}
    /\ stage \in 0..Stages /\ sum \in [Particles -> Nat] /\ scale \in StepSizes \cup {0}
    /\ received \in [Particles -> Nat]
    /\ pos \in [Particles -> Where] /\ on \in [Particles -> Where]
    /\ source \in [Particles -> 0..EndTime]
    /\ packed \in Coordinates /\ previous \in Coordinates
    /\ clock \in 0..EndTime
    /\ dmChanged \in [Ranks -> BOOLEAN] /\ work \in [Ranks -> Nat \cup {NoWork}]
    /\ file \in Checkpoint \cup {NoFile}
    /\ kills \in 0..MaxKills

(* Whatever steps were rejected, restarted or of changed size, between two  *)
(* steps the flow has received, exactly once, all that a particle in the    *)
(* domain has emitted up to the start of the last step; the emission of     *)
(* that step waits in the particle (the lag of one step that the comment in *)
(* coupledParticles2D.yaml names).                                          *)
Accounted ==
    pc \in {"monitor", "step", "done"} =>
        \A p \in Alive : received[p] + Stages * source[p] = Stages * time

(* When the particle TS has advanced a swarm, its vectors were of the size  *)
(* of the swarm on every rank: migration has set dmChanged whenever they    *)
(* had to be built again.                                                   *)
VectorsFit == pc = "migrate" => \A r \in Ranks : work[r] = LocalSize(on, r)

(* All ranks take the same branch at TSReset, which is collective.          *)
ResetAgreed == \A r, q \in Ranks : dmChanged[r] = dmChanged[q]

(* "the particle values before the time step", coupledProcess.hpp: when the *)
(* sources are computed, PreviousPackedSolution holds the coordinates that  *)
(* the particles had before they moved.                                     *)
PreStepIsBefore ==
    [][pc = "post" /\ pc' = "migrate" => \A p \in Alive : previous'[p] = pos[p]]_vars

(* The same, for every step but the first one of the simulation: also after *)
(* migration and a restart.                                                 *)
LaterPreStepIsBefore ==
    [][pc = "post" /\ pc' = "migrate" /\ clock > 0 => \A p \in Alive : previous'[p] = pos[p]]_vars
=============================================================================
