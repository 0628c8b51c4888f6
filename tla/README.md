# A verification project for ABLATE

ABLATE (`src/`) is a C++ framework for multi-physics simulations on top of
PETSc. An input file names a time stepper, a domain, solvers, monitors and a
serializer; the time stepper runs PETSc's `TSSolve`, the solvers give the
residuals of the equations, the monitors are called at every step. A job runs on
many MPI ranks and may be killed at any time; a later job in the same directory
resumes from what the earlier one left on disk.

Most of the source is floating-point numerics, one sequential call per rank and
stage, that a model checker has nothing to say about. What is modelled here is
the rest: what has to hold *between* ranks, *between* steps and *between* jobs.

Paths such as `io/hdf5MultiFileSerializer.cpp` are below `src/src/`.

## 1. Inventory

| component | state it keeps | operations | correct when |
|---|---|---|---|
| `Hdf5MultiFileSerializer` (`io/`) | `timeStep`, `sequenceNumber`, `resumed`; on disk `restart.rst`, `restart.bak`, one file per object and sequence number | constructor, `Register`, save function (a TS monitor), `SaveMetadata`, `RestoreTS` | a kill never loses the last checkpoint; a restart takes every object of every rank from one step; ranks meet in collective file operations |
| `Hdf5Serializer` (`io/`) | as above, one growing file per object, no backup | the same | the same, less the backup |
| intervals (`io/interval/`) | `nextTime`, `previousTime` or nothing | `Check(comm, steps, time)` | all ranks get the same answer |
| `TimeStepper` (`solver/`) | PETSc's TS, lists of solvers, monitors, hooks | `Register`, `Initialize`, `Solve`, `ComputePhysicsTimeStep` | the serializer is the first monitor and sees every step once per `TSSolve` |
| `AdaptPhysics`, `AdaptPhysicsConstrained` (`solver/`) | the TS's step size | `AdaptInitializer`, `TSAdaptChoose` | no attempt is longer than the solution allows; refusals come to an end |
| `Sublimation` with `TemperatureSublimation` (`boundarySolver/physics/`) | a one dimensional solid for each face, `heatFluxIntoSolid`; the wall's temperature in an auxiliary field | `SublimationPreRHS`, `Update`, `Compute`, `Save`, `Restore` | the solid is advanced by the time of the flow, once |
| `SteadyStateStepper` and criteria (`solver/`) | `maxSteps`, `checkInterval`; `VariableChange::previousValues` | `Initialize`, `Solve`, `CheckConvergence` | a rank that returns is steady; ranks end together, unless what they find of a criterion differs; the limits hold |
| `Probes` (`monitors/`) | one `ProbeRecorder` per local probe: `buffer`, `timeHistory`, `activeIndex`, `lastOutputTime`; a csv file | constructor, `AdvanceTime`, `SetValue`, `WriteBuffer`, destructor | every sample in the csv file once, over any sequence of jobs |
| `TurbFlowStats`, `FieldMonitor` (`monitors/`) | sums of density, time and fields on a domain of their own, saved with a checkpoint | save function, `Save`, `Restore` | sums count every time step once |
| `ParticleSolver`, `CoupledParticleSolver` (`particles/`) | the swarm, `dmChanged`, source term vectors | `PreRHSFunction`, `ComputeRHSFunction`, `MacroStepParticles`, `SwarmMigrate`, `Save`, `Restore` | what particles lose the flow gains; particles survive migration and restart |
| `Radiation`, `SurfaceRadiation` (`radiation/`) | search particles, `raySegments` of each rank, the `PetscSF` that brings results to the origins, `evaluatedGains` | `Setup`, `Initialize`, `EvaluateGains` | the segments of a ray are combined once each, in order, whatever the partition |
| solvers, boundary solver, subdomains, equations of state, level sets, math functions | fields on the mesh | pointwise functions | numerics |

How they interact. `TimeStepper::Initialize` registers the solvers, the
serializer and the monitors with the TS and every serializable object with the
serializer; `Register` restores an object at once when the serializer was
constructed on an existing `restart.rst`. From then on, everything is a call back
from `TSSolve`: monitors in order of registration (the serializer first),
`ComputePhysicsTimeStep` before a step, the residual functions inside it. Ranks
interact by collective calls (file open and close, reductions, ghost exchange),
jobs by files.

What is hard: a kill between two writes of one save; a resumed job that meets
files of a save that was cut off; a step that is seen twice because `TSSolve`
begins with the monitors of the step it resumes at; a decision each rank takes by
itself before a call that all of them must make; buffered output against a
checkpoint taken at another moment. `PROJECT.json` lists these hazards, each at
the line where it bites, with the properties that cover it.

## 2. Plan

Written in this order, most important first:

1. **Checkpoints** (done): `Hdf5MultiFileSerializer`, its abstract specification
   `CheckpointStore`, the refinement `CheckpointRefinement`, and the proofs.
2. **Probes** (done): `ProbeRecorder`, over several jobs, with its proofs.
3. **Steady state loop** (done): `SteadyStateStepper` with its criteria, and its
   proofs.
4. **Coupled particles** (done): `CoupledParticleSolver`, the exchange of source
   terms between the flow step and the particle macro step, migration, save and
   restore, with its proofs.
5. **Radiation** (done): `RayTracing`, rays that migrate, the order in which
   their segments are gathered, and the gains; with its proofs.
6. **The loop of the time stepper** (done): `TimeStepLoop`, the adaptors, the
   sublimating wall, when radiation is evaluated, and the flow statistics, over
   refused attempts, kills and restarts; with its proofs.
7. **`Hdf5Serializer`** as a variant of the first model, and the error path of
   `ComputePhysicsTimeStep` (`solver/timeStepper.cpp` 399): an exception on one
   rank returns before the `MPI_Allreduce` the others wait in. By default PETSc
   aborts the job there.

Every safety property a passing run checks has its theorem (section 6).

## 3. The modules and the code

### Hdf5MultiFileSerializer

One process per rank, with `pc[r]` its place in `TSSolve`: `monitor` (about to
call the save function), the places inside it, and `advance` (in `TSStep`). Each
action ends where another rank can observe the difference, or where a kill leaves
something different on disk.

| code | model |
|---|---|
| constructor, `Register` for each object, `RestoreTS` | `StartFresh`, `Resume` |
| save function, the test on `timeStep` and `interval->Check` | `Monitor` |
| `SaveMetadata`: copy to `restart.bak` | `SkipBackup`, `OpenBackup`, `CloseBackup`, `BackupFails` |
| `SaveMetadata`: `std::ofstream` on `restart.rst` | `TruncateMetadata`, `WriteMetadata` |
| the loop over the serializables | `OpenSerial`, `CloseSerial` (one rank), `OpenCollective`, `CloseCollective` (all ranks) |
| `TSStep` | `Advance`: waits for the ranks in `Peers[r]` |
| a kill | `Crash`: memory is lost, `rst`, `bak`, `disk` stay |

A file is absent, torn, or holds the state of one step; hdf5 and yaml content is
not looked at. No code reads `restart.bak`: `RecoverFromBackup` is the user who
copies it back when a job does not start, `StartOver` the user who removes
`restart.rst` when that does not help either. Both are external. An interval is
the set of steps at which it answers true in one job (`Schedules`), fixed when
the job starts.

A copy may fail before it has touched `restart.bak` or after it has truncated it
(`BackupFails` in `backup` or `copying`); the save goes on either way.

The serializer's interval, the ranks that a step makes wait for each other, and
whether the copy may fail are parameters, because the answers depend on them.

### CheckpointStore and CheckpointRefinement

`CheckpointStore` is what a user may expect: one saved step, at most one save in
progress, a job starts from exactly the saved step, and a stop in the middle of a
save leaves the old or the new one. `CheckpointRefinement` maps the serializer to
it: while a job runs, the saved step is the last that *every* rank has finished
and the pending one is the one that *some* rank has begun; while none runs, it is
what `restart.rst`, or else `restart.bak`, leads to. `Down`, what the store shows as
its job while none runs, is any value that is not a set of steps.

### ProbeRecorder

One recorder across jobs, on the rank that owns the probe. `Save` is the
serializer as the probe sees it (it decides where the next job resumes),
`UpdateProbes` calls `AdvanceTime`, `Record` calls `SetValue`, `Close` is the
destructor, `Launch` the constructor that reads `lastOutputTime` back from the
file. `SolveAgain` is a further `TSSolve` of `SteadyStateStepper`, which calls the
monitors again for the step it is at. `Printed` is the conversion of a time to
six digits, with a grain; `CutTimes` is what a number cut by a kill may read as.
Samples are named by the step they belong to, so a wrong or repeated row shows.

### SteadyStateStepper

`TakeSteps` is a run of `checkInterval` steps, taken by all ranks together, after
which the solution may be any of `Fields`. A criterion begins with
`SubDomain::GetFieldLocalVector`, which makes a mesh of the field and fills in the
values of the neighbours: `Exchange`, a step of all ranks, for which each waits as
long as another has not come to this criterion (`WantsField`). Everything else each
rank does for itself: `CheckChange` and `CheckRange` compare (`pc` is `"compare"`),
`Return`, `GiveUp` and `GoOn` end the check. A criterion sees one value per rank,
that rank's part of the field, because the vector it gets belongs to that rank
only; the norms are the distance of two such values. That the exchange keeps all
ranks of the mesh together, and not only neighbours, comes from `DMCreateSubDM`,
which is collective; fields of the auxiliary mesh go the same way, without the
values of the neighbours. `before` is the solution before the last run of steps: no
action reads it, the properties compare with it. `ValidRange` throws when all values are
below the lower or above the upper bound; one of these is modelled.

### CoupledParticleSolver

| code | model |
|---|---|
| `Initialize`, `Restore` | `Start`, `Restore` |
| monitors, `Save` | `Monitor` |
| `PreRHSFunction`, `ComputeRHSFunction`, at each stage | `Stage`, with `Project` |
| PETSc's `TSStep` taking or refusing an attempt | `Accept`, `Reject` (external) |
| `CoupledParticleSolver::MacroStepParticles`, up to the migration | `MacroStep`: `ParticleStep`, `KeepPacked`, `Emit` |
| `SwarmMigrate` | `SwarmMigrate`, with `Changed` for each rank |

All of these are collective, so ranks are not interleaved: an action is taken by
all of them, and what a rank knows by itself (`dmChanged`, the size of the vectors
in its particle TS) is a function of the rank. A coordinate is the rank that owns
the place, or `Outside`, or `Unset` for memory nobody has written. A particle emits
one unit in a unit of time, so that at time *t* it must have emitted *t*: what the
flow has received and what waits in the particle are compared with the clock and
not with a counter of the model's own. The flow's step sizes, whether an attempt is
refused, and where a particle moves are any; the stages have equal weight. The
inner steps of the particle TS are one motion, and its own step size, which
`MacroStepParticles` puts back when a clipped last step has made it smaller, is
left out.

### RayTracing

| code | model |
|---|---|
| `Setup`, a particle for each ray | `Init`; its migration is `SetupMigrate` |
| `SurfaceRadiation::Initialize`, `DeleteOutOfBounds` | `DeleteOutOfBounds` |
| `Initialize`, the test of the loop on the size of the swarm | `GetSize` |
| `IdentifyNewRaysOnRank` | `IdentifyNewRay` |
| the loop that adds a cell to each ray | `ParticleStep` |
| the loop that ends a ray or moves its particle over the face | `Advance` |
| `DMSwarmMigrate` | `RoundMigrate`, with `Migrated` for each rank (external) |
| the way back, `remoteRayInformation`, `PetscSFSetUp` | `ReturnRay`, `SetUp` |
| `EvaluateGains` | `EvaluateGains`, with `Segment` on every rank and `Behind` at the origin |
| the flow between two evaluations | `FlowStep` (external) |

Here ranks do interleave: each goes through its loops by itself and meets the
others in the migration, the size of the swarm and the return, which are
collective. A loop takes the particles that are in `todo[r]` in any order, because
the order of a swarm depends on its removals and migrations. What path a ray takes
through the cells is geometry and a constant (`Path`), so is where a particle is
found (`found`, chosen among `Meshes`). `DMSwarmMigrate` gives a particle to every
rank that finds it, as the comments at `radiation/radiation.cpp` 301 and 316 say,
which is why `found` is a set. A cell is passed with a number of halvings instead
of an exponential, in units of `2^-Depth`, so gains are exact integers and can be
compared with those of one rank; a cell without a solution, outside of the subdomain,
changes nothing (`if (sol)`). A boundary cell that has a solution is recorded
twice, once as a cell and once as the wall behind it; what the first takes from the
light of the second it emits itself, so together they give the emission of a black
wall, which is what `GainsExact` asks for.

### TimeStepLoop

`TSSolve` and everything it calls back, as one process: its steps are collective.
What hangs on the clock of the flow is given by how far it has got on that clock.

| code | model |
|---|---|
| `TimeStepper::Initialize`, in its order: `InitializeSubDomains`, restore of what is registered, the adaptor's initializer, `RestoreTS` | `Start`, `Resume`, with `InitializeModel`, `Restore`, `AdaptInitializer` |
| the monitors: the serializer, which the constructor registers, and then `MonitorTurbFlowStats` | `Monitor`: `Save` and `MonitorStats` |
| `TSPreStageFunction`, `SolverComputeRHSFunction` and the functions before a right hand side | `Stage`: `PreStage`, `EvaluateGains`, `UpdateSolid` |
| a first stage taken over from the step before (PETSc, FSAL) | the other disjunct of `Stage`, `Reused` |
| `AdaptPhysics::TSAdaptChoose` | `ChoosePhysics` |
| `AdaptPhysicsConstrained::TSAdaptChoose` | `Estimated`, `TooLarge` (refused), `Unestimated` |
| PETSc's end of an attempt, the last step before `-ts_max_time` | `Accept`, `Refuse`, `MatchStep` (external) |

The solution is known by one number, the time step that `ComputePhysicsTimeStep`
would return for it (`limit`), which may be any of `Limits` after each attempt; the
solid by the time it has been advanced to; the wall's temperature by the time of
the surface temperature it was set from; the gains by the step they were evaluated
at; the statistics by how often each step is in them and by the sum of the weights.
The error estimate of the constrained adaptor may ask for any step the options
allow, and is refused only when that is shorter than the attempt, which is what
`hfac_lte < 1` gives. Whether a first stage is reused is decided when a step begins
and stays so for its further attempts; `restart`, which forbids it, holds when a job
starts and may be set between steps, by functions that change the solution.

Three kinds of adaptor are told apart because the properties hold differently:
`physics`, `constrained`, and `unestimated`, which is the constrained one with a
method that has no error estimate. The last never looks at the physics time step
after the initializer (`solver/adaptPhysicsConstrained.cpp` 48), so
`DtWithinPhysics` leaves it out; the second advances the solid again for each
attempt it refuses. The time that refused attempts have added is counted beside the
program (`wasted`, which no action reads), so `SolidInStep` is exact for all three:
at the end of a step the solid is where the flow is, but for what was refused, and
nothing is ever refused by the other two.

## 4. The runs

| run | instance | shows |
|---|---|---|
| `ckpt_fixed` | 3 ranks, objects collective/serial/collective, 4 steps, saves at 0, 2, 4, two kills, global reductions; fair | safety, refinement, the inductive invariant (`IInv` of `CheckpointSafety_proofs`) and liveness: a complete checkpoint stays reachable, restarts are consistent and never go back, due steps get saved |
| `ckpt_weak` | 3 ranks in a line that only wait for neighbours, the copy may fail, two kills | ranks still meet in the same file operations and restarts are consistent; `Recoverable` is lost |
| `ckpt_simulation_time` | 2 ranks, `SimulationTimeInterval` | **violation** of `RestoreConsistent` |
| `probe_restart` | buffer of 2, 8 steps, two kills, which may cut a row anywhere, and an early end; fair | no row repeated or wrong; as long as no row was cut, every sample is recorded in the end and a kill loses at most one buffer |
| `probe_rounding` | a time grain coarser than a step | **violation** of `RowsIncrease` |
| `steady_ranks` | 3 ranks whose parts change independently, range then change criterion; fair | a rank that returns is steady, one out of range stops at the next check, the limits hold; ranks end together unless a criterion is met on one and not on another |
| `steady_ranks_differ` | 2 ranks, independent parts | **violation** of `SteadyWhenReturned` |
| `coupled` | 2 particles that start on one of 3 ranks, 2 stages, step sizes 1 and 2 up to time 4, one kill | sources reach the flow exactly once, one step late; the particle TS's vectors fit; ranks agree on its reset; pre-step coordinates are right from the second step on |
| `coupled_first_step` | the same | **violation** of `PreStepIsBefore` |
| `rays` | 4 rays through 3 cells and a boundary cell on 3 ranks, from cells or from faces; four meshes: a ray that comes back to its rank, a path over all ranks, several rays in the loops of one rank, a cell in which a particle is found on two ranks, neither of which it comes from; fair | the search ends; every segment a rank is asked for exists and belongs to the ray; the order of segments and the gains are those of one rank |
| `step_loop` | 3 adaptors, each with and without a reused first stage, 3 stages, time 8, limits 1, 3 and 6 with safety 3/4, steps from 2 to 4, saves and radiation every second step, statistics every step, two kills; fair | solid, gains, step size and statistics stay with the clock of the flow; a job gets to its end |
| `solid_restart` | one adaptor, one kill | **violation** of `WallIsSurface` |

Bounds, and why they are enough. *Checkpoints*: a hazard needs the save before
(for `restart.bak`), the save in progress and a stale file of the save after, so
three saves; two kills let a job resume, recover from the backup and be killed
again; three ranks let one be ahead of and one behind the root; an object on each
side of the serial one lets ranks drift apart between two collective points. The
theorems of section 6 remove these bounds. *Probes*: a buffer of two rows is full,
half full and empty at checkpoints every third step; `Due` leaves out a step so
that the buffer is not in phase with the steps; a row that is cut may read as any
time. The theorems of section 6 remove these bounds. *Steady state*: for each of
three ranks and each criterion a value that meets it or not, and a change that does
or does not, all combinations; two jobs' starts (0, and after a
checkpoint), runs of two steps and a limit that is a multiple of them, the case in
which the loop goes furthest. `ts_max_time` is never reached (section 5 says what
happens then). The theorems of section 6 remove these bounds, also the
one on the criteria where they can be. *Coupled particles*: two particles can change places
between two ranks (no size changes), move together, or leave, and a third rank may
see none of it; time 4 holds a step
that is refused once and several steps of changing size before and after a kill.
The theorems of section 6 remove these bounds. *Rays*: on `Returning` a
ray leaves a rank and comes back to it, which opens a second segment there; on
`ThreeRanks` a path has a segment on each; on `Together` a ray ends while its rank has
another in the same loop, and segments have several cells; on `Copies` a particle that leaves rank 1
is found on ranks 2 and 3 and sent to both, and one of the two copies is then sent
on to the rank of the other, so that entries for the same place come back more than
once. `SegmentsFollowPath` and `GainsExact` speak of the first three, where a cell
belongs to one rank; which of the copies wins is not determined, and `SegmentsExist`
and `SlotsFilled` say what holds nevertheless. On all of them one ray leaves the
mesh, one ends in the boundary cell, one stays in its cell, and one starts on the
wrong side of a face and is removed by a surface. Two
emissions let an evaluation differ from the one before. `MaxSegment` and `Depth`
are larger than any path needs (`Room`, `Deep`, which `MCRayTracing` assumes). The
theorems of section 6 remove these bounds. *Time step loop*: the limits
lie below, inside and above the interval of the options, so that a step is clipped
at either end and the initializer shrinks the first one or leaves it; time 8 is not
a multiple of the steps, so that the last step is cut or split; saves at every
second step leave a step to repeat; `MaxReject` lets a step be refused from the
largest size down to the smallest. The theorems of section 6 remove these bounds.

Deadlock is checked in all runs but those of the steady state loop, where `Solve`
really ends. `ckpt_*`, `coupled` and `step_loop` end in the self-loop `Finished`, probes in
`Done`; in `rays` the flow and the evaluations go on.

### Fairness

* `ckpt_fixed`: weak fairness of the program as a whole: as long as some rank can
  go on, something happens. This is MPI's progress guarantee for ranks that are all
  scheduled. Kills and failing copies are not fair: they need not happen.
* `probe_restart`: weak fairness of the monitor calls, which follow each other in
  one thread; strong fairness of `Advance` and `Close`, because
  `SteadyStateStepper` repeats `TSSolve` only finitely often at a step before it
  takes one or ends.
* `steady_ranks`: weak fairness of each rank's own steps and of the collective ones,
  the run of steps and the exchange of a field, each of which happens only when all
  ranks have come to it. Ranks that the code lets go different ways wait for ever;
  `EndsUnlessParted` says that this happens only where their findings differ.
* `rays`: weak fairness of the program as a whole: ranks go on with their loops and
  take part in the collective calls.
* `step_loop`: weak fairness of the job: the program goes on, and a job that was
  killed is started again. Kills are not fair, and `Finishes` asks for the end of
  some job after the last of them. That refusals end needs no fairness: an attempt
  of the smallest size is not refused.

## 5. Findings

Each is shown by a run that TLC finds violated; `PROJECT.json` quotes the lines.

1. **Mixed restart** (`ckpt_simulation_time`). `SimulationTimeInterval` does not
   save `nextTime`, so the due steps shift when a job resumes. After recovery from
   `restart.bak` a sequence number can be used again for another step; a second
   kill then leaves a set of files of two different steps that loads without an
   error. Not so with `FixedInterval` (theorem `RestoresOneSave`).
2. **Repeated rows** (`probe_rounding`). Times are written with six digits and
   compared with exact ones after a restart. A time that was rounded down is
   recorded again, one that was rounded up hides samples.
3. **Ranks disagree on convergence** (`steady_ranks_differ`). The criteria look
   at the local part of a field and no reduction follows; a rank leaves the loop
   while another enters the next collective `TSSolve`.
4. **Pre-step coordinates of the first step** (`coupled_first_step`). The packed
   solution is copied for the processes' view of the particles *before* the time
   step, but the coordinates are put into it afterwards. In the first macro step of
   a simulation, also of one resumed from a checkpoint at time 0, a process reads
   coordinates nobody has written. Later steps are right (theorem
   `LaterStepsSeeCoordinates`).
5. **The wall is not restored** (`solid_restart`). The temperature of the boundary
   cells in front of a solid is in an auxiliary field, which `SubDomain::Restore`
   does not read back and, with such a model, nothing computes. A resumed job begins
   with the temperature of the solid's initialization at the wall and the restored
   one inside: the heat flux of its first step is wrong. From the first right hand
   side on it is right again.

What a rank's own part says is reliable (`SteadyWhereReturned`), and nothing but a
difference between the parts separates ranks (`PartedByFindings`): these hold for any
number of ranks, with one criterion for changes and without `ts_max_time`. Both
conditions are needed, and one rank is enough to see why. Of two change
criteria the second is skipped while the first has not
converged (`converged = converged && criterion->CheckConvergence(...)`,
`solver/steadyStateStepper.cpp` 73) and then compares with values of an older check;
for the same reason a `ValidRange` listed after a criterion that has not converged
stops nothing, which is why `steady_ranks` lists it first. When `ts_max_time` ends the
steps (`MaxTime = 4` instead of 100 in `steady_ranks_differ.cfg` shows it), the next
check compares the solution with itself.

About the flow statistics, from reading: the sums of the density are incremented in
the loop over the fields (`monitors/turbFlowStats.cpp` 103), so that with *n* fields
they are *n* times too large and the Favre averages of line 121 too small; the model
has one field. A sample's weight is the step the adaptor has planned; if that attempt
is refused it is not the step that is taken, and `StatsOnce` does not ask for the
weights there. About the solid: its `-ts_max_steps` of 10 000 000
(`oneDimensionHeatTransfer.cpp` 21) counts over all its solves, and when it is
reached the solid silently stays as it is.

About coupled particles, without a run: a particle that leaves the domain takes the
source of its last step with it, and the source of the last step of a simulation is
never delivered (the comment in `coupledParticles2D.yaml` knows of the lag). The
model evaluates the right hand side at every stage; a Runge-Kutta method that
reuses the last stage of a step as the first of the next would mix two steps'
sources, which depends on PETSc and is not modelled.

Also met, and a matter of definition: `ts_max_steps` is tested with `>` after a
run of steps, so up to `checkInterval` more steps than it says are taken
(`StepsBounded` states what holds).

## 6. The proofs

About 11 100 obligations, all checked by tlapm with Z3, Zenon and LS4.

**Checkpoints** (`Hdf5MultiFileSerializer_proofs`, `CheckpointSafety_proofs`,
`CheckpointRefinement_proofs`). For
any set of ranks, number of objects, any of which but the first may be serial,
any number of steps and of kills:

| theorem | states |
|---|---|
| `TypeCorrect` | every variable keeps its type; a sequence number never exceeds its step |
| `RanksAgree` | ranks in the same collective file operation write the same save |
| `BackupIsComplete` | a readable `restart.bak` names a complete checkpoint |
| `SavesInOrder` | later sequence numbers hold later steps, across jobs |
| `RestoresOneSave` | every object of every rank is restored from the step `restart.rst` names |
| `AlwaysRecoverable` | a complete checkpoint, once there, stays reachable, unless a copy fails |
| `CheckpointInvariant` | the invariant behind these, unless a copy fails |
| `WriterImplementsStore` | ranks, files, backup and kills implement `CheckpointStore`, unless a copy fails |
| `SavedStepNeverLost` | the step a job can resume from never goes back, unless a copy fails |

Assumptions. Those of `Hdf5MultiFileSerializer` on its constants, and two of the
proof module: `IntervalAssumption`, the due steps are the multiples of a fixed
number in every job (`FixedInterval`; without it finding 1 refutes the theorems),
and `ReductionAssumption`, a time step contains a global reduction (the error norm
of an adaptive step or the `MPI_Allreduce` of `ComputePhysicsTimeStep`).
The last four also assume that copies succeed. The reduction is needed:
without it a rank can be more than one save behind the root, and with three ranks
in a line and a save at every step TLC finds a `restart.bak` that is not complete.

The invariant. None of the properties is inductive: whether a backup is complete
depends on how far every other rank was when the root began its next save.
`TypeInv /\ Control /\ Files /\ Recovery` is:

* `Control`: where each rank is, as arithmetic. With interval *I*, a rank between
  two saves at step *s* has sequence number *s* div *I*, one in a save is at
  exactly `seq * I`, and (by the reduction) two ranks are never more than one save
  apart, and the one that is ahead has the other in its save.
* `Files`: file *f* of sequence *n* holds step *n I* or is not readable; a rank's
  files below its sequence number are written, and those of the current one up to
  `obj[r]`; `restart.rst` follows the root's sequence number and `restart.bak` is
  strictly behind it; while the root writes the new `restart.rst`, a backup that can
  be read is exactly the save before.
* `Recovery`: state files of a save are written only after the root has written
  `restart.rst`; from its second save on a job has the one before in
  `restart.bak`; a job that started afresh meets no complete later save.

The proof has one lemma for each action and conjunct. `ckpt_fixed` checks
`Control`, `Files` and `Recovery`, as `IInv`, on the instance.

The refinement rests on two facts of this invariant. In a running job no two ranks
are more than one save apart, so `AllWritten` and `Begun` are equal or neighbours and
the pending step is one step, whichever rank is asked (`RunningMapHolds`). And at a
kill the number `restart.rst`, or else `restart.bak`, leads to is one of these two
(`DiskSeqBetween`): the save in progress has taken effect or not, and what the next
job resumes from is never older. Then each action maps to one step of the store or to
none: the first rank whose `Monitor` finds a step due begins the store's save, and
whatever lets the last rank leave its save ends it (`MonitorRefines`,
`WriteRefines`); a kill is `Stop` (`CrashRefines`); `StartFresh` and `Resume` are
`Start`, and the user's use of the backup changes nothing (`LaunchRefines`).

**Probes** (`ProbeRecorder_proofs`). For any buffer size, interval, step, times a cut
row may read as, and number of jobs, whether they end or are killed:

| theorem | states |
|---|---|
| `ProbesTypeCorrect` | every variable keeps its type; no value is put outside the buffer |
| `RowsAlwaysTrue` | a whole row shows the time of the sample it holds |
| `RowsAlwaysIncrease` | no sample is recorded twice, rows are in the order of the steps |
| `LossAlwaysBounded` | a kill loses one buffer at most, and a job that ends nothing |

The first two hold for any rounding of times. The other two are proved for times the
file's digits suffice for (`PrintedExactly`: every step's time is printed as it is);
`probe_restart` is such an instance and `probe_rounding`, finding 2, is not. Three
invariants carry them. `BufferInv`: a row of the buffer has the time of its sample,
except the last one between `AdvanceTime` and `SetValue`, whose time is the step's also
when the step is seen a second time and no row was begun. `OrderInv`: times increase
along the file and on along the buffer, and `lastOutputTime` is not before any of
them. A row cut by a kill can only raise what the next job reads back, and new
rows go to its line, so the order survives. `LossInv`: there is a set of lost steps, at
most one buffer for each kill, such that every due step a job was asked for is in the
file, in the buffer or lost; that a job resumes at a step it has been asked for is why
`saved` is not after `step`.

**Steady state loop** (`SteadyStateStepper_proofs`). For any ranks, solutions, limits
and starting steps:

| theorem | states | provided that |
|---|---|---|
| `StepperTypeCorrect` | every variable keeps its type | |
| `StepperStepsBounded` | no rank goes more than `checkInterval` steps beyond `ts_max_steps` or its start | |
| `RangeEndsTheLoop` | a solution out of range keeps a rank from returning and from another run | `RangesFirst` |
| `RanksPartByFindings` | of two ranks that have ended or wait in different places, one finds a criterion met and the other does not | `OneChangeCriterion`, `EnoughTime` |
| `ReturnsSteady` | `Solve` returns on a rank only when the last run of steps changed little there | `OneChangeCriterion`, `EnoughTime` |

Nothing is assumed of the parts of the ranks: they change independently.
The hypotheses are those under which the code keeps the promise.
`RangesFirst`: range criteria are listed before change criteria, because `&&` skips a
range after a criterion that has not converged. `OneChangeCriterion`: a second one is
skipped for the same reason and compares with an older check. `EnoughTime`:
`ts_max_time` is later than any step taken, otherwise the solution is compared with
itself. `steady_ranks` satisfies all three. That the ranks end together cannot be
proved, because it is not so: `steady_ranks_differ` is finding 3.

For the bound, the invariant adds that the limit a rank has handed to the time
stepper is itself bounded as long as it may still take steps. After the check the
limit is raised once more, but only for a rank that returned; this is why the
bound cannot be stated for `tsMaxSteps` alone. `RangeInv` says that a rank past a range
in this check has met it. `PartInv` has two parts. `Knows` is about one
rank: its `previousValues` are those of the solution before the last run of steps, or,
for a criterion it has evaluated in this check, of the present one (`Previous`); the
criteria it has passed are met, and the one that stopped it is not (`Found`); and
where it is follows from that and from its limits (`Where`). `InStep` is about two:
all are at the same step and have exchanged the values of the same number of criteria
(`Met`), also those that have ended or wait for the next run, because neither
collective step happens without all of them. So where two ranks are in different
places, the last criterion they exchanged parted them.

**Coupled particles** (`CoupledParticleSolver_proofs`). For any number of particles,
ranks, stages, step sizes and kills:

| theorem | states |
|---|---|
| `CoupledTypeCorrect` | every variable keeps its type; no particle emits for a negative time |
| `SourcesAccounted` | the flow has received exactly what a particle in the domain emitted up to the start of the last step |
| `VectorsAlwaysFit` | the particle TS never advances a swarm of another size than its vectors |
| `ResetAlwaysAgreed` | all ranks take the same branch at `TSReset` |
| `LaterStepsSeeCoordinates` | pre-step coordinates are right from the second step on |

The invariant of the first two adds to the types: in a step, the sum over the stages
is the number of stages times the source, divided by the *present* step size
(`StepInv`, which is where a refused attempt matters); after the step and before the
macro step the flow is level with the clock of the particle TS, which lags behind
the flow; and a checkpoint satisfies the same equation as memory. The other three
have small invariants of their own, `FitInv` (vectors fit, or are missing, or every
rank knows) and `CoordInv` (packed coordinates are those of the swarm once the clock
has moved, in memory and in the checkpoint).

**Rays** (`RayTracing_proofs`). For any mesh, partition, rays and number of ranks,
also where particles are found on several ranks:

| theorem | states |
|---|---|
| `SegmentsAlwaysExist` | every identifier names a segment that exists on its rank and belongs to one ray |
| `SlotsAlwaysFilled` | every place of the `PetscSF` of a ray is written, with an entry of this ray for this place |
| `RaysTypeCorrect` | every variable keeps its type, the carriers of the gains included |
| `SegmentsFollowThePath` | where a cell belongs to one rank, the segments of a ray are, in order, consecutive pieces of what one rank alone records |
| `GainsOfOneRank` | where a cell belongs to one rank, the gain of a ray after every evaluation is what one rank alone would find along its path |

The assumptions are those of `RayTracing` on its constants; `SegmentsFollowThePath` and
`GainsOfOneRank` also assume that a segment has room for a path (`Room`), the latter
that no ray halves the light more often than is counted (`Deep`): with fewer units a
division would round, and how it does depends on where a path is cut. TLC evaluates
both on the instance of `rays`. The first theorem rests
on what a rank does by itself: `InStep`, entry *i* of `radReturn` is that of segment
*i*; `Carried`, a particle was never identified or knows a segment that exists; and
`Here`, between identification and migration every particle of a rank carries that
rank. The second needs the whole history: `Complete`, that with every identifier,
on a particle or on its way back, all smaller `nSegment` of the same ray have an
entry on some rank. A copy that a migration makes keeps the identifier, so this
survives duplicates, and the particle that is identified adds the entry that follows
its own. `Bounded`, that there is a largest `nSegment`, makes the number of places
the origin computes from a maximum a number.

The carriers are folds over the cells of a segment and over the segments of a ray. A
fold is a function that is chosen (`CHOOSE`); that it exists, and what its steps are, is
proved by induction, in the form that a set of numbers that is not empty has a
smallest one (`Induction`, `FoldExists`, `FoldSeries`). Powers of two are positive
because they count subsets.

That segments follow the path is about one particle, as `PetscSF` places are about
many: where a cell belongs to one rank, a migration makes no copies. The invariant
`PathInv` says of each ray that `One` particle at most is on its way, on the rank that
owns its cell (`Owned`); that the numbers of the entries are those up to the
particle's own, each once (`Numbered`); that there are places at which to cut the
path such that its pieces are the segments (`Trails`), up to the cell before the
particle's or up to its own, depending on the loop its rank is in; and the same, up to
some cell, for a ray whose particle is gone (`Left`). A piece is added when the
particle is identified on a new rank (`IdentifyNewRayPath`) and gets one cell longer
in `ParticleStep`; the wall is recorded together with the last cell, which is why the
place reached in the trace (`Far`) is not the number of cells.

For the gains the pieces must be all of the path, which is true only when the search
is over. `EndInv`, checked by TLC on the instance of `rays` before it was proved, says
that a ray which begins in the region has a particle or its whole trace is in segments
(`Arrived`), that the others are removed before they leave one (`Starting`,
`Untouched`), that no particle is left when entries are sent back (`Over`), and that
an origin has them in the order of their numbers (`Gathered`). The rest is arithmetic:
a cell passed behind *k* halvings gives what it gives alone, divided by `2^k`
(`PassFarther`), so a piece seen behind what is in front of it is the light carried
through both (`Split`), and by induction over the pieces all of them are the light
carried through the trace (`Combined`), which is the sum over the path that
`Reference` defines (`WholeGain`). None of it depends on where the path is cut.

**Time step loop** (`TimeStepLoop_proofs`). For any adaptors, limits and safety
factors, step sizes, intervals, number of stages, refusals and kills:

| theorem | states |
|---|---|
| `TypeCorrect` | every variable keeps its type; no step is empty or goes past `-ts_max_time` |
| `SolidStaysInStep` | the solid has been advanced once for each attempt: by the time of the flow, and by what was refused |
| `GainsStayDue` | a step uses the gains of the last step at which radiation was due |
| `DtStaysWithinPhysics` | no attempt is longer than the solution it starts from allows |
| `StatsCountOnce` | each due step is in the sums once, with weights that add up to the time |

The assumptions are those on the constants: the safety factor does not enlarge a
limit, `dt_min` is positive, an interval is due at step 0. `GainsStayDue` holds where
radiation is due at every step that is saved (`RadiationWithSaves`, part of the
property): the gains are not saved, so otherwise a resumed job has none. `TInv` adds
to the types that a step fits before the end of time (`Fits`), also that of a
checkpoint, which is why `MatchStep` is proved with its bounds first. The others
have an invariant each, split at the moment a step evaluates its boundary, which is
told by `PreStage` and not by the stage, because a first stage may be reused: before
it the solid is level with the clock and `wasted`, and the gains may be older only if new ones are
due; after it both are those of the step (`SolidInv`, `GainsInv`). `StatsBefore` says
that the sums of a checkpoint have all steps before its own, for which the serializer
has to be the first monitor.

**Only model-checked**: liveness, for which the installed provers have no way to reason
about ENABLED (`EventuallyAllSaved`, `EventuallyRecorded`, `EndsUnlessParted`,
`SearchEnds`, `Finishes`).

## 7. Not modelled

The components with status `not_modelled` in `PROJECT.json`, each with its reason:
those of the plan above, the numerics, and set-up code that runs once and
sequentially. Inside what is modelled: the xmf summary the serializer writes when
it is destroyed; the byte contents of files; the lookup of the rank that owns a
probe; log output; `DelayInterval` and `EquationInterval` (each is some set of due
steps, but no run gives it) and `WallTimeInterval` (the same, with the answer of
rank 0 broadcast to all). Of the time step loop: the numerics of fluxes, error
estimates and the heat equation, more than one face or field, `always_accept`,
implicit functions, a stepper without solvers, and the time at which additional heat
fluxes are taken. Of radiation: the intersection of a ray with a face
(`Path` stands for its results), the wavelengths and the sum over the rays of a cell
(each ray is taken alone), `OrthogonalRadiation`, and `RaySharingRadiation`, which
lets the rays of one solver be traced by another. About the latter, from reading
only: a particle that comes back to the rank it started on is given the list of
cells of its re-entry, and cells are added to it again
(`radiation/raySharingRadiation.cpp` 150, against the comment in
`radiation/raySharingRadiation.hpp` 31).
