----------------------- MODULE Hdf5MultiFileSerializer -----------------------
(***************************************************************************)
(* ablate::io::Hdf5MultiFileSerializer: the checkpoint writer of ABLATE    *)
(* (src/io/hdf5MultiFileSerializer.cpp), run by every MPI rank of a job as *)
(* the first monitor of the time stepper (src/solver/timeStepper.cpp).     *)
(*                                                                         *)
(* On disk there are restart.rst (which checkpoint to resume from), its    *)
(* copy restart.bak, and one hdf5 file per serializable object and         *)
(* sequence number: a single file for a collective object, one file per    *)
(* rank for a serial one.  A job may be killed between any two of the      *)
(* steps below; what is on disk then stays, and a later job starts from    *)
(* it.  restart.bak is read by no code: RecoverFromBackup is the user      *)
(* copying it back when the job no longer starts.                          *)
(***************************************************************************)
EXTENDS Integers

CONSTANTS
    Rank,          \* the MPI ranks of PETSC_COMM_WORLD
    Root,          \* rank 0, the only one that touches restart.rst
    NObjects,      \* number of registered serializables, saved in order 1..NObjects
    Serial,        \* those whose SerializerType is serial; the others are collective
    Peers,         \* Peers[r]: ranks that r needs an answer from within one time step
    Schedules,     \* Schedules[k]: the sets of steps at which Interval::Check may answer
                   \* true in a job that resumed at step k (k = -1: started afresh)
    BackupCanFail, \* whether copying restart.rst to restart.bak may fail
    MaxStep,       \* bound: ts_max_steps
    MaxCrashes,    \* bound: how often a job is killed
    NoFile,        \* a file that does not exist
    Torn           \* a file that was truncated and not (yet) written to its end

Object     == 1..NObjects
Collective == Object \ Serial
Step       == 0..MaxStep

ASSUME RanksAssumption   == Root \in Rank /\ Peers \in [Rank -> SUBSET Rank]
ASSUME ObjectsAssumption == NObjects \in Nat \ {0} /\ Serial \subseteq 2..NObjects
ASSUME BoundsAssumption  == MaxStep \in Nat /\ MaxCrashes \in Nat
ASSUME ScheduleAssumption ==
    /\ DOMAIN Schedules = Step \cup {-1}
    /\ \A k \in Step \cup {-1} : Schedules[k] \subseteq SUBSET Step
ASSUME FlagAssumption    == BackupCanFail \in BOOLEAN
(* GetOutputFilePath: the file of an object for one sequence number.        *)
FileOf(o, r) == <<o, IF o \in Serial THEN r ELSE Root>>
File == {FileOf(o, r) : o \in Object, r \in Rank}

(* What restart.rst holds: the time step and the sequence number of a save. *)
(* Every save sets time and dt together with timeStep, so neither is kept.  *)
Meta == [step : Step, seq : Step]

(* What a resumed job has read: restart.rst and the step each file held.    *)
Restored == [meta : Meta, from : [File -> Step]]

ASSUME MarkersAssumption ==
    /\ NoFile # Torn
    /\ \A x \in {NoFile, Torn} : x \notin Int /\ x \notin Meta /\ x \notin Restored

VARIABLES
    rst, bak,    \* restart.rst and restart.bak
    disk,        \* disk[n][f]: the step whose state file f of sequence n holds
    up,          \* whether a job is running
    crashes,     \* how many jobs have been killed
    sched,       \* the steps at which Interval::Check answers true in this job
    restored,    \* what this job resumed from: NoFile, or metadata and file contents
    pc,          \* where each rank is
    step,        \* TSGetStepNumber on each rank
    timeStep,    \* Hdf5MultiFileSerializer::timeStep on each rank
    seq,         \* Hdf5MultiFileSerializer::sequenceNumber on each rank
    obj          \* the serializable each rank is at in its loop

durable == <<rst, bak, disk>>
job     == <<up, crashes, sched, restored>>
local   == <<pc, step, timeStep, seq, obj>>
vars    == <<durable, job, local>>

Saving == {"backup", "copying", "truncate", "metadata", "object", "writing"}
PC     == Saving \cup {"down", "monitor", "advance"}

(* Every file of the checkpoint that m names can be read to its end.        *)
Usable(m) == m \in Meta /\ \A f \in File : disk[m.seq][f] \in Step

(* Every file of the checkpoint that m names holds the step that m names.   *)
Complete(m) == m \in Meta /\ \A f \in File : disk[m.seq][f] = m.step

-----------------------------------------------------------------------------
(* Starting a job: constructor, Register for every object, RestoreTS.       *)

Init ==
    /\ rst = NoFile /\ bak = NoFile
    /\ disk = [n \in Step |-> [f \in File |-> NoFile]]
    /\ up = FALSE /\ crashes = 0 /\ sched = {} /\ restored = NoFile
    /\ pc = [r \in Rank |-> "down"]
    /\ step = [r \in Rank |-> 0]
    /\ timeStep = [r \in Rank |-> -1]
    /\ seq = [r \in Rank |-> -1]
    /\ obj = [r \in Rank |-> 1]

Launch(k, n) ==
    /\ up' = TRUE
    /\ sched' \in Schedules[k]
    /\ pc' = [r \in Rank |-> "monitor"]
    /\ step' = [r \in Rank |-> IF k = -1 THEN 0 ELSE k]
    /\ timeStep' = [r \in Rank |-> k]
    /\ seq' = [r \in Rank |-> n]
    /\ obj' = [r \in Rank |-> 1]
    /\ UNCHANGED <<durable, crashes>>

(* No restart.rst: resumed = false, nothing is restored.                    *)
StartFresh ==
    /\ ~up /\ rst = NoFile
    /\ Launch(-1, -1)
    /\ restored' = NoFile

(* Variant: the files are read with the sequence number before.             *)
ResumePrevious ==
    /\ ~up /\ Usable(rst) /\ rst.seq > 0
    /\ Launch(rst.step, rst.seq)
    /\ restored' = [meta |-> rst, from |-> disk[rst.seq - 1]]

(* restart.rst exists: the metadata is loaded and every object is restored  *)
(* from its file of that sequence number.  A restart.rst that cannot be     *)
(* parsed, a missing or a torn file throw, and the job does not start.      *)
Resume ==
    /\ ~up /\ Usable(rst)
    /\ Launch(rst.step, rst.seq)
    /\ restored' = [meta |-> rst, from |-> disk[rst.seq]]

(* The user's use of the backup when the job no longer starts.              *)
RecoverFromBackup ==
    /\ ~up /\ rst # NoFile /\ ~Usable(rst) /\ Usable(bak)
    /\ rst' = bak
    /\ UNCHANGED <<bak, disk, job, local>>

(* Neither file can be used: the user removes restart.rst and starts again. *)
StartOver ==
    /\ ~up /\ rst # NoFile /\ ~Usable(rst) /\ ~Usable(bak)
    /\ rst' = NoFile
    /\ UNCHANGED <<bak, disk, job, local>>

-----------------------------------------------------------------------------
(* Hdf5MultiFileSerializerSaveStateFunction, called by TSMonitor.           *)

Goto(r, label) == pc' = [pc EXCEPT ![r] = label]

(* Variants of Monitor that no run of the specification uses: without the   *)
(* same-step test, and with an interval that every rank decides by itself.  *)
MonitorNoDedup(r) ==
    /\ pc[r] = "monitor"
    /\ IF step[r] \in sched
         THEN /\ timeStep' = [timeStep EXCEPT ![r] = step[r]]
              /\ seq' = [seq EXCEPT ![r] = @ + 1]
              /\ obj' = [obj EXCEPT ![r] = 1]
              /\ Goto(r, IF r = Root THEN "backup" ELSE "object")
         ELSE /\ Goto(r, "advance")
              /\ UNCHANGED <<timeStep, seq, obj>>
    /\ UNCHANGED <<durable, job, step>>

MonitorOwnClock(r) ==
    /\ pc[r] = "monitor"
    /\ \E due \in BOOLEAN :
         IF step[r] > timeStep[r] /\ (IF r = Root THEN step[r] \in sched ELSE due)
           THEN /\ timeStep' = [timeStep EXCEPT ![r] = step[r]]
                /\ seq' = [seq EXCEPT ![r] = @ + 1]
                /\ obj' = [obj EXCEPT ![r] = 1]
                /\ Goto(r, IF r = Root THEN "backup" ELSE "object")
           ELSE /\ Goto(r, "advance")
                /\ UNCHANGED <<timeStep, seq, obj>>
    /\ UNCHANGED <<durable, job, step>>

(* The same step is not saved twice; a due step bumps the sequence number.  *)
Monitor(r) ==
    /\ pc[r] = "monitor"
    /\ IF step[r] > timeStep[r] /\ step[r] \in sched
         THEN /\ timeStep' = [timeStep EXCEPT ![r] = step[r]]
              /\ seq' = [seq EXCEPT ![r] = @ + 1]
              /\ obj' = [obj EXCEPT ![r] = 1]
              /\ Goto(r, IF r = Root THEN "backup" ELSE "object")
         ELSE /\ Goto(r, "advance")
              /\ UNCHANGED <<timeStep, seq, obj>>
    /\ UNCHANGED <<durable, job, step>>

(* Variants: no backup is ever made; the backup is a copy of the new        *)
(* restart.rst.                                                             *)
SkipBackupAlways ==
    /\ pc[Root] = "backup"
    /\ Goto(Root, "truncate")
    /\ UNCHANGED <<durable, job, step, timeStep, seq, obj>>

CloseBackupNew ==
    /\ pc[Root] = "copying"
    /\ bak' = [step |-> timeStep[Root], seq |-> seq[Root]]
    /\ Goto(Root, "truncate")
    /\ UNCHANGED <<rst, disk, job, step, timeStep, seq, obj>>

(* SaveMetadata on rank 0.  The backup is opened (and truncated), then      *)
(* filled; without a restart.rst there is nothing to back up.               *)
SkipBackup ==
    /\ pc[Root] = "backup" /\ rst = NoFile
    /\ Goto(Root, "truncate")
    /\ UNCHANGED <<durable, job, step, timeStep, seq, obj>>

OpenBackup ==
    /\ pc[Root] = "backup" /\ rst # NoFile
    /\ bak' = Torn
    /\ Goto(Root, "copying")
    /\ UNCHANGED <<rst, disk, job, step, timeStep, seq, obj>>

CloseBackup ==
    /\ pc[Root] = "copying"
    /\ bak' = rst
    /\ Goto(Root, "truncate")
    /\ UNCHANGED <<rst, disk, job, step, timeStep, seq, obj>>

(* "Cannot create restart.bak file ... Continuing without backup file.":    *)
(* the copy throws before it has opened restart.bak, or after truncating it.*)
BackupFails ==
    /\ BackupCanFail
    /\ pc[Root] \in {"backup", "copying"} /\ rst # NoFile
    /\ Goto(Root, "truncate")
    /\ UNCHANGED <<durable, job, step, timeStep, seq, obj>>

(* std::ofstream: open truncates the file, close writes the buffer out.     *)
TruncateMetadata ==
    /\ pc[Root] = "truncate"
    /\ rst' = Torn
    /\ Goto(Root, "metadata")
    /\ UNCHANGED <<bak, disk, job, step, timeStep, seq, obj>>

WriteMetadata ==
    /\ pc[Root] = "metadata"
    /\ rst' = [step |-> timeStep[Root], seq |-> seq[Root]]
    /\ Goto(Root, "object")
    /\ UNCHANGED <<bak, disk, job, step, timeStep, seq, obj>>

(* The loop over the serializables.                                         *)
Put(f, r, content) == disk' = [disk EXCEPT ![seq[r]][f] = content]

(* Variant: the loop ends after one object.                                 *)
AfterOne(r) == "advance"

After(r) == IF obj[r] < NObjects THEN "object" ELSE "advance"

AtObject(r, o, label) == pc[r] = label /\ obj[r] = o

(* A file of its own for every rank (PETSC_COMM_SELF).                      *)
OpenSerial(r) ==
    /\ AtObject(r, obj[r], "object") /\ obj[r] \in Serial
    /\ Put(FileOf(obj[r], r), r, Torn)
    /\ Goto(r, "writing")
    /\ UNCHANGED <<rst, bak, job, step, timeStep, seq, obj>>

(* Variant: the loop index runs past the last object.                       *)
CloseSerialPastEnd(r) ==
    /\ AtObject(r, obj[r], "writing") /\ obj[r] \in Serial
    /\ Put(FileOf(obj[r], r), r, timeStep[r])
    /\ Goto(r, After(r))
    /\ obj' = [obj EXCEPT ![r] = @ + 1]
    /\ UNCHANGED <<rst, bak, job, step, timeStep, seq>>

CloseSerial(r) ==
    /\ AtObject(r, obj[r], "writing") /\ obj[r] \in Serial
    /\ Put(FileOf(obj[r], r), r, timeStep[r])
    /\ Goto(r, After(r))
    /\ obj' = [obj EXCEPT ![r] = IF @ < NObjects THEN @ + 1 ELSE @]
    /\ UNCHANGED <<rst, bak, job, step, timeStep, seq>>

(* One file for all ranks (PETSC_COMM_WORLD): opening and closing it are    *)
(* collective, so they happen when every rank has arrived.                  *)
OpenCollective(o) ==
    /\ o \in Collective
    /\ \A r \in Rank : AtObject(r, o, "object")
    /\ Put(FileOf(o, Root), Root, Torn)
    /\ pc' = [r \in Rank |-> "writing"]
    /\ UNCHANGED <<rst, bak, job, step, timeStep, seq, obj>>

CloseCollective(o) ==
    /\ o \in Collective
    /\ \A r \in Rank : AtObject(r, o, "writing")
    /\ Put(FileOf(o, Root), Root, timeStep[Root])
    /\ pc' = [r \in Rank |-> After(r)]
    /\ obj' = [r \in Rank |-> IF obj[r] < NObjects THEN obj[r] + 1 ELSE obj[r]]
    /\ UNCHANGED <<rst, bak, job, step, timeStep, seq>>

-----------------------------------------------------------------------------
(* The rest of the job: TSStep and the monitor call that follows it.  The   *)
(* step ends on r only when every peer has entered it: with Peers[r] = Rank *)
(* a step contains a global reduction (the error norm or the                *)
(* MPI_Allreduce of ComputePhysicsTimeStep), with fewer only the ghost      *)
(* exchange with the neighbours of r.                                       *)
Advance(r) ==
    /\ pc[r] = "advance" /\ step[r] < MaxStep
    /\ \A q \in Peers[r] : step[q] > step[r] \/ (step[q] = step[r] /\ pc[q] = "advance")
    /\ step' = [step EXCEPT ![r] = @ + 1]
    /\ Goto(r, "monitor")
    /\ UNCHANGED <<durable, job, timeStep, seq, obj>>

(* The job is killed (or ends); files keep what was written to them.        *)
Crash ==
    /\ up /\ crashes < MaxCrashes
    /\ up' = FALSE /\ crashes' = crashes + 1 /\ sched' = {} /\ restored' = NoFile
    /\ pc' = [r \in Rank |-> "down"]
    /\ step' = [r \in Rank |-> 0]
    /\ timeStep' = [r \in Rank |-> -1]
    /\ seq' = [r \in Rank |-> -1]
    /\ obj' = [r \in Rank |-> 1]
    /\ UNCHANGED durable

(* TSSolve has reached ts_max_steps on every rank.                          *)
Finished ==
    /\ up /\ \A r \in Rank : pc[r] = "advance" /\ step[r] = MaxStep
    /\ UNCHANGED vars

Launching == StartFresh \/ Resume \/ RecoverFromBackup \/ StartOver

SaveMetadata == SkipBackup \/ OpenBackup \/ CloseBackup \/ TruncateMetadata \/ WriteMetadata

RankStep(r) == Monitor(r) \/ OpenSerial(r) \/ CloseSerial(r) \/ Advance(r)

CollectiveStep == \E o \in Object : OpenCollective(o) \/ CloseCollective(o)

Program == Launching \/ SaveMetadata \/ CollectiveStep \/ \E r \in Rank : RankStep(r)

Next == Program \/ BackupFails \/ Crash \/ Finished

Spec == Init /\ [][Next]_vars

(* As long as the job can go on it does: no rank stops on its own.          *)
FairSpec == Spec /\ WF_vars(Program)

-----------------------------------------------------------------------------
(* Properties.                                                              *)

(* Every variable stays in its range; in particular a sequence number never *)
(* exceeds the step it was written at.                                      *)
TypeOK ==
    /\ rst \in Meta \cup {NoFile, Torn}
    /\ bak \in Meta \cup {NoFile, Torn}
    /\ disk \in [Step -> [File -> Step \cup {NoFile, Torn}]]
    /\ up \in BOOLEAN /\ crashes \in 0..MaxCrashes /\ sched \subseteq Step
    /\ restored \in Restored \cup {NoFile}
    /\ pc \in [Rank -> PC]
    /\ step \in [Rank -> Step]
    /\ timeStep \in [Rank -> Step \cup {-1}]
    /\ seq \in [Rank -> Step \cup {-1}]
    /\ obj \in [Rank -> Object]

(* restart.bak, whenever it can be read, names a checkpoint every file of   *)
(* which every rank has written: what SaveMetadata keeps it for.            *)
BackupComplete == bak \in Meta => Complete(bak)

(* Once a whole checkpoint is on disk, a kill at any moment leaves one that *)
(* restart.rst or restart.bak leads to.                                     *)
Recoverable ==
    (\E m \in Meta : Complete(m)) => Complete(rst) \/ Complete(bak)

(* A job resumes from the files of one save: every object, on every rank,   *)
(* restores the step that restart.rst names.                                *)
RestoreConsistent ==
    restored # NoFile => \A f \in File : restored.from[f] = restored.meta.step

(* Ranks that meet in a collective open or close mean the same file and the *)
(* same step: their decisions to save never differ.                         *)
CollectivesMatch ==
    \A q, r \in Rank :
        /\ {pc[q], pc[r]} \subseteq {"object", "writing"}
        /\ {obj[q], obj[r]} \subseteq Collective
        => (obj[q] = obj[r] => seq[q] = seq[r] /\ timeStep[q] = timeStep[r])

(* Up to the sequence number in restart.rst, later sequence numbers hold    *)
(* later steps: no step is saved twice, in one job or across restarts.      *)
SequencesIncrease ==
    rst \in Meta =>
        \A f \in File : \A m, n \in 0..rst.seq :
            m < n /\ {disk[m][f], disk[n][f]} \subseteq Step => disk[m][f] < disk[n][f]

(* A job that is not killed any more saves every step that is due, and      *)
(* ends with restart.rst naming a complete checkpoint.                      *)
EventuallyAllSaved ==
    <>[](/\ Complete(rst)
         /\ \A s \in sched : s <= rst.step)

=============================================================================
