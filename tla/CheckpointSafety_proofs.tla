------------------------ MODULE CheckpointSafety_proofs ------------------------
(***************************************************************************)
(* What is on disk: at any moment, whatever has been killed before, the    *)
(* files that restart.rst and restart.bak lead to.                         *)
(***************************************************************************)
EXTENDS Hdf5MultiFileSerializer_proofs

-----------------------------------------------------------------------------
(* The inductive invariant, on top of TypeInv and Control.                  *)

AllDone(n) == \A f \in File : disk[n][f] \in Step

(* Every readable file of sequence n holds the step of that sequence.       *)
DiskStep == \A n \in Step, f \in File : disk[n][f] \in Step => disk[n][f] = n * Interval

(* Rank r has written its file of object o for its current sequence.        *)
Done(r, o) ==
    \/ pc[r] \in {"monitor", "advance"}
    \/ pc[r] \in {"object", "writing"} /\ o < obj[r]

Progress ==
    up => \A r \in Rank, o \in Object, n \in Step :
            n < seq[r] \/ (n = seq[r] /\ Done(r, o)) => disk[n][FileOf(o, r)] \in Step

(* How restart.rst follows the root's sequence number.                      *)
RootMeta ==
    up => /\ pc[Root] \in {"backup", "copying", "truncate", "metadata"} => obj[Root] = 1
          /\ pc[Root] \in {"backup", "copying", "truncate"} =>
               \/ rst = NoFile /\ seq[Root] = 0 /\ pc[Root] # "copying"
               \/ rst \in Meta /\ rst.seq = seq[Root] - 1
          /\ pc[Root] = "metadata" => rst = Torn
          /\ pc[Root] \in {"monitor", "object", "writing", "advance"} =>
               \/ rst = NoFile /\ seq[Root] = -1
               \/ rst \in Meta /\ rst.seq = seq[Root]

(* What comes before the root's sequence number, before restart.rst's, or   *)
(* up to restart.bak's is complete.                                         *)
Earlier ==
    /\ up => \A n \in Step : n < seq[Root] => AllDone(n)
    /\ rst \in Meta => \A n \in Step : n < rst.seq => AllDone(n)
    /\ bak \in Meta => \A n \in Step : n <= bak.seq => AllDone(n)

(* The backup never names the sequence that is being written.               *)
BackupBehind ==
    /\ rst = NoFile => bak \notin Meta
    /\ rst \in Meta /\ bak \in Meta => bak.seq <= rst.seq
    /\ up /\ bak \in Meta => bak.seq <= Base \/ bak.seq < seq[Root]

Files == DiskStep /\ Progress /\ RootMeta /\ Earlier /\ BackupBehind

(* A rank writes state files only after the root has written restart.rst.   *)
RootFirst ==
    up => \A r \in Rank :
            pc[r] = "writing" \/ (pc[r] = "object" /\ obj[r] > 1) =>
                seq[Root] = seq[r] /\ pc[Root] \in {"object", "writing", "advance"}

(* From its second save on, a job has the save before it in restart.bak.    *)
BackupInPlace ==
    up /\ seq[Root] > Base /\ seq[Root] >= 1 /\ pc[Root] \notin {"backup", "copying"}
        => bak \in Meta /\ bak.seq = seq[Root] - 1

(* A job that started afresh finds no complete later save on disk.          *)
NothingLater ==
    up /\ Base = -1 /\ seq[Root] <= 0 => \A n \in Step \ {0} : ~AllDone(n)

SomethingUsable ==
    Usable(rst) \/ bak \in Meta \/ \A n \in Step : ~AllDone(n)

Recovery == RootFirst /\ BackupInPlace /\ NothingLater /\ SomethingUsable

(* Where each rank is and what is on disk by then, and that a job finds     *)
(* there what it has to: what the safety theorems rest on.                  *)
IInv == Control /\ Files /\ Recovery

-----------------------------------------------------------------------------
(* Files.                                                                   *)

LEMMA RootIsRank == Root \in Rank
BY RanksAssumption

(* The numbers in the metadata files.                                       *)
LEMMA MetaType ==
    ASSUME NEW m \in Meta
    PROVE  m.seq \in Step /\ m.step \in Step /\ m.seq \in Nat /\ m.step \in Nat
BY BoundsAssumption DEF Meta, Step

LEMMA StepType == \A n \in Step : n \in Nat /\ n \in Int
BY BoundsAssumption DEF Step

(* A rank that is still saving makes the files of its sequence number, and  *)
(* the root and the backup are not beyond it.                               *)
LEMMA WriterAhead ==
    ASSUME TypeInv, Control, Files, up, NEW r \in Rank, pc[r] \in Saving
    PROVE  /\ seq[r] \in Step /\ seq[Root] <= seq[r]
           /\ bak \in Meta => bak.seq < seq[r]
           /\ rst \in Meta => rst.seq <= seq[r]
<1>1. seq[r] \in Step /\ seq[r] > Base /\ seq[r] \in Int /\ seq[Root] \in Int
  BY PlaceBounds, RootIsRank
<1>2. pc[r] \notin {"monitor", "advance"}
  BY DEF Saving
<1>3. seq[Root] <= seq[r]
  BY <1>1, <1>2, SeqGap, RootIsRank
<1>4. Base \in Int
  BY MarkersAssumption, MetaType DEF Base, TypeInv, TypeOK, Restored
<1>5. bak \in Meta => bak.seq < seq[r]
  BY <1>1, <1>3, <1>4, MetaType DEF Files, BackupBehind
<1>6. rst \in Meta => rst.seq <= seq[r]
  <2>1. pc[Root] # "down"
    BY RootIsRank DEF Control, Position, Placed
  <2>2. pc[Root] \in Saving \cup {"monitor", "advance"}
    BY <2>1, RootIsRank DEF TypeInv, TypeOK, PC
  <2>3. rst \in Meta => rst.seq = seq[Root] \/ rst.seq = seq[Root] - 1
    BY <2>2, MarkersAssumption, RootIsRank DEF Files, RootMeta, Saving
  <2> QED BY <1>1, <1>3, <2>3, MetaType
<1> QED BY <1>1, <1>3, <1>5, <1>6

LEMMA InitFiles == Init => Files
BY MarkersAssumption
   DEF Init, Files, DiskStep, Progress, RootMeta, Earlier, BackupBehind, Step

LEMMA LaunchFiles ==
    ASSUME TypeInv, Control, Files, Launching
    PROVE  Files'
<1>1. CASE StartFresh
  <2>1. ~up /\ rst = NoFile /\ bak \notin Meta /\ rst \notin Meta /\ UNCHANGED <<rst, bak, disk>>
    BY <1>1, MarkersAssumption DEF StartFresh, Launch, durable, Files, BackupBehind
  <2>2. \A r \in Rank : pc'[r] = "monitor" /\ seq'[r] = -1
    BY <1>1 DEF StartFresh, Launch
  <2>3. \A n \in Step : ~(n < -1) /\ n # -1
    BY BoundsAssumption DEF Step
  <2>4. DiskStep' /\ Earlier' /\ BackupBehind'
    BY <2>1, <2>2, <2>3, RootIsRank DEF Files, DiskStep, Earlier, BackupBehind, AllDone
  <2>5. Progress' /\ RootMeta'
    BY <2>1, <2>2, <2>3, RootIsRank DEF Progress, RootMeta
  <2> QED BY <2>4, <2>5 DEF Files
<1>2. CASE Resume
  <2>1. rst \in Meta /\ AllDone(rst.seq) /\ UNCHANGED <<rst, bak, disk>>
    BY <1>2 DEF Resume, Usable, AllDone, Launch, durable
  <2>2. \A r \in Rank : pc'[r] = "monitor" /\ seq'[r] = rst.seq
    BY <1>2 DEF Resume, Launch
  <2>3. \A n \in Step : n <= rst.seq => AllDone(n)
    BY <2>1, MetaType, StepType DEF Files, Earlier
  <2>4. Base' = rst.seq
    <3>1. rst.seq \in Step /\ disk[rst.seq] \in [File -> Step]
      BY <2>1, MetaType DEF AllDone, TypeInv, TypeOK
    <3>2. restored' \in Restored /\ restored'.meta = rst
      BY <1>2, <2>1, <3>1 DEF Resume, Restored
    <3> QED BY <3>2, MarkersAssumption DEF Base
  <2>5. DiskStep' /\ Earlier'
    BY <2>1, <2>2, <2>3, RootIsRank, MetaType, StepType DEF Files, DiskStep, Earlier, AllDone
  <2>6. Progress'
    BY <2>1, <2>2, <2>3, FileType, MetaType, StepType DEF Progress, AllDone
  <2>7. RootMeta' /\ BackupBehind'
    BY <2>1, <2>2, <2>4, RootIsRank, MarkersAssumption DEF RootMeta, BackupBehind, Files
  <2> QED BY <2>5, <2>6, <2>7 DEF Files
<1>3. CASE RecoverFromBackup
  <2>1. ~up /\ bak \in Meta /\ rst' = bak /\ UNCHANGED <<bak, disk, up>>
    BY <1>3 DEF RecoverFromBackup, Usable, job
  <2>2. DiskStep' /\ Progress' /\ RootMeta' /\ BackupBehind'
    BY <2>1, MetaType, MarkersAssumption DEF Files, DiskStep, Progress, RootMeta, BackupBehind
  <2>3. Earlier'
    BY <2>1, MetaType, StepType DEF Files, Earlier, AllDone
  <2> QED BY <2>2, <2>3 DEF Files
<1>4. CASE StartOver
  <2>1. ~up /\ rst' = NoFile /\ UNCHANGED <<bak, disk, up>>
    BY <1>4 DEF StartOver, job
  <2>2. bak \notin Meta
    BY <1>4, MetaType DEF StartOver, Usable, Files, Earlier, AllDone
  <2> QED BY <2>1, <2>2, MarkersAssumption
          DEF Files, DiskStep, Progress, RootMeta, Earlier, BackupBehind, AllDone
<1> QED BY <1>1, <1>2, <1>3, <1>4 DEF Launching

(* The decision to save: when the root takes a new sequence number, every   *)
(* rank has finished the one before.                                        *)
LEMMA MonitorFiles ==
    ASSUME TypeInv, Control, Files, up, NEW r \in Rank, Monitor(r)
    PROVE  Files'
<1>1. UNCHANGED <<rst, bak, disk, up, restored>>
  BY DEF Monitor, durable, job
<1>2. ASSUME NEW q \in Rank, q # r
      PROVE  pc'[q] = pc[q] /\ seq'[q] = seq[q] /\ obj'[q] = obj[q]
  BY <1>2 DEF Monitor, Goto, TypeInv, TypeOK
<1>3. seq[r] \in Int /\ seq[Root] \in Int /\ Base \in Int
  BY PlaceBounds, RootIsRank, MarkersAssumption, MetaType DEF Base, TypeInv, TypeOK, Restored
<1>4. DiskStep' /\ Base' = Base
  BY <1>1 DEF Files, DiskStep, Base
<1>5. CASE step[r] > timeStep[r] /\ step[r] \in sched
  <2>1. /\ pc'[r] = IF r = Root THEN "backup" ELSE "object"
        /\ seq'[r] = seq[r] + 1 /\ obj'[r] = 1 /\ pc[r] = "monitor"
    BY <1>5 DEF Monitor, Goto, TypeInv, TypeOK
  <2>2. Progress'
    <3> SUFFICES ASSUME NEW q \in Rank, NEW o \in Object, NEW n \in Step,
                        n < seq'[q] \/ (n = seq'[q] /\ Done(q, o)')
                 PROVE  disk[n][FileOf(o, q)] \in Step
      BY <1>1 DEF Progress, FileOf
    <3>1. CASE q = r
      <4>1. ~Done(r, o)'
        BY <2>1, ObjectsAssumption DEF Done, Object
      <4>2. n < seq[r] \/ (n = seq[r] /\ Done(r, o))
        BY <1>3, <2>1, <3>1, <4>1, StepType DEF Done
      <4> QED BY <3>1, <4>2 DEF Files, Progress
    <3>2. CASE q # r
      BY <1>2, <3>2 DEF Files, Progress, Done
    <3> QED BY <3>1, <3>2
  <2>3. RootMeta'
    <3>1. CASE r = Root
      BY <1>1, <1>3, <2>1, <3>1, MetaType DEF Files, RootMeta
    <3>2. CASE r # Root
      BY <1>1, <1>2, <3>2, RootIsRank DEF Files, RootMeta
    <3> QED BY <3>1, <3>2
  <2>4. r = Root => \A n \in Step : n = seq[Root] => AllDone(n)
    <3> SUFFICES ASSUME r = Root, seq[Root] \in Step, NEW o \in Object, NEW q \in Rank
                 PROVE  disk[seq[Root]][FileOf(o, q)] \in Step
      BY DEF AllDone, File
    <3>1. \/ seq[q] > seq[Root]
          \/ seq[q] = seq[Root] /\ pc[q] \in {"monitor", "advance"}
      BY <1>5, <2>1, SavedBefore
    <3> QED BY <3>1, <1>3, PlaceBounds DEF Files, Progress, Done
  <2>5. Earlier' /\ BackupBehind'
    <3>1. CASE r = Root
      BY <1>1, <1>3, <1>4, <2>1, <2>4, <3>1, StepType, MetaType DEF Files, Earlier, BackupBehind, AllDone
    <3>2. CASE r # Root
      BY <1>1, <1>2, <1>4, <3>2, RootIsRank DEF Files, Earlier, BackupBehind, AllDone
    <3> QED BY <3>1, <3>2
  <2> QED BY <1>4, <2>2, <2>3, <2>5 DEF Files
<1>6. CASE ~(step[r] > timeStep[r] /\ step[r] \in sched)
  <2>1. pc[r] = "monitor" /\ pc'[r] = "advance" /\ UNCHANGED <<seq, obj>>
    BY <1>6 DEF Monitor, Goto, TypeInv, TypeOK
  <2>2. \A q \in Rank, o \in Object : Done(q, o)' => Done(q, o)
    BY <1>2, <2>1 DEF Done
  <2>3. Progress' /\ Earlier' /\ BackupBehind'
    BY <1>1, <1>4, <2>1, <2>2 DEF Files, Progress, Earlier, BackupBehind, AllDone
  <2>4. RootMeta'
    BY <1>1, <1>2, <2>1, RootIsRank DEF Files, RootMeta
  <2> QED BY <1>4, <2>3, <2>4 DEF Files
<1> QED BY <1>5, <1>6

(* The steps of the root on restart.rst and restart.bak.                    *)
LEMMA MetadataFiles ==
    ASSUME TypeInv, Control, Files, up, SaveMetadata \/ BackupFails
    PROVE  Files'
<1>1. UNCHANGED <<disk, up, restored, seq, obj>>
  BY DEF SaveMetadata, SkipBackup, BackupFails, OpenBackup, CloseBackup, TruncateMetadata, WriteMetadata,
         durable, job
<1>2. \E label \in {"copying", "truncate", "metadata", "object"} :
         pc[Root] \in {"backup", "copying", "truncate", "metadata"} /\ pc' = [pc EXCEPT ![Root] = label]
  BY DEF SaveMetadata, SkipBackup, BackupFails, OpenBackup, CloseBackup, TruncateMetadata, WriteMetadata, Goto
<1>3. DiskStep' /\ Base' = Base
  BY <1>1 DEF Files, DiskStep, Base
<1>4. \A q \in Rank : q # Root => pc'[q] = pc[q]
  BY <1>2 DEF TypeInv, TypeOK
<1>5. seq[Root] \in Step /\ seq[Root] > Base /\ Base \in Int /\ timeStep[Root] \in Step /\ seq[Root] \in Int
  <2>1. pc[Root] \in Saving
    BY <1>2 DEF Saving
  <2> QED BY <2>1, PlaceBounds, RootIsRank, MarkersAssumption, MetaType
          DEF Base, TypeInv, TypeOK, Restored, Saving
<1>6. Progress'
  <2>1. obj[Root] = 1 /\ Root \in Rank /\ \A o \in Object : ~(o < 1)
    BY <1>2, RootIsRank, ObjectsAssumption DEF Files, RootMeta, Object
  <2>2. pc'[Root] \notin {"monitor", "advance"}
    BY <1>2, <2>1 DEF TypeInv, TypeOK
  <2>3. \A q \in Rank, o \in Object : Done(q, o)' => Done(q, o)
    BY <1>1, <1>4, <2>1, <2>2 DEF Done
  <2> QED BY <1>1, <2>3 DEF Files, Progress, FileOf
<1>7. /\ pc'[Root] \in {"copying", "truncate", "metadata", "object"}
      /\ obj'[Root] = obj[Root] /\ seq'[Root] = seq[Root]
  BY <1>1, <1>2, RootIsRank DEF TypeInv, TypeOK
<1> USE DEF Files, RootMeta, Earlier, BackupBehind, AllDone, Goto
<1>8. CASE SkipBackup \/ BackupFails
  BY <1>1, <1>3, <1>5, <1>6, <1>8, RootIsRank DEF SkipBackup, BackupFails, durable, TypeInv, TypeOK
<1>9. CASE OpenBackup
  BY <1>1, <1>3, <1>5, <1>6, <1>9, RootIsRank, MarkersAssumption DEF OpenBackup, TypeInv, TypeOK
<1>10. CASE CloseBackup
  <2>1. rst \in Meta /\ rst.seq = seq[Root] - 1 /\ bak' = rst /\ UNCHANGED <<rst, disk, up, seq>>
    BY <1>1, <1>10 DEF CloseBackup
  <2>2. pc'[Root] = "truncate" /\ obj'[Root] = 1
    BY <1>1, <1>10, RootIsRank DEF CloseBackup, TypeInv, TypeOK
  <2>3. RootMeta'
    BY <2>1, <2>2
  <2>4. \A n \in Step : n <= rst.seq => AllDone(n)
    BY <1>5, <2>1, MetaType, StepType
  <2>5. Earlier'
    BY <2>1, <2>4
  <2>6. BackupBehind'
    BY <1>5, <2>1, MarkersAssumption, MetaType
  <2> QED BY <1>3, <1>6, <2>3, <2>5, <2>6
<1>11. CASE TruncateMetadata
  BY <1>1, <1>3, <1>5, <1>6, <1>11, RootIsRank, MarkersAssumption DEF TruncateMetadata, TypeInv, TypeOK
<1>12. CASE WriteMetadata
  <2>1. rst' \in Meta /\ rst'.seq = seq[Root] /\ bak' = bak
    BY <1>5, <1>12 DEF WriteMetadata, Meta
  <2>2. pc'[Root] = "object" /\ obj'[Root] = 1
    BY <1>1, <1>2, <1>12, RootIsRank DEF WriteMetadata, TypeInv, TypeOK
  <2>3. RootMeta'
    BY <1>1, <2>1, <2>2
  <2>4. Earlier' /\ BackupBehind'
    BY <1>1, <1>3, <1>5, <2>1, MarkersAssumption, MetaType
  <2> QED BY <1>3, <1>6, <2>3, <2>4
<1> QED BY <1>8, <1>9, <1>10, <1>11, <1>12 DEF SaveMetadata
(* A write to a state file by rank r, in the middle of its save: the files  *)
(* of earlier sequence numbers, and those r finished before, are untouched. *)
LEMMA PutFiles ==
    ASSUME TypeInv, Control, Files, up, NEW r \in Rank, pc[r] \in {"object", "writing"},
           NEW c \in {Torn, timeStep[r]}, Put(FileOf(obj[r], r), r, c)
    PROVE  /\ DiskStep'
           /\ \A n \in Step, f \in File : n < seq[r] => disk'[n][f] = disk[n][f]
           /\ \A n \in Step, f \in File : n # seq[r] \/ f # FileOf(obj[r], r) => disk'[n][f] = disk[n][f]
           /\ disk'[seq[r]][FileOf(obj[r], r)] = c
<1>1. pc[r] \in Saving /\ obj[r] \in Object
  BY DEF Saving, TypeInv, TypeOK
<1>2. seq[r] \in Step /\ timeStep[r] = seq[r] * Interval /\ timeStep[r] \in Step \cup {-1}
  BY <1>1, PlaceBounds DEF TypeInv, TypeOK
<1>3. timeStep[r] \in Step /\ FileOf(obj[r], r) \in File
  BY <1>1, <1>2, FileType, IntervalAssumption DEF TypeInv, TypeOK, Saving
<1>4. /\ disk'[seq[r]][FileOf(obj[r], r)] = c
      /\ \A n \in Step, f \in File : n # seq[r] \/ f # FileOf(obj[r], r) => disk'[n][f] = disk[n][f]
  BY <1>2, <1>3, PutType
<1>5. \A n \in Step : n < seq[r] => n # seq[r]
  BY <1>2, StepType
<1>6. c \in Step => c = seq[r] * Interval
  BY <1>2, StepType, MarkersAssumption
<1>7. DiskStep'
  BY <1>4, <1>6 DEF Files, DiskStep
<1> QED BY <1>4, <1>5, <1>7

(* After such a write the checkpoints that the metadata files name, and     *)
(* those before the root's, are as they were.                               *)
LEMMA PutEarlier ==
    ASSUME TypeInv, Control, Files, up, NEW r \in Rank, pc[r] \in Saving,
           UNCHANGED <<rst, bak, up, restored, seq>>,
           \A n \in Step, f \in File : n < seq[r] => disk'[n][f] = disk[n][f]
    PROVE  Earlier' /\ BackupBehind'
<1>1. /\ seq[r] \in Step /\ seq[Root] <= seq[r] /\ seq[Root] \in Int
      /\ bak \in Meta => bak.seq < seq[r]
      /\ rst \in Meta => rst.seq <= seq[r]
  BY WriterAhead, PlaceBounds, RootIsRank
<1>2. \A n \in Step : n < seq[r] /\ AllDone(n) => AllDone(n)'
  BY DEF AllDone
<1>3. Earlier'
  BY <1>1, <1>2, MetaType, StepType DEF Files, Earlier
<1>4. BackupBehind'
  BY DEF Files, BackupBehind, Base
<1> QED BY <1>3, <1>4

(* The root's place in its loop over the objects does not touch the         *)
(* metadata.                                                                *)
LEMMA ObjectRootMeta ==
    ASSUME Files, up, UNCHANGED <<rst, up, seq>>,
           \/ pc'[Root] = pc[Root] /\ obj'[Root] = obj[Root]
           \/ pc[Root] \in {"object", "writing"} /\ pc'[Root] \in {"object", "writing", "advance"}
    PROVE  RootMeta'
BY DEF Files, RootMeta

LEMMA FilesDistinct ==
    ASSUME NEW o \in Object, NEW p \in Object, NEW q \in Rank, NEW r \in Rank,
           FileOf(o, q) = FileOf(p, r)
    PROVE  o = p /\ (o \in Serial => q = r)
BY DEF FileOf

LEMMA SerialFiles ==
    ASSUME TypeInv, Control, Files, up, NEW r \in Rank, OpenSerial(r) \/ CloseSerial(r)
    PROVE  Files'
<1>1. /\ pc[r] \in {"object", "writing"} /\ pc[r] \in Saving /\ obj[r] \in Serial
      /\ obj[r] \in Object /\ obj[r] \in Int /\ NObjects \in Int
  BY ObjectsAssumption DEF OpenSerial, CloseSerial, AtObject, Saving, TypeInv, TypeOK, Object
<1>2. UNCHANGED <<rst, bak, up, restored, step, timeStep, seq>>
  BY DEF OpenSerial, CloseSerial, job
<1>3. \A q \in Rank : q # r => pc'[q] = pc[q] /\ obj'[q] = obj[q]
  BY DEF OpenSerial, CloseSerial, Goto, TypeInv, TypeOK
<1>4. PICK c \in {Torn, timeStep[r]} : Put(FileOf(obj[r], r), r, c) /\ (CloseSerial(r) => c = timeStep[r])
  BY DEF OpenSerial, CloseSerial, AtObject
<1>5. /\ DiskStep'
      /\ \A n \in Step, f \in File : n < seq[r] => disk'[n][f] = disk[n][f]
      /\ \A n \in Step, f \in File : n # seq[r] \/ f # FileOf(obj[r], r) => disk'[n][f] = disk[n][f]
      /\ disk'[seq[r]][FileOf(obj[r], r)] = c
  BY <1>1, <1>4, PutFiles
<1>6. Earlier' /\ BackupBehind'
  BY <1>1, <1>2, <1>5, PutEarlier
<1>7. pc'[r] \in {"object", "writing", "advance"}
  BY DEF OpenSerial, CloseSerial, Goto, After, TypeInv, TypeOK
<1>8. RootMeta'
  <2>1. CASE r = Root
    BY <1>1, <1>2, <1>7, <2>1, ObjectRootMeta
  <2>2. CASE r # Root
    BY <1>2, <1>3, <2>2, RootIsRank, ObjectRootMeta
  <2> QED BY <2>1, <2>2
<1>9. \A o \in Object : Done(r, o)' => Done(r, o) \/ (o = obj[r] /\ CloseSerial(r))
  <2>1. CASE OpenSerial(r)
    BY <1>1, <2>1 DEF OpenSerial, AtObject, Goto, Done, TypeInv, TypeOK
  <2>2. CASE CloseSerial(r)
    <3>1. obj[r] < NObjects => pc'[r] = "object" /\ obj'[r] = obj[r] + 1
      BY <2>2 DEF CloseSerial, Goto, After, TypeInv, TypeOK
    <3>2. \A o \in Object : o \in Int /\ o <= NObjects
      BY ObjectsAssumption DEF Object
    <3>3. \A o \in Object : o < obj[r] => Done(r, o)
      BY <1>1 DEF Done
    <3> QED BY <1>1, <2>2, <3>1, <3>2, <3>3 DEF Done
  <2> QED BY <2>1, <2>2
<1>10. Progress'
  <2> SUFFICES ASSUME NEW q \in Rank, NEW o \in Object, NEW n \in Step,
                      n < seq[q] \/ (n = seq[q] /\ Done(q, o)')
               PROVE  disk'[n][FileOf(o, q)] \in Step
    BY <1>2 DEF Progress, FileOf
  <2>1. ~Done(r, obj[r])
    BY <1>1 DEF Done
  <2>2. seq[r] \in Int /\ seq[q] \in Int /\ (pc[r] \in Saving => timeStep[r] \in Step)
    BY PlaceBounds, MarkersAssumption, BoundsAssumption DEF TypeInv, TypeOK, Saving, Step
  <2>3. CASE q = r /\ o = obj[r] /\ n = seq[r]
    <3>1. CloseSerial(r)
      BY <1>9, <2>1, <2>2, <2>3
    <3> QED BY <1>1, <1>4, <1>5, <2>2, <2>3, <3>1
  <2>4. CASE ~(q = r /\ o = obj[r] /\ n = seq[r])
    <3>1. n # seq[r] \/ FileOf(o, q) # FileOf(obj[r], r)
      BY <1>1, <2>4, FilesDistinct
    <3>2. disk'[n][FileOf(o, q)] = disk[n][FileOf(o, q)]
      BY <1>5, <3>1, FileType
    <3>3. n < seq[q] \/ (n = seq[q] /\ Done(q, o))
      <4>1. CASE q = r
        BY <1>9, <2>4, <4>1
      <4>2. CASE q # r
        BY <1>3, <4>2 DEF Done
      <4> QED BY <4>1, <4>2
    <3> QED BY <3>2, <3>3 DEF Files, Progress
  <2> QED BY <2>3, <2>4
<1> QED BY <1>5, <1>6, <1>8, <1>10 DEF Files

LEMMA CollectiveFiles ==
    ASSUME TypeInv, Control, Files, up, NEW o \in Object, OpenCollective(o) \/ CloseCollective(o)
    PROVE  Files'
<1>1. /\ o \notin Serial /\ o \in Int /\ NObjects \in Int /\ Root \in Rank
      /\ \A r \in Rank : pc[r] \in {"object", "writing"} /\ pc[r] \in Saving /\ obj[r] = o
  BY ObjectsAssumption, RootIsRank
  DEF OpenCollective, CloseCollective, AtObject, Collective, Saving, Object
<1>2. UNCHANGED <<rst, bak, up, restored, step, timeStep, seq>>
  BY DEF OpenCollective, CloseCollective, job
<1>3. \A q \in Rank : FileOf(o, q) = FileOf(o, Root)
  BY <1>1 DEF FileOf
<1>4. PICK c \in {Torn, timeStep[Root]} :
           Put(FileOf(obj[Root], Root), Root, c) /\ (CloseCollective(o) => c = timeStep[Root])
  BY <1>1 DEF OpenCollective, CloseCollective
<1>5. /\ DiskStep'
      /\ \A n \in Step, f \in File : n < seq[Root] => disk'[n][f] = disk[n][f]
      /\ \A n \in Step, f \in File : n # seq[Root] \/ f # FileOf(o, Root) => disk'[n][f] = disk[n][f]
      /\ disk'[seq[Root]][FileOf(o, Root)] = c
  BY <1>1, <1>4, PutFiles
<1>6. Earlier' /\ BackupBehind'
  BY <1>1, <1>2, <1>5, PutEarlier
<1>7. \A q \in Rank : pc'[q] \in {"object", "writing", "advance"}
  BY DEF OpenCollective, CloseCollective, After
<1>8. RootMeta'
  BY <1>1, <1>2, <1>7, ObjectRootMeta
<1>9. \A q \in Rank : seq[q] = seq[Root] /\ seq[q] \in Int
  BY <1>1, SaversAgree, PlaceBounds
<1>10. \A q \in Rank, p \in Object : Done(q, p)' => Done(q, p) \/ (p = o /\ CloseCollective(o))
  <2>1. CASE OpenCollective(o)
    BY <1>1, <2>1 DEF OpenCollective, Done
  <2>2. CASE CloseCollective(o)
    <3>1. \A q \in Rank : o < NObjects => pc'[q] = "object" /\ obj'[q] = o + 1
      BY <1>1, <2>2 DEF CloseCollective, After
    <3>2. \A p \in Object : p \in Int /\ p <= NObjects
      BY ObjectsAssumption DEF Object
    <3>3. \A q \in Rank, p \in Object : p < o => Done(q, p)
      BY <1>1 DEF Done
    <3>4. \A q \in Rank, p \in Object : o < p => ~Done(q, p)'
      <4> SUFFICES ASSUME NEW q \in Rank, NEW p \in Object, o < p PROVE ~Done(q, p)'
        OBVIOUS
      <4>1. o < NObjects /\ ~(p < o + 1)
        BY <1>1, <3>2
      <4> QED BY <3>1, <4>1 DEF Done
    <3>5. \A p \in Object : p < o \/ p = o \/ o < p
      BY <1>1, <3>2
    <3> QED BY <2>2, <3>3, <3>4, <3>5
  <2> QED BY <2>1, <2>2
<1>11. Progress'
  <2> SUFFICES ASSUME NEW q \in Rank, NEW p \in Object, NEW n \in Step,
                      n < seq[q] \/ (n = seq[q] /\ Done(q, p)')
               PROVE  disk'[n][FileOf(p, q)] \in Step
    BY <1>2 DEF Progress, FileOf
  <2>1. ~Done(q, o)
    BY <1>1 DEF Done
  <2>2. timeStep[Root] \in Step
    BY <1>1, MarkersAssumption, BoundsAssumption DEF TypeInv, TypeOK, Saving, Step
  <2>3. CASE p = o /\ n = seq[Root]
    <3>1. CloseCollective(o)
      BY <1>9, <1>10, <2>1, <2>3
    <3> QED BY <1>3, <1>4, <1>5, <2>2, <2>3, <3>1
  <2>4. CASE ~(p = o /\ n = seq[Root])
    <3>1. n # seq[Root] \/ FileOf(p, q) # FileOf(o, Root)
      BY <1>1, <2>4, FilesDistinct
    <3>2. disk'[n][FileOf(p, q)] = disk[n][FileOf(p, q)]
      BY <1>5, <3>1, FileType
    <3>3. n < seq[q] \/ (n = seq[q] /\ Done(q, p))
      BY <1>9, <1>10, <2>4
    <3> QED BY <3>2, <3>3 DEF Files, Progress
  <2> QED BY <2>3, <2>4
<1> QED BY <1>5, <1>6, <1>8, <1>11 DEF Files

LEMMA NextFiles == TypeInv /\ Control /\ Files /\ [Next]_vars => Files'
<1> SUFFICES ASSUME TypeInv, Control, Files, [Next]_vars PROVE Files'
  OBVIOUS
<1>1. \A r \in Rank : pc[r] # "down" => up
  BY DEF Control, Position, Placed
<1>2. CASE Launching
  BY <1>2, LaunchFiles
<1>3. CASE SaveMetadata \/ BackupFails
  <2>1. up
    BY <1>1, <1>3, RootIsRank
       DEF SaveMetadata, SkipBackup, BackupFails, OpenBackup, CloseBackup, TruncateMetadata, WriteMetadata
  <2> QED BY <1>3, <2>1, MetadataFiles
<1>4. CASE \E r \in Rank : OpenSerial(r) \/ CloseSerial(r)
  BY <1>1, <1>4, SerialFiles DEF OpenSerial, CloseSerial, AtObject
<1>5. CASE \E o \in Object : OpenCollective(o) \/ CloseCollective(o)
  <2>1. up
    BY <1>1, <1>5, RootIsRank DEF OpenCollective, CloseCollective, AtObject
  <2> QED BY <1>5, <2>1, CollectiveFiles
<1>6. CASE \E r \in Rank : Monitor(r)
  BY <1>1, <1>6, MonitorFiles DEF Monitor
<1>7. CASE \E r \in Rank : Advance(r)
  <2> PICK r \in Rank : Advance(r)
    BY <1>7
  <2>1. /\ UNCHANGED <<rst, bak, disk, up, restored, seq, obj>>
        /\ pc[r] = "advance" /\ pc'[r] = "monitor"
        /\ \A q \in Rank : q # r => pc'[q] = pc[q]
    BY DEF Advance, durable, job, Goto, TypeInv, TypeOK
  <2>2. \A q \in Rank, o \in Object : Done(q, o)' => Done(q, o)
    BY <2>1 DEF Done
  <2>3. Progress'
    BY <2>1, <2>2 DEF Files, Progress, FileOf
  <2>4. RootMeta'
    BY <2>1, RootIsRank DEF Files, RootMeta
  <2> QED BY <2>1, <2>3, <2>4 DEF Files, DiskStep, Earlier, BackupBehind, AllDone, Base
<1>8. CASE Crash
  <2>1. ~up' /\ UNCHANGED <<rst, bak, disk>>
    BY <1>8 DEF Crash, durable
  <2> QED BY <2>1 DEF Files, DiskStep, Progress, RootMeta, Earlier, BackupBehind, AllDone
<1>9. CASE UNCHANGED vars
  BY <1>9 DEF vars, durable, job, local, Files, DiskStep, Progress, RootMeta, Earlier, BackupBehind,
              AllDone, Done, Base, FileOf
<1> QED BY <1>2, <1>3, <1>4, <1>5, <1>6, <1>7, <1>8, <1>9 DEF Next, Program, CollectiveStep, RankStep, Finished

LEMMA FilesInvariant == Spec => [](TypeInv /\ Control /\ Files)
<1>1. Init => Files
  BY InitFiles
<1>2. TypeInv /\ Control /\ Files /\ [Next]_vars => Files'
  BY NextFiles
<1> QED BY <1>1, <1>2, ControlInvariant, PTL DEF Spec

(* Whenever restart.bak can be read, every rank has finished the checkpoint *)
(* that it names.                                                           *)
THEOREM BackupIsComplete == Spec => []BackupComplete
<1>1. TypeInv /\ Control /\ Files => BackupComplete
  <2> SUFFICES ASSUME TypeInv, Control, Files, bak \in Meta
               PROVE  \A f \in File : disk[bak.seq][f] = bak.step
    BY DEF BackupComplete, Complete
  <2>1. AllDone(bak.seq) /\ bak.step = bak.seq * Interval /\ bak.seq \in Step
    BY MetaType DEF Files, Earlier, Control, MetaStep
  <2> QED BY <2>1 DEF Files, DiskStep, AllDone
<1> QED BY <1>1, FilesInvariant, PTL

(* Sequence numbers and steps grow together: what one job saved is neither  *)
(* saved again nor overtaken by a later job.                                *)
THEOREM SavesInOrder == Spec => []SequencesIncrease
<1>1. TypeInv /\ Control /\ Files => SequencesIncrease
  <2> SUFFICES ASSUME Files, rst \in Meta, NEW f \in File, NEW m \in 0..rst.seq, NEW n \in 0..rst.seq,
                      m < n, disk[m][f] \in Step, disk[n][f] \in Step
               PROVE  disk[m][f] < disk[n][f]
    BY DEF SequencesIncrease
  <2>1. m \in Step /\ n \in Step /\ m \in Int /\ n \in Int
    BY MetaType, BoundsAssumption DEF Step
  <2>2. disk[m][f] = m * Interval /\ disk[n][f] = n * Interval
    BY <2>1 DEF Files, DiskStep
  <2>3. m * Interval \in Int /\ n * Interval \in Int /\ m * Interval + Interval <= n * Interval
    BY <2>1, TimesInt, TimesMonotone
  <2> QED BY <2>2, <2>3, IntervalAssumption
<1> QED BY <1>1, FilesInvariant, PTL

(* A job never starts from files of different saves.                        *)
THEOREM RestoresOneSave == Spec => []RestoreConsistent
<1>1. Init => RestoreConsistent
  BY DEF Init, RestoreConsistent
<1>2. TypeInv /\ Control /\ Files /\ RestoreConsistent /\ [Next]_vars => RestoreConsistent'
  <2> SUFFICES ASSUME TypeInv, Control, Files, RestoreConsistent, [Next]_vars PROVE RestoreConsistent'
    OBVIOUS
  <2>1. CASE Resume
    <3>1. rst \in Meta /\ rst.seq \in Step /\ rst.step = rst.seq * Interval
      BY <2>1, MetaType DEF Resume, Usable, Control, MetaStep
    <3>2. \A f \in File : disk[rst.seq][f] = rst.step
      BY <2>1, <3>1 DEF Resume, Usable, Files, DiskStep
    <3> QED BY <2>1, <3>2 DEF Resume, RestoreConsistent
  <2>2. CASE restored' \in {restored, NoFile}
    BY <2>2 DEF RestoreConsistent
  <2>3. Resume \/ restored' \in {restored, NoFile}
    BY DEF Next, Program, Launching, StartFresh, RecoverFromBackup, StartOver, SaveMetadata, SkipBackup,
           OpenBackup, CloseBackup, BackupFails, TruncateMetadata, WriteMetadata, CollectiveStep, RankStep,
           Monitor, OpenSerial, CloseSerial, OpenCollective, CloseCollective, Advance, Crash, Finished,
           vars, job, durable, local
  <2> QED BY <2>1, <2>2, <2>3
<1> QED BY <1>1, <1>2, FilesInvariant, PTL DEF Spec

-----------------------------------------------------------------------------
(* Recovery.                                                                *)

(* A readable backup names a complete checkpoint, so it can be resumed from. *)
LEMMA BackupUsable == Files /\ bak \in Meta => Usable(bak) /\ AllDone(bak.seq)
BY MetaType DEF Files, Earlier, Usable, AllDone

LEMMA UsableDone == \A m : Usable(m) <=> m \in Meta /\ AllDone(m.seq)
BY DEF Usable, AllDone

LEMMA InitRecovery == Init => Recovery
<1> SUFFICES ASSUME Init PROVE Recovery
  OBVIOUS
<1>1. FileOf(1, Root) \in File
  BY FileType, RootIsRank, ObjectsAssumption DEF Object
<1>2. \A n \in Step : ~AllDone(n)
  BY <1>1, MarkersAssumption, StepType DEF Init, AllDone
<1> QED BY <1>2 DEF Init, Recovery, RootFirst, BackupInPlace, NothingLater, SomethingUsable

LEMMA LaunchRecovery ==
    ASSUME TypeInv, Control, Files, Recovery, Launching
    PROVE  Recovery'
<1>1. CASE StartFresh
  <2>1. rst = NoFile /\ bak \notin Meta /\ rst \notin Meta /\ UNCHANGED <<rst, bak, disk>>
    BY <1>1, MarkersAssumption DEF StartFresh, Launch, durable, Files, BackupBehind
  <2>2. \A r \in Rank : pc'[r] = "monitor" /\ seq'[r] = -1
    BY <1>1 DEF StartFresh, Launch
  <2>3. Base' = -1
    BY <1>1 DEF StartFresh, Base
  <2>4. \A n \in Step : ~AllDone(n)
    BY <2>1 DEF Recovery, SomethingUsable, Usable
  <2> QED BY <2>1, <2>2, <2>3, <2>4, RootIsRank
          DEF Recovery, RootFirst, BackupInPlace, NothingLater, SomethingUsable, Usable, AllDone
<1>2. CASE Resume
  <2>1. rst \in Meta /\ UNCHANGED <<rst, bak, disk>>
    BY <1>2 DEF Resume, Usable, Launch, durable
  <2>2. \A r \in Rank : pc'[r] = "monitor" /\ seq'[r] = rst.seq
    BY <1>2 DEF Resume, Launch
  <2>3. Base' = rst.seq
    <3>1. rst.seq \in Step /\ disk[rst.seq] \in [File -> Step]
      BY <1>2, <2>1, MetaType DEF Resume, Usable, TypeInv, TypeOK
    <3>2. restored' \in Restored /\ restored'.meta = rst
      BY <1>2, <2>1, <3>1 DEF Resume, Restored
    <3> QED BY <3>2, MarkersAssumption DEF Base
  <2>4. rst.seq \in Int /\ rst.seq # -1
    BY <2>1, MetaType
  <2> QED BY <2>1, <2>2, <2>3, <2>4, RootIsRank
          DEF Recovery, RootFirst, BackupInPlace, NothingLater, SomethingUsable, Usable, AllDone
<1>3. CASE RecoverFromBackup
  <2>1. ~up /\ rst' = bak /\ Usable(bak) /\ UNCHANGED <<bak, disk, up>>
    BY <1>3 DEF RecoverFromBackup, job
  <2> QED BY <2>1 DEF Recovery, RootFirst, BackupInPlace, NothingLater, SomethingUsable, Usable
<1>4. CASE StartOver
  <2>1. ~up /\ ~Usable(rst) /\ bak \notin Meta /\ UNCHANGED <<bak, disk, up>>
    BY <1>4, BackupUsable DEF StartOver, job
  <2>2. \A n \in Step : ~AllDone(n)
    BY <2>1 DEF Recovery, SomethingUsable
  <2> QED BY <2>1, <2>2 DEF Recovery, RootFirst, BackupInPlace, NothingLater, SomethingUsable, AllDone
<1> QED BY <1>1, <1>2, <1>3, <1>4 DEF Launching

LEMMA MonitorRecovery ==
    ASSUME TypeInv, Control, Files, Recovery, up, NEW r \in Rank, Monitor(r)
    PROVE  Recovery'
<1>1. UNCHANGED <<rst, bak, disk, up, restored>>
  BY DEF Monitor, durable, job
<1>2. \A q \in Rank : q # r => pc'[q] = pc[q] /\ seq'[q] = seq[q] /\ obj'[q] = obj[q]
  BY DEF Monitor, Goto, TypeInv, TypeOK
<1>3. /\ pc[r] = "monitor"
      /\ \/ pc'[r] = (IF r = Root THEN "backup" ELSE "object") /\ obj'[r] = 1 /\ seq'[r] = seq[r] + 1
         \/ pc'[r] = "advance" /\ obj'[r] = obj[r] /\ seq'[r] = seq[r]
  BY DEF Monitor, Goto, TypeInv, TypeOK
<1>4. \A q \in Rank : seq[q] \in Int
  BY PlaceBounds
<1>5. RootFirst'
  BY <1>1, <1>2, <1>3, RootIsRank DEF Recovery, RootFirst
<1>6. BackupInPlace' /\ NothingLater'
  <2>1. CASE r = Root
    BY <1>1, <1>3, <1>4, <2>1 DEF Recovery, BackupInPlace, NothingLater, Base, AllDone
  <2>2. CASE r # Root
    BY <1>1, <1>2, <2>2, RootIsRank DEF Recovery, BackupInPlace, NothingLater, Base, AllDone
  <2> QED BY <2>1, <2>2
<1> QED BY <1>1, <1>5, <1>6 DEF Recovery, SomethingUsable, Usable, AllDone

(* While the root replaces restart.rst, the backup it has just made can be  *)
(* used; before, restart.rst itself can.                                    *)
LEMMA MetadataRecovery ==
    ASSUME TypeInv, Control, Files, Recovery, up, SaveMetadata
    PROVE  Recovery'
<1>1. UNCHANGED <<disk, up, restored, seq, obj>>
  BY DEF SaveMetadata, SkipBackup, OpenBackup, CloseBackup, TruncateMetadata, WriteMetadata, durable, job
<1>2. \E label \in {"copying", "truncate", "metadata", "object"} :
         pc[Root] \in {"backup", "copying", "truncate", "metadata"} /\ pc' = [pc EXCEPT ![Root] = label]
  BY DEF SaveMetadata, SkipBackup, OpenBackup, CloseBackup, TruncateMetadata, WriteMetadata, Goto
<1>3. /\ \A q \in Rank : q # Root => pc'[q] = pc[q]
      /\ pc'[Root] \in {"copying", "truncate", "metadata", "object"}
      /\ obj[Root] = 1
  BY <1>2, RootIsRank DEF TypeInv, TypeOK, Files, RootMeta
<1>4. seq[Root] \in Int /\ seq[Root] > Base /\ Base \in Int /\ seq[Root] \in Step /\ seq[Root] >= 0
  <2>1. pc[Root] \in Saving
    BY <1>2 DEF Saving
  <2> QED BY <2>1, PlaceBounds, RootIsRank, StepType, MarkersAssumption, MetaType
          DEF Base, TypeInv, TypeOK, Restored
<1>5. RootFirst'
  BY <1>1, <1>2, <1>3, RootIsRank DEF Recovery, RootFirst
<1>6. NothingLater' /\ Base' = Base /\ \A n : AllDone(n)' <=> AllDone(n)
  BY <1>1 DEF Recovery, NothingLater, Base, AllDone
<1>7. CASE SkipBackup
  <2>1. seq[Root] = 0 /\ UNCHANGED <<rst, bak>>
    BY <1>7, MarkersAssumption DEF SkipBackup, durable, Files, RootMeta
  <2> QED BY <1>1, <1>5, <1>6, <2>1 DEF Recovery, BackupInPlace, SomethingUsable, Usable
<1>8. CASE OpenBackup
  <2>1. rst \in Meta /\ rst.seq = seq[Root] - 1 /\ rst' = rst /\ pc'[Root] = "copying"
    BY <1>8, RootIsRank DEF OpenBackup, Goto, Files, RootMeta, TypeInv, TypeOK
  <2>2. rst.seq \in Step /\ rst.seq < seq[Root]
    BY <1>4, <2>1, MetaType
  <2>3. Usable(rst) /\ Usable(rst)'
    BY <1>6, <2>1, <2>2, UsableDone DEF Files, Earlier, Usable, AllDone
  <2> QED BY <1>5, <1>6, <2>1, <2>3 DEF Recovery, BackupInPlace, SomethingUsable
<1>9. CASE CloseBackup
  <2>1. bak' \in Meta /\ bak'.seq = seq[Root] - 1
    BY <1>9 DEF CloseBackup, Files, RootMeta
  <2>2. BackupInPlace'
    BY <1>1, <2>1 DEF BackupInPlace
  <2> QED BY <1>5, <1>6, <2>1, <2>2 DEF Recovery, SomethingUsable
<1>10. CASE TruncateMetadata \/ WriteMetadata
  <2>1. bak' = bak /\ pc[Root] \in {"truncate", "metadata"}
    BY <1>10 DEF TruncateMetadata, WriteMetadata
  <2>2. BackupInPlace'
    BY <1>1, <1>6, <2>1 DEF Recovery, BackupInPlace
  <2>3. bak \in Meta \/ \A n \in Step : ~AllDone(n)
    <3>1. seq[Root] >= 1 => bak \in Meta
      BY <1>4, <2>1 DEF Recovery, BackupInPlace
    <3>2. seq[Root] = 0 => rst \notin Meta
      BY <2>1, MarkersAssumption, MetaType DEF Files, RootMeta
    <3>3. rst \notin Meta => ~Usable(rst)
      BY DEF Usable
    <3> QED BY <1>4, <3>1, <3>2, <3>3 DEF Recovery, SomethingUsable
  <2> QED BY <1>5, <1>6, <2>1, <2>2, <2>3 DEF Recovery, SomethingUsable
<1> QED BY <1>7, <1>8, <1>9, <1>10 DEF SaveMetadata

(* A write to a state file: the root has already written restart.rst for    *)
(* this sequence number, so either the backup names the save before it, or  *)
(* this is the first save and nothing else is complete.                     *)
LEMMA PutRecovery ==
    ASSUME TypeInv, Control, Files, Recovery, up, NEW r \in Rank, pc[r] \in Saving,
           UNCHANGED <<rst, bak, up, restored, seq>>,
           seq[Root] = seq[r], pc[Root] \in {"object", "writing", "advance"},
           pc'[Root] \in {"object", "writing", "advance"},
           \A n \in Step, f \in File : n # seq[r] => disk'[n][f] = disk[n][f]
    PROVE  BackupInPlace' /\ NothingLater' /\ SomethingUsable'
<1>1. seq[r] \in Step /\ seq[r] \in Nat /\ seq[r] > Base /\ Base \in Int
  BY PlaceBounds, StepType, MarkersAssumption, MetaType DEF Base, TypeInv, TypeOK, Restored
<1>2. rst \in Meta /\ rst.seq = seq[r]
  BY <1>1 DEF Files, RootMeta
<1>3. Base' = Base
  BY DEF Base
<1>4. BackupInPlace'
  BY <1>3 DEF Recovery, BackupInPlace
<1>5. \A n \in Step : n # seq[r] => (AllDone(n)' <=> AllDone(n))
  BY DEF AllDone
<1>6. NothingLater'
  <2>1. seq[r] <= 0 => seq[r] = 0
    BY <1>1
  <2> QED BY <1>3, <1>5, <2>1 DEF Recovery, NothingLater
<1>7. CASE seq[r] >= 1
  <2>1. bak \in Meta
    BY <1>1, <1>7 DEF Recovery, BackupInPlace
  <2> QED BY <1>4, <1>6, <2>1 DEF SomethingUsable
<1>8. CASE seq[r] = 0
  <2>1. Base = -1
    BY <1>1, <1>8, MarkersAssumption, MetaType DEF Base, TypeInv, TypeOK, Restored
  <2>2. \A n \in Step \ {0} : ~AllDone(n)'
    BY <1>5, <1>8, <2>1 DEF Recovery, NothingLater
  <2>3. AllDone(0)' => Usable(rst)'
    BY <1>2, <1>8 DEF Usable, AllDone
  <2> QED BY <1>4, <1>6, <2>2, <2>3 DEF SomethingUsable
<1> QED BY <1>1, <1>7, <1>8

LEMMA SerialRecovery ==
    ASSUME TypeInv, Control, Files, Recovery, up, NEW r \in Rank, OpenSerial(r) \/ CloseSerial(r)
    PROVE  Recovery'
<1>1. /\ pc[r] \in {"object", "writing"} /\ pc[r] \in Saving /\ obj[r] \in Serial
      /\ obj[r] > 1 /\ seq[r] \in Step
  <2>1. pc[r] \in {"object", "writing"} /\ obj[r] \in Serial
    BY DEF OpenSerial, CloseSerial, AtObject
  <2>2. pc[r] \in Saving
    BY <2>1 DEF Saving
  <2>3. obj[r] > 1
    <3>1. \A o \in Serial : o \in 2..NObjects
      BY ObjectsAssumption
    <3>2. \A o \in 2..NObjects : o > 1
      BY ObjectsAssumption
    <3> QED BY <2>1, <3>1, <3>2
  <2> QED BY <2>1, <2>2, <2>3, PlaceBounds
<1>2. UNCHANGED <<rst, bak, up, restored, seq>>
  BY DEF OpenSerial, CloseSerial, job
<1>3. /\ \A q \in Rank : q # r => pc'[q] = pc[q] /\ obj'[q] = obj[q]
      /\ pc'[r] \in {"object", "writing", "advance"}
  BY DEF OpenSerial, CloseSerial, Goto, After, TypeInv, TypeOK
<1>4. seq[Root] = seq[r] /\ pc[Root] \in {"object", "writing", "advance"}
  BY <1>1 DEF Recovery, RootFirst
<1>5. pc'[Root] \in {"object", "writing", "advance"}
  BY <1>3, <1>4, RootIsRank
<1>6. RootFirst'
  BY <1>2, <1>3, <1>4, <1>5 DEF Recovery, RootFirst
<1>7. \A n \in Step, f \in File : n # seq[r] => disk'[n][f] = disk[n][f]
  <2>1. PICK c \in {Torn, timeStep[r]} : Put(FileOf(obj[r], r), r, c)
    BY DEF OpenSerial, CloseSerial, AtObject
  <2> QED BY <1>1, <2>1, PutFiles
<1>8. BackupInPlace' /\ NothingLater' /\ SomethingUsable'
  BY <1>1, <1>2, <1>4, <1>5, <1>7, PutRecovery
<1> QED BY <1>6, <1>8 DEF Recovery

LEMMA CollectiveRecovery ==
    ASSUME TypeInv, Control, Files, Recovery, up, NEW o \in Object,
           OpenCollective(o) \/ CloseCollective(o)
    PROVE  Recovery'
<1>1. /\ Root \in Rank
      /\ \A r \in Rank : pc[r] \in {"object", "writing"} /\ pc[r] \in Saving /\ obj[r] = o
  BY RootIsRank DEF OpenCollective, CloseCollective, AtObject, Saving
<1>2. UNCHANGED <<rst, bak, up, restored, seq>>
  BY DEF OpenCollective, CloseCollective, job
<1>3. \A q \in Rank : pc'[q] \in {"object", "writing", "advance"}
  BY DEF OpenCollective, CloseCollective, After
<1>4. \A q \in Rank : seq[q] = seq[Root]
  BY <1>1, SaversAgree
<1>5. RootFirst'
  BY <1>1, <1>2, <1>3, <1>4 DEF RootFirst
<1>6. \A n \in Step, f \in File : n # seq[Root] => disk'[n][f] = disk[n][f]
  <2>1. PICK c \in {Torn, timeStep[Root]} : Put(FileOf(obj[Root], Root), Root, c)
    BY <1>1 DEF OpenCollective, CloseCollective
  <2> QED BY <1>1, <2>1, PutFiles
<1>7. BackupInPlace' /\ NothingLater' /\ SomethingUsable'
  BY <1>1, <1>2, <1>3, <1>6, PutRecovery
<1> QED BY <1>5, <1>7 DEF Recovery

(* The root does not leave its step while another rank still saves it.      *)
LEMMA AdvanceRecovery ==
    ASSUME TypeInv, Control, Files, Recovery, up, NEW r \in Rank, Advance(r)
    PROVE  Recovery'
<1>1. /\ UNCHANGED <<rst, bak, disk, up, restored, seq, obj>>
      /\ pc[r] = "advance" /\ pc'[r] = "monitor"
      /\ \A q \in Rank : q # r => pc'[q] = pc[q]
  BY DEF Advance, durable, job, Goto, TypeInv, TypeOK
<1>2. ASSUME r = Root, NEW q \in Rank, pc[q] \in Saving, seq[q] = seq[Root]
      PROVE  FALSE
  <2>1. step[q] = seq[Root] * Interval /\ seq[Root] * Interval <= step[Root]
        /\ seq[Root] * Interval \in Int /\ step[Root] \in Nat
    BY <1>2, PlaceBounds, RootIsRank
  <2>2. pc[q] # "advance"
    BY <1>2 DEF Saving
  <2>3. step[q] > step[Root]
    BY <1>2, <2>2, ReductionAssumption DEF Advance
  <2> DEFINE a == seq[Root] * Interval
  <2>4. a \in Int /\ step[q] = a /\ a <= step[Root]
    BY <2>1
  <2> HIDE DEF a
  <2> QED BY <2>1, <2>3, <2>4
<1>3. RootFirst'
  <2> SUFFICES ASSUME NEW q \in Rank, pc'[q] = "writing" \/ (pc'[q] = "object" /\ obj'[q] > 1)
               PROVE  seq'[Root] = seq'[q] /\ pc'[Root] \in {"object", "writing", "advance"}
    BY DEF RootFirst
  <2>1. q # r /\ pc'[q] = pc[q] /\ pc[q] \in Saving
    BY <1>1 DEF Saving
  <2>2. seq[Root] = seq[q] /\ pc[Root] \in {"object", "writing", "advance"}
    BY <1>1, <2>1 DEF Recovery, RootFirst
  <2>3. r # Root
    BY <1>2, <2>1, <2>2
  <2> QED BY <1>1, <2>2, <2>3, RootIsRank
<1>4. BackupInPlace'
  <2>1. pc[Root] \in {"backup", "copying"} => pc'[Root] \in {"backup", "copying"}
    BY <1>1, RootIsRank
  <2> QED BY <1>1, <2>1 DEF Recovery, BackupInPlace, Base
<1>5. NothingLater' /\ SomethingUsable'
  BY <1>1 DEF Recovery, NothingLater, SomethingUsable, Usable, AllDone, Base
<1> QED BY <1>3, <1>4, <1>5 DEF Recovery

LEMMA NextRecovery ==
    ASSUME ~BackupCanFail
    PROVE  TypeInv /\ Control /\ Files /\ Recovery /\ [Next]_vars => Recovery'
<1> SUFFICES ASSUME TypeInv, Control, Files, Recovery, [Next]_vars PROVE Recovery'
  OBVIOUS
<1>1. \A r \in Rank : pc[r] # "down" => up
  BY DEF Control, Position, Placed
<1>2. CASE Launching
  BY <1>2, LaunchRecovery
<1>3. CASE SaveMetadata
  <2>1. up
    BY <1>1, <1>3, RootIsRank
       DEF SaveMetadata, SkipBackup, OpenBackup, CloseBackup, TruncateMetadata, WriteMetadata
  <2> QED BY <1>3, <2>1, MetadataRecovery
<1>4. CASE \E r \in Rank : OpenSerial(r) \/ CloseSerial(r)
  BY <1>1, <1>4, SerialRecovery DEF OpenSerial, CloseSerial, AtObject
<1>5. CASE \E o \in Object : OpenCollective(o) \/ CloseCollective(o)
  <2>1. up
    BY <1>1, <1>5, RootIsRank DEF OpenCollective, CloseCollective, AtObject
  <2> QED BY <1>5, <2>1, CollectiveRecovery
<1>6. CASE \E r \in Rank : Monitor(r) \/ Advance(r)
  BY <1>1, <1>6, MonitorRecovery, AdvanceRecovery DEF Monitor, Advance
<1>7. CASE Crash
  <2>1. ~up' /\ UNCHANGED <<rst, bak, disk>>
    BY <1>7 DEF Crash, durable
  <2> QED BY <2>1 DEF Recovery, RootFirst, BackupInPlace, NothingLater, SomethingUsable, Usable, AllDone
<1>8. CASE UNCHANGED vars
  BY <1>8 DEF vars, durable, job, local, Recovery, RootFirst, BackupInPlace, NothingLater, SomethingUsable,
              Usable, AllDone, Base
<1>9. ~BackupFails
  BY DEF BackupFails
<1> QED BY <1>2, <1>3, <1>4, <1>5, <1>6, <1>7, <1>8, <1>9 DEF Next, Program, CollectiveStep, RankStep, Finished

(* The invariant that the other theorems are drawn from is one of every     *)
(* state of the program, as long as restart.bak can be made.                *)
THEOREM CheckpointInvariant ==
    ASSUME ~BackupCanFail
    PROVE  Spec => [](TypeInv /\ IInv)
<1>1. Init => Recovery
  BY InitRecovery
<1>2. TypeInv /\ Control /\ Files /\ Recovery /\ [Next]_vars => Recovery'
  BY NextRecovery
<1>3. IInv <=> Control /\ Files /\ Recovery
  BY DEF IInv
<1> QED BY <1>1, <1>2, <1>3, FilesInvariant, PTL DEF Spec

(* As long as restart.bak can be made, a kill at any moment leaves a whole  *)
(* checkpoint in reach once there has been one.                             *)
THEOREM AlwaysRecoverable ==
    ASSUME ~BackupCanFail
    PROVE  Spec => []Recoverable
<1>1. TypeInv /\ IInv => Recoverable
  <2> SUFFICES ASSUME TypeInv, Control, Files, Recovery, NEW m \in Meta, Complete(m)
               PROVE  Complete(rst) \/ Complete(bak)
    BY DEF IInv, Recoverable
  <2>1. \A n : Usable(n) /\ n.step = n.seq * Interval => Complete(n)
    BY MetaType DEF Usable, Complete, Files, DiskStep
  <2>2. m.seq \in Step /\ AllDone(m.seq)
    BY MetaType DEF Complete, AllDone
  <2>3. Usable(rst) \/ bak \in Meta
    BY <2>2 DEF Recovery, SomethingUsable
  <2>4. (rst \in Meta => rst.step = rst.seq * Interval) /\ (bak \in Meta => bak.step = bak.seq * Interval)
    BY DEF Control, MetaStep
  <2> QED BY <2>1, <2>3, <2>4, BackupUsable DEF Usable
<1> QED BY <1>1, CheckpointInvariant, PTL

=============================================================================
