------------------- MODULE Hdf5MultiFileSerializer_proofs --------------------
(***************************************************************************)
(* Safety of the checkpoint writer, for any number of ranks, objects,      *)
(* steps and kills, under the two assumptions below.                       *)
(***************************************************************************)
EXTENDS Hdf5MultiFileSerializer, TLAPS

CONSTANT Interval  \* FixedInterval::interval; 0 is the same as 1

(* The serializer's interval is FixedInterval: what is due does not depend  *)
(* on the step a job resumed at.                                            *)
ASSUME IntervalAssumption ==
    /\ Interval \in Nat \ {0}
    /\ Schedules = [k \in Step \cup {-1} |-> {{s \in Step : s % Interval = 0}}]

(* Every time step contains a reduction over all ranks.                     *)
ASSUME ReductionAssumption == Peers = [r \in Rank |-> Rank]

-----------------------------------------------------------------------------
(* The inductive invariant.                                                 *)

(* Types; a sequence number is at most the step it belongs to, and a rank   *)
(* that is saving saves its current step.                                   *)
TypeInv ==
    /\ TypeOK
    /\ \A r \in Rank : seq[r] <= timeStep[r]
    /\ \A r \in Rank : pc[r] \in Saving => timeStep[r] = step[r] /\ seq[r] >= 0
    /\ rst \in Meta => rst.seq <= rst.step
    /\ bak \in Meta => bak.seq <= bak.step

(* The sequence number this job resumed from.                               *)
Base == IF restored = NoFile THEN -1 ELSE restored.meta.seq

(* Sequence number n is the save of step n * Interval.                      *)
MetaStep ==
    /\ rst \in Meta => rst.step = rst.seq * Interval
    /\ bak \in Meta => bak.step = bak.seq * Interval

(* A rank at p, in step s, whose last save was step t as sequence number n, *)
(* in a job that resumed from sequence number b.                            *)
Placed(p, s, t, n, b) ==
    /\ p # "down"
    /\ n = -1 => t = -1
    /\ n >= 0 => t = n * Interval
    /\ IF p = "monitor" /\ s > t
         THEN n * Interval < s /\ s <= (n + 1) * Interval
         ELSE n * Interval <= s /\ s < (n + 1) * Interval
    /\ n >= b
    /\ p \in Saving => n > b

Position ==
    /\ ~up => \A r \in Rank : pc[r] = "down"
    /\ up => \A r \in Rank : Placed(pc[r], step[r], timeStep[r], seq[r], Base)
    /\ \A r \in Rank : pc[r] \in {"backup", "copying", "truncate", "metadata"} => r = Root

(* No rank is more than one step ahead of another, and only of one that is  *)
(* done with its monitors.                                                  *)
InStep ==
    up => \A q, r \in Rank :
            \/ step[q] = step[r]
            \/ step[q] = step[r] + 1 /\ pc[r] = "advance"
            \/ step[r] = step[q] + 1 /\ pc[q] = "advance"

Scheduled == up => sched = {s \in Step : s % Interval = 0}

Control == Scheduled /\ MetaStep /\ Position /\ InStep

-----------------------------------------------------------------------------
(* Arithmetic of the schedule.                                              *)

(* A product of integers is an integer, and multiplication by the interval  *)
(* is strictly monotone.                                                    *)
LEMMA TimesInt == \A a \in Int : a * Interval \in Int /\ (a + 1) * Interval = a * Interval + Interval
BY IntervalAssumption

LEMMA TimesMonotone ==
    \A a, b \in Int : a < b => a * Interval + Interval <= b * Interval
BY IntervalAssumption

(* A step lies between two consecutive multiples only.                      *)
LEMMA QuotientUnique ==
    ASSUME NEW a \in Int, NEW b \in Int, NEW s \in Int,
           a * Interval <= s, s < (b + 1) * Interval
    PROVE  a <= b
BY TimesMonotone, TimesInt, IntervalAssumption

(* A due step in (a * Interval, (a + 1) * Interval] is its upper end; a step *)
(* that is not due is not the upper end.                                    *)
LEMMA DueIsMultiple ==
    ASSUME NEW a \in Int, NEW s \in Nat,
           a * Interval < s, s <= (a + 1) * Interval
    PROVE  s % Interval = 0 <=> s = (a + 1) * Interval
<1> DEFINE k == s \div Interval
           m == s % Interval
<1>1. k \in Int /\ m \in 0..Interval - 1 /\ s = k * Interval + m
  BY IntervalAssumption
<1>2. a + 1 \in Int
  OBVIOUS
<1> HIDE DEF k, m
<1>3. k < a + 1 => k * Interval + Interval <= (a + 1) * Interval
  BY <1>1, <1>2, TimesMonotone
<1>4. a + 1 < k => (a + 1) * Interval + Interval <= k * Interval
  BY <1>1, <1>2, TimesMonotone
<1>5. k < a + 1 => k * Interval + Interval <= a * Interval + Interval
  BY <1>1, TimesMonotone, TimesInt, IntervalAssumption
<1>6. k \in {a, a + 1} /\ a * Interval \in Int /\ (a + 1) * Interval = a * Interval + Interval
  BY <1>1, <1>2, <1>3, <1>4, <1>5, TimesInt, TimesMonotone, IntervalAssumption
<1>7. m = 0 <=> s = (a + 1) * Interval
  BY <1>1, <1>6, IntervalAssumption
<1> QED BY <1>7 DEF m

-----------------------------------------------------------------------------
(* Types.                                                                   *)

LEMMA FileType == \A o \in Object, r \in Rank : FileOf(o, r) \in File
BY DEF File

LEMMA InitType == Init => TypeInv
<1> SUFFICES ASSUME Init PROVE TypeInv
  OBVIOUS
<1> USE DEF Init
<1>1. rst \notin Meta /\ bak \notin Meta
  BY MarkersAssumption
<1>2. disk \in [Step -> [File -> Step \cup {NoFile, Torn}]]
  OBVIOUS
<1>3. /\ step \in [Rank -> Step]
      /\ timeStep \in [Rank -> Step \cup {-1}]
      /\ seq \in [Rank -> Step \cup {-1}]
      /\ obj \in [Rank -> Object]
  BY BoundsAssumption, ObjectsAssumption DEF Step, Object
<1>4. pc \in [Rank -> PC] /\ crashes \in 0..MaxCrashes
  BY BoundsAssumption DEF PC
<1>5. \A r \in Rank : seq[r] = -1 /\ timeStep[r] = -1 /\ pc[r] \notin Saving
  BY DEF Saving
<1>6. \A r \in Rank : seq[r] <= timeStep[r]
  <2>1. -1 <= -1
    OBVIOUS
  <2> QED BY <1>5, <2>1
<1>7. TypeOK
  BY <1>2, <1>3, <1>4 DEF TypeOK
<1> QED BY <1>1, <1>5, <1>6, <1>7 DEF TypeInv

LEMMA LaunchType ==
    ASSUME TypeInv, NEW k \in Step \cup {-1}, NEW n \in Step \cup {-1}, n <= k, Launch(k, n),
           restored' \in Restored \cup {NoFile}
    PROVE  TypeInv'
BY ScheduleAssumption, ObjectsAssumption, BoundsAssumption
   DEF Launch, durable, TypeInv, TypeOK, Object, Step, PC, Saving, Meta

LEMMA MonitorType ==
    ASSUME TypeInv, NEW r \in Rank, Monitor(r)
    PROVE  TypeInv'
<1> USE DEF durable, job, Goto
<1>1. CASE step[r] > timeStep[r] /\ step[r] \in sched
  <2>1. seq[r] \in Step \cup {-1} /\ step[r] \in Step /\ timeStep[r] \in Step \cup {-1} /\ seq[r] <= timeStep[r]
    BY DEF TypeInv, TypeOK
  <2>2. seq[r] + 1 \in Step /\ seq[r] + 1 <= step[r]
    BY <1>1, <2>1, BoundsAssumption DEF Step
  <2>3. /\ seq' = [seq EXCEPT ![r] = seq[r] + 1]
        /\ timeStep' = [timeStep EXCEPT ![r] = step[r]]
    BY <1>1 DEF Monitor
  <2>4. /\ seq' \in [Rank -> Step \cup {-1}]
        /\ timeStep' \in [Rank -> Step \cup {-1}]
        /\ \A q \in Rank : seq'[q] <= timeStep'[q]
    BY <2>1, <2>2, <2>3 DEF TypeInv, TypeOK
  <2>5. 1 \in Object /\ {"backup", "object"} \subseteq PC
    BY ObjectsAssumption DEF Object, PC, Saving
  <2>6. pc' \in [Rank -> PC] /\ obj' \in [Rank -> Object]
    BY <1>1, <2>5 DEF Monitor, TypeInv, TypeOK
  <2>7. \A q \in Rank : pc'[q] \in Saving => timeStep'[q] = step'[q] /\ seq'[q] >= 0
    BY <1>1, <2>2, <2>3 DEF Monitor, TypeInv, TypeOK, Step
  <2> QED BY <1>1, <2>4, <2>6, <2>7 DEF Monitor, TypeInv, TypeOK
<1>2. CASE ~(step[r] > timeStep[r] /\ step[r] \in sched)
  BY <1>2 DEF Monitor, PC, Saving, TypeInv, TypeOK
<1> QED BY <1>1, <1>2

LEMMA MetadataType ==
    ASSUME TypeInv, SaveMetadata \/ BackupFails
    PROVE  TypeInv'
<1> USE DEF TypeInv, TypeOK, job, durable, Goto, PC, Saving
<1>1. CASE SkipBackup \/ BackupFails
  BY <1>1 DEF SkipBackup, BackupFails
<1>2. CASE OpenBackup \/ CloseBackup
  BY <1>2, MarkersAssumption DEF OpenBackup, CloseBackup
<1>3. CASE TruncateMetadata
  BY <1>3, MarkersAssumption DEF TruncateMetadata
<1>4. CASE WriteMetadata
  BY <1>4, RanksAssumption DEF WriteMetadata, Meta, Step
<1> QED BY <1>1, <1>2, <1>3, <1>4 DEF SaveMetadata

(* Writing a state file: what Put does to the files, for any content.       *)
LEMMA PutType ==
    ASSUME TypeInv, NEW r \in Rank, NEW f \in File, seq[r] \in Step,
           NEW c \in Step \cup {NoFile, Torn}, Put(f, r, c)
    PROVE  /\ disk' \in [Step -> [File -> Step \cup {NoFile, Torn}]]
           /\ disk'[seq[r]][f] = c
           /\ \A n \in Step, g \in File : n # seq[r] \/ g # f => disk'[n][g] = disk[n][g]
BY DEF TypeInv, TypeOK, Put

LEMMA ObjectType ==
    ASSUME TypeInv,
           \/ \E r \in Rank : OpenSerial(r) \/ CloseSerial(r)
           \/ \E o \in Object : OpenCollective(o) \/ CloseCollective(o)
    PROVE  TypeInv'
<1>1. \A r \in Rank : pc[r] \in {"object", "writing"} =>
                        seq[r] \in Step /\ timeStep[r] \in Step /\ obj[r] \in Object
  BY DEF TypeInv, TypeOK, Saving, Step
<1>2. \A r \in Rank : obj[r] < NObjects => obj[r] + 1 \in Object
  BY ObjectsAssumption DEF TypeInv, TypeOK, Object
<1>3. {"object", "writing", "advance"} \subseteq PC /\ {"object", "writing"} \subseteq Saving
  BY DEF PC, Saving
<1>4. ASSUME NEW r \in Rank, OpenSerial(r)
      PROVE  TypeInv'
  <2>1. disk' \in [Step -> [File -> Step \cup {NoFile, Torn}]]
    BY <1>1, <1>4, FileType, PutType DEF OpenSerial, AtObject
  <2> QED BY <1>3, <1>4, <2>1 DEF OpenSerial, AtObject, TypeInv, TypeOK, job, Goto
<1>5. ASSUME NEW r \in Rank, CloseSerial(r)
      PROVE  TypeInv'
  <2>1. disk' \in [Step -> [File -> Step \cup {NoFile, Torn}]]
    BY <1>1, <1>5, FileType, PutType DEF CloseSerial, AtObject
  <2>2. pc' \in [Rank -> PC] /\ obj' \in [Rank -> Object]
    BY <1>2, <1>3, <1>5 DEF CloseSerial, After, Goto, TypeInv, TypeOK
  <2>3. \A q \in Rank : pc'[q] \in Saving => pc[q] \in Saving
    BY <1>3, <1>5 DEF CloseSerial, AtObject, Goto, TypeInv, TypeOK
  <2> QED BY <1>5, <2>1, <2>2, <2>3 DEF CloseSerial, TypeInv, TypeOK, job
<1>6. ASSUME NEW o \in Object, OpenCollective(o)
      PROVE  TypeInv'
  <2>1. disk' \in [Step -> [File -> Step \cup {NoFile, Torn}]]
    BY <1>1, <1>6, FileType, PutType, RanksAssumption DEF OpenCollective, AtObject
  <2>2. \A q \in Rank : pc[q] \in Saving
    BY <1>3, <1>6 DEF OpenCollective, AtObject
  <2> QED BY <1>3, <1>6, <2>1, <2>2 DEF OpenCollective, TypeInv, TypeOK, job
<1>7. ASSUME NEW o \in Object, CloseCollective(o)
      PROVE  TypeInv'
  <2>1. disk' \in [Step -> [File -> Step \cup {NoFile, Torn}]]
    BY <1>1, <1>7, FileType, PutType, RanksAssumption DEF CloseCollective, AtObject
  <2>2. pc' \in [Rank -> PC] /\ obj' \in [Rank -> Object]
    BY <1>2, <1>3, <1>7 DEF CloseCollective, After, TypeInv, TypeOK
  <2>3. \A q \in Rank : pc[q] \in Saving
    BY <1>3, <1>7 DEF CloseCollective, AtObject
  <2> QED BY <1>7, <2>1, <2>2, <2>3 DEF CloseCollective, TypeInv, TypeOK, job
<1> QED BY <1>4, <1>5, <1>6, <1>7

LEMMA LaunchingType ==
    ASSUME TypeInv, Launching
    PROVE  TypeInv'
<1>1. CASE StartFresh
  <2>1. restored' \in Restored \cup {NoFile} /\ Launch(-1, -1)
    BY <1>1 DEF StartFresh
  <2> QED BY <2>1, LaunchType
<1>2. CASE Resume
  <2>1. rst \in Meta /\ rst.step \in Step /\ rst.seq \in Step /\ rst.seq <= rst.step
    BY <1>2 DEF Resume, Usable, Meta, TypeInv
  <2>2. disk[rst.seq] \in [File -> Step]
    BY <1>2, <2>1 DEF Resume, Usable, TypeInv, TypeOK
  <2>3. restored' \in Restored \cup {NoFile}
    BY <1>2, <2>1, <2>2 DEF Resume, Restored
  <2> QED BY <1>2, <2>1, <2>3, LaunchType DEF Resume
<1>3. CASE RecoverFromBackup \/ StartOver
  BY <1>3, MarkersAssumption DEF RecoverFromBackup, StartOver, Usable, TypeInv, TypeOK, job, local
<1> QED BY <1>1, <1>2, <1>3 DEF Launching

LEMMA AdvanceType ==
    ASSUME TypeInv, NEW r \in Rank, Advance(r)
    PROVE  TypeInv'
BY BoundsAssumption DEF Advance, TypeInv, TypeOK, Goto, durable, job, PC, Saving, Step

LEMMA CrashType ==
    ASSUME TypeInv, Crash
    PROVE  TypeInv'
<1>1. \A r \in Rank : pc'[r] \notin Saving /\ seq'[r] = timeStep'[r]
  BY DEF Crash, Saving
<1>2. TypeOK'
  <2>1. 0 \in Step /\ 1 \in Object /\ crashes' \in 0..MaxCrashes
    BY BoundsAssumption, ObjectsAssumption DEF Crash, TypeInv, TypeOK, Step, Object
  <2>2. /\ pc' \in [Rank -> PC] /\ step' \in [Rank -> Step] /\ obj' \in [Rank -> Object]
        /\ timeStep' \in [Rank -> Step \cup {-1}] /\ seq' \in [Rank -> Step \cup {-1}]
    BY <2>1 DEF Crash, PC
  <2> QED BY <2>1, <2>2 DEF Crash, TypeInv, TypeOK, durable
<1>3. \A r \in Rank : seq'[r] <= timeStep'[r]
  BY <1>1, <1>2, BoundsAssumption DEF TypeOK, Step
<1> QED BY <1>1, <1>2, <1>3 DEF TypeInv, Crash, durable

LEMMA NextType == TypeInv /\ [Next]_vars => TypeInv'
<1> SUFFICES ASSUME TypeInv, [Next]_vars PROVE TypeInv'
  OBVIOUS
<1>1. CASE Program
  BY <1>1, LaunchingType, MetadataType, ObjectType, MonitorType, AdvanceType
  DEF Program, CollectiveStep, RankStep
<1>2. CASE Crash
  BY <1>2, CrashType
<1>3. CASE UNCHANGED vars
  BY <1>3 DEF vars, durable, job, local, TypeInv, TypeOK
<1> QED BY <1>1, <1>2, <1>3, MetadataType DEF Next, Finished

(* Every variable of the writer stays in its range, whatever the schedule   *)
(* and however often jobs are killed.                                       *)
THEOREM TypeCorrect == Spec => []TypeOK
<1>1. Spec => []TypeInv
  BY InitType, NextType, PTL DEF Spec
<1>2. TypeInv => TypeOK
  BY DEF TypeInv
<1> QED BY <1>1, <1>2, PTL

-----------------------------------------------------------------------------
(* Control: where the ranks are, relative to the schedule and to each other. *)

LEMMA InitControl == Init => Control
BY MarkersAssumption DEF Init, Control, Scheduled, MetaStep, Position, InStep

LEMMA LaunchControl ==
    ASSUME TypeInv, Control,
           \/ StartFresh
           \/ Resume
    PROVE  Control'
<1>1. ASSUME NEW k \in Step \cup {-1}, NEW n \in Step \cup {-1}, Launch(k, n),
             n = -1 => k = -1, n >= 0 => k = n * Interval, Base' = n
      PROVE  Control'
  <2>1. Scheduled'
    BY <1>1, IntervalAssumption DEF Launch, Scheduled
  <2>2. MetaStep'
    BY <1>1 DEF Launch, durable, Control, MetaStep
  <2>3. n * Interval \in Int /\ (n + 1) * Interval = n * Interval + Interval /\ n \in Int
    BY TimesInt, BoundsAssumption DEF Step
  <2>4. ASSUME NEW r \in Rank
        PROVE  /\ pc'[r] = "monitor" /\ seq'[r] = n /\ timeStep'[r] = k
               /\ step'[r] = IF k = -1 THEN 0 ELSE k
    BY <1>1 DEF Launch
  <2>5. n = -1 => n * Interval < 0 /\ 0 <= (n + 1) * Interval
    BY IntervalAssumption
  <2>6. Position'
    BY <1>1, <2>3, <2>4, <2>5, IntervalAssumption, BoundsAssumption DEF Launch, Position, Placed, Saving, Step
  <2>7. InStep'
    BY <2>4 DEF InStep
  <2> QED BY <2>1, <2>2, <2>6, <2>7 DEF Control
<1>2. CASE StartFresh
  BY <1>1, <1>2 DEF StartFresh, Base
<1>3. CASE Resume
  <2>1. rst \in Meta /\ rst.step \in Step /\ rst.seq \in Step /\ rst.step = rst.seq * Interval
    BY <1>3 DEF Resume, Usable, Meta, Control, MetaStep
  <2>2. restored' \in Restored
    BY <1>3, <2>1 DEF Resume, Usable, Restored, TypeInv, TypeOK
  <2>3. Base' = rst.seq
    BY <1>3, <2>2, MarkersAssumption DEF Resume, Base
  <2> QED BY <1>1, <1>3, <2>1, <2>3, BoundsAssumption DEF Resume, Step
<1> QED BY <1>2, <1>3

LEMMA MonitorControl ==
    ASSUME TypeInv, Control, up, NEW r \in Rank, Monitor(r)
    PROVE  Control'
<1> USE DEF durable, job, Goto
<1>1. step[r] \in Nat /\ timeStep[r] \in Int /\ seq[r] \in Int /\ Base \in Int
  BY BoundsAssumption, MarkersAssumption DEF TypeInv, TypeOK, Step, Base, Restored, Meta
<1>2. seq[r] * Interval \in Int /\ (seq[r] + 1) * Interval = seq[r] * Interval + Interval
      /\ (seq[r] + 1 + 1) * Interval = (seq[r] + 1) * Interval + Interval
  BY <1>1, TimesInt
<1>3. step[r] \in sched <=> step[r] % Interval = 0
  BY DEF Control, Scheduled, TypeInv, TypeOK, Monitor
<1>4. step[r] > timeStep[r] =>
        /\ seq[r] * Interval < step[r] /\ step[r] <= (seq[r] + 1) * Interval
        /\ step[r] \in sched <=> step[r] = (seq[r] + 1) * Interval
  BY <1>1, <1>3, DueIsMultiple DEF Control, Position, Placed, Monitor
<1>5. seq[r] >= Base
  BY DEF Control, Position, Placed
<1>6. Scheduled' /\ MetaStep' /\ Base' = Base
  BY DEF Monitor, Control, Scheduled, MetaStep, Base
<1>7. Position'
  <2>1. ASSUME NEW q \in Rank, q # r
        PROVE  pc'[q] = pc[q] /\ step'[q] = step[q] /\ timeStep'[q] = timeStep[q] /\ seq'[q] = seq[q]
    BY <2>1 DEF Monitor, TypeInv, TypeOK
  <2>2. CASE step[r] > timeStep[r] /\ step[r] \in sched
    <3>1. /\ pc'[r] = IF r = Root THEN "backup" ELSE "object"
          /\ step'[r] = step[r] /\ timeStep'[r] = step[r] /\ seq'[r] = seq[r] + 1
      BY <2>2 DEF Monitor, TypeInv, TypeOK
    <3>2. seq[r] >= -1
      <4>1. seq \in [Rank -> Step \cup {-1}]
        BY DEF TypeInv, TypeOK
      <4> QED BY <4>1, BoundsAssumption DEF Step
    <3>3. /\ pc'[r] # "down" /\ pc'[r] # "monitor"
          /\ seq'[r] > Base /\ seq'[r] >= 0
          /\ timeStep'[r] = seq'[r] * Interval /\ step'[r] = seq'[r] * Interval
          /\ step'[r] < (seq'[r] + 1) * Interval
      BY <1>1, <1>2, <1>4, <1>5, <2>2, <3>1, <3>2, IntervalAssumption
    <3>4. Placed(pc'[r], step'[r], timeStep'[r], seq'[r], Base)
      BY <1>1, <3>1, <3>3 DEF Placed
    <3>5. \A q \in Rank : q # r => Placed(pc'[q], step'[q], timeStep'[q], seq'[q], Base)
      BY <2>1 DEF Control, Position
    <3> QED BY <1>6, <2>1, <3>1, <3>4, <3>5 DEF Control, Position, Monitor
  <2>3. CASE ~(step[r] > timeStep[r] /\ step[r] \in sched)
    <3>1. /\ pc'[r] = "advance"
          /\ step'[r] = step[r] /\ timeStep'[r] = timeStep[r] /\ seq'[r] = seq[r]
      BY <2>3 DEF Monitor, TypeInv, TypeOK
    <3>2. Placed(pc[r], step[r], timeStep[r], seq[r], Base) /\ pc[r] = "monitor"
      BY DEF Control, Position, Monitor
    <3>a. seq[r] * Interval <= step[r] /\ step[r] < (seq[r] + 1) * Interval
      <4>1. CASE step[r] > timeStep[r]
        <5>1. step[r] \notin sched
          BY <2>3, <4>1
        <5>2. seq[r] * Interval < step[r] /\ step[r] <= (seq[r] + 1) * Interval /\ step[r] # (seq[r] + 1) * Interval
          BY <1>4, <4>1, <5>1
        <5> DEFINE a == seq[r] * Interval  b == (seq[r] + 1) * Interval
        <5>3. a \in Int /\ b \in Int
          BY <1>2, IntervalAssumption
        <5> HIDE DEF a, b
        <5>4. a < step[r] /\ step[r] <= b /\ step[r] # b => a <= step[r] /\ step[r] < b
          BY <1>1, <5>3
        <5> QED BY <5>2, <5>4 DEF a, b
      <4>2. CASE ~(step[r] > timeStep[r])
        BY <3>2, <4>2 DEF Placed
      <4> QED BY <4>1, <4>2
    <3>3. Placed("advance", step[r], timeStep[r], seq[r], Base)
      BY <3>2, <3>a DEF Placed, Saving
    <3>4. \A q \in Rank : q # r => Placed(pc'[q], step'[q], timeStep'[q], seq'[q], Base)
      BY <2>1 DEF Control, Position
    <3> QED BY <1>6, <2>1, <3>1, <3>3, <3>4 DEF Control, Position, Monitor
  <2> QED BY <2>2, <2>3
<1>8. InStep'
  BY DEF Monitor, Control, InStep, TypeInv, TypeOK
<1> QED BY <1>6, <1>7, <1>8 DEF Control

LEMMA AdvanceControl ==
    ASSUME TypeInv, Control, up, NEW r \in Rank, Advance(r)
    PROVE  Control'
<1> USE DEF durable, job, Goto
<1>1. step[r] \in Nat /\ timeStep[r] \in Int /\ seq[r] \in Int
  BY BoundsAssumption DEF TypeInv, TypeOK, Step
<1>2. seq[r] * Interval \in Int /\ (seq[r] + 1) * Interval = seq[r] * Interval + Interval
  BY <1>1, TimesInt
<1>3. Scheduled' /\ MetaStep' /\ Base' = Base
  BY DEF Advance, Control, Scheduled, MetaStep, Base
<1>4. \A q \in Rank : /\ timeStep'[q] = timeStep[q] /\ seq'[q] = seq[q]
                      /\ q # r => step'[q] = step[q] /\ pc'[q] = pc[q]
  BY DEF Advance, TypeInv, TypeOK
<1>5. step'[r] = step[r] + 1 /\ pc'[r] = "monitor"
  BY DEF Advance, TypeInv, TypeOK
<1>6. timeStep[r] <= step[r]
  BY <1>1, <1>2, BoundsAssumption DEF Advance, Control, Position, Placed, TypeInv, TypeOK, Step
<1>7. Position'
  <2>1. Placed(pc[r], step[r], timeStep[r], seq[r], Base) /\ pc[r] = "advance"
    BY DEF Control, Position, Advance
  <2>a. seq[r] * Interval <= step[r] /\ step[r] < (seq[r] + 1) * Interval
    BY <2>1 DEF Placed
  <2>b. seq[r] * Interval < step[r] + 1 /\ step[r] + 1 <= (seq[r] + 1) * Interval /\ step[r] + 1 > timeStep[r]
    BY <1>1, <1>2, <1>6, <2>a, IntervalAssumption
  <2>2. Placed("monitor", step[r] + 1, timeStep[r], seq[r], Base)
    BY <2>1, <2>b DEF Placed, Saving
  <2>3. \A q \in Rank : q # r => Placed(pc'[q], step'[q], timeStep'[q], seq'[q], Base)
    BY <1>4 DEF Control, Position
  <2> QED BY <1>3, <1>4, <1>5, <2>2, <2>3 DEF Control, Position, Advance
<1>8. InStep'
  <2>1. \A q \in Rank : q # r => step'[q] = step'[r] \/ (step'[r] = step'[q] + 1 /\ pc'[q] = "advance")
    <3>1. \A q \in Rank : step[q] \in Nat
      BY BoundsAssumption DEF TypeInv, TypeOK, Step
    <3> QED BY <1>4, <1>5, <3>1, ReductionAssumption DEF Advance, Control, InStep
  <2> QED BY <1>4, <1>5, <2>1 DEF Control, InStep
<1> QED BY <1>3, <1>7, <1>8 DEF Control

LEMMA MetadataControl ==
    ASSUME TypeInv, Control, up, SaveMetadata \/ BackupFails
    PROVE  Control'
<1> USE DEF durable, job, Goto
<1>1. Scheduled' /\ Base' = Base /\ UNCHANGED <<up, step, timeStep, seq, obj>>
  BY DEF SaveMetadata, SkipBackup, BackupFails, OpenBackup, CloseBackup, TruncateMetadata,
         WriteMetadata, Control, Scheduled, Base
<1>2. \E label \in {"copying", "truncate", "metadata", "object"} :
         pc[Root] \in {"backup", "copying", "truncate", "metadata"} /\ pc' = [pc EXCEPT ![Root] = label]
  BY DEF SaveMetadata, SkipBackup, BackupFails, OpenBackup, CloseBackup, TruncateMetadata, WriteMetadata
<1>3. MetaStep'
  <2>1. timeStep[Root] = seq[Root] * Interval \/ pc[Root] # "metadata"
    BY RanksAssumption DEF Control, Position, Placed, TypeInv, Saving
  <2>2. CASE WriteMetadata
    BY <2>1, <2>2 DEF WriteMetadata, Control, MetaStep
  <2>3. CASE (SaveMetadata /\ ~WriteMetadata) \/ BackupFails
    BY <2>3, MarkersAssumption
       DEF SaveMetadata, SkipBackup, BackupFails, OpenBackup, CloseBackup, TruncateMetadata, Control, MetaStep
  <2> QED BY <2>2, <2>3
<1>4. Position'
  BY <1>1, <1>2, RanksAssumption DEF Control, Position, Placed, Saving, TypeInv, TypeOK
<1>5. InStep'
  BY <1>1, <1>2, RanksAssumption DEF Control, InStep, TypeInv, TypeOK
<1> QED BY <1>1, <1>3, <1>4, <1>5 DEF Control

LEMMA ObjectControl ==
    ASSUME TypeInv, Control, up,
           \/ \E r \in Rank : OpenSerial(r) \/ CloseSerial(r)
           \/ \E o \in Object : OpenCollective(o) \/ CloseCollective(o)
    PROVE  Control'
<1> USE DEF durable, job, Goto
<1>1. UNCHANGED <<rst, bak, up, sched, restored, step, timeStep, seq>>
  BY DEF OpenSerial, CloseSerial, OpenCollective, CloseCollective
<1>2. \A q \in Rank : \/ pc'[q] = pc[q]
                      \/ pc[q] \in {"object", "writing"} /\ pc'[q] \in {"object", "writing", "advance"}
  BY DEF OpenSerial, CloseSerial, OpenCollective, CloseCollective, AtObject, After, TypeInv, TypeOK
<1>3. Scheduled' /\ MetaStep' /\ Base' = Base
  BY <1>1 DEF Control, Scheduled, MetaStep, Base
<1>4. Position'
  BY <1>1, <1>2, <1>3 DEF Control, Position, Placed, Saving
<1>5. InStep'
  BY <1>1, <1>2 DEF Control, InStep
<1> QED BY <1>3, <1>4, <1>5 DEF Control

LEMMA NextControl == TypeInv /\ Control /\ [Next]_vars => Control'
<1> SUFFICES ASSUME TypeInv, Control, [Next]_vars PROVE Control'
  OBVIOUS
<1>1. \A r \in Rank : pc[r] # "down" => up
  BY DEF Control, Position, Placed
<1>2. CASE Launching
  <2>1. CASE RecoverFromBackup \/ StartOver
    BY <2>1, MarkersAssumption DEF RecoverFromBackup, StartOver, job, local, Control, Scheduled, MetaStep, Position, InStep
  <2> QED BY <1>2, <2>1, LaunchControl DEF Launching
<1>3. CASE SaveMetadata \/ BackupFails
  <2>1. up
    BY <1>1, <1>3, RanksAssumption
       DEF SaveMetadata, SkipBackup, BackupFails, OpenBackup, CloseBackup, TruncateMetadata, WriteMetadata
  <2> QED BY <1>3, <2>1, MetadataControl
<1>4. CASE \/ \E r \in Rank : OpenSerial(r) \/ CloseSerial(r)
           \/ \E o \in Object : OpenCollective(o) \/ CloseCollective(o)
  <2>1. up
    BY <1>1, <1>4, RanksAssumption DEF OpenSerial, CloseSerial, OpenCollective, CloseCollective, AtObject
  <2> QED BY <1>4, <2>1, ObjectControl
<1>5. CASE \E r \in Rank : Monitor(r) \/ Advance(r)
  BY <1>1, <1>5, MonitorControl, AdvanceControl DEF Monitor, Advance
<1>6. CASE Crash
  BY <1>6 DEF Crash, durable, Control, Scheduled, MetaStep, Position, InStep
<1>7. CASE UNCHANGED vars
  BY <1>7 DEF vars, durable, job, local, Control, Scheduled, MetaStep, Position, InStep, Base
<1> QED BY <1>2, <1>3, <1>4, <1>5, <1>6, <1>7 DEF Next, Program, CollectiveStep, RankStep, Finished
(* What a rank's place says of its sequence number.                         *)
LEMMA PlaceBounds ==
    ASSUME TypeInv, Control, up, NEW r \in Rank
    PROVE  /\ seq[r] \in Int /\ seq[r] >= -1 /\ seq[r] >= Base /\ step[r] \in Nat
           /\ seq[r] * Interval \in Int /\ (seq[r] + 1) * Interval = seq[r] * Interval + Interval
           /\ seq[r] * Interval <= step[r] /\ step[r] <= (seq[r] + 1) * Interval
           /\ step[r] = (seq[r] + 1) * Interval => pc[r] = "monitor"
           /\ pc[r] = "monitor" /\ step[r] > timeStep[r] => seq[r] * Interval < step[r]
           /\ pc[r] \in Saving => /\ seq[r] \in Step /\ seq[r] > Base
                                  /\ timeStep[r] = seq[r] * Interval /\ step[r] = seq[r] * Interval
<1>1. seq[r] \in Step \cup {-1} /\ step[r] \in Step /\ timeStep[r] \in Step \cup {-1}
  BY DEF TypeInv, TypeOK
<1>2. seq[r] \in Int /\ seq[r] >= -1 /\ step[r] \in Nat /\ timeStep[r] \in Int
  BY <1>1, BoundsAssumption DEF Step
<1>3. seq[r] * Interval \in Int /\ (seq[r] + 1) * Interval = seq[r] * Interval + Interval
  BY <1>2, TimesInt
<1>4. Placed(pc[r], step[r], timeStep[r], seq[r], Base)
  BY DEF Control, Position
<1>5. pc[r] \in Saving => /\ pc[r] # "monitor" /\ timeStep[r] = step[r] /\ seq[r] >= 0
                         /\ seq[r] > Base /\ timeStep[r] = seq[r] * Interval
  BY <1>4 DEF Placed, Saving, TypeInv
<1>6. pc[r] \in Saving => seq[r] \in Step
  BY <1>1, <1>5
<1>7. /\ seq[r] >= Base
      /\ IF pc[r] = "monitor" /\ step[r] > timeStep[r]
           THEN seq[r] * Interval < step[r] /\ step[r] <= (seq[r] + 1) * Interval
           ELSE seq[r] * Interval <= step[r] /\ step[r] < (seq[r] + 1) * Interval
  BY <1>4 DEF Placed
<1> DEFINE a == seq[r] * Interval  b == (seq[r] + 1) * Interval
<1>8. a \in Int /\ b \in Int
  BY <1>3, IntervalAssumption
<1>9. /\ a <= step[r] /\ step[r] <= b
      /\ step[r] = b => pc[r] = "monitor"
      /\ pc[r] = "monitor" /\ step[r] > timeStep[r] => a < step[r]
  <2> HIDE DEF a, b
  <2>1. IF pc[r] = "monitor" /\ step[r] > timeStep[r]
           THEN a < step[r] /\ step[r] <= b
           ELSE a <= step[r] /\ step[r] < b
    BY <1>7 DEF a, b
  <2> QED BY <1>2, <1>8, <2>1
<1> QED BY <1>2, <1>3, <1>5, <1>6, <1>7, <1>9

(* No rank is more than one save ahead of another, and only of one that is  *)
(* between saves.                                                           *)
LEMMA SeqGap ==
    ASSUME TypeInv, Control, up, NEW q \in Rank, NEW r \in Rank
    PROVE  /\ seq[q] <= seq[r] + 1
           /\ seq[q] = seq[r] + 1 => pc[r] \in {"monitor", "advance"}
<1> DEFINE a == seq[q] * Interval  b == (seq[r] + 1) * Interval
<1>1. /\ a \in Int /\ b \in Int /\ step[q] \in Nat /\ step[r] \in Nat /\ seq[q] \in Int /\ seq[r] \in Int
      /\ a <= step[q] /\ step[r] <= b
      /\ step[r] = b => pc[r] = "monitor"
  BY PlaceBounds, IntervalAssumption
<1>2. \/ step[q] <= step[r]
      \/ step[q] = step[r] + 1 /\ pc[r] = "advance"
  BY <1>1 DEF Control, InStep
<1>3. seq[r] + 1 < seq[q] => b + Interval <= a
  BY <1>1, TimesMonotone
<1>4. seq[q] = seq[r] + 1 => a = b
  BY <1>1
<1> HIDE DEF a, b
<1>5. a <= b
  BY <1>1, <1>2
<1>6. seq[q] <= seq[r] + 1
  BY <1>1, <1>3, <1>5, IntervalAssumption
<1>7. seq[q] = seq[r] + 1 => pc[r] \in {"monitor", "advance"}
  BY <1>1, <1>2, <1>4
<1> QED BY <1>6, <1>7

(* A rank that reaches a monitor call with a new step is the last of those  *)
(* that have finished the save before.                                      *)
LEMMA SavedBefore ==
    ASSUME TypeInv, Control, up, NEW p \in Rank, NEW r \in Rank,
           pc[p] = "monitor", step[p] > timeStep[p]
    PROVE  \/ seq[r] > seq[p]
           \/ seq[r] = seq[p] /\ pc[r] \in {"monitor", "advance"}
<1> DEFINE a == seq[p] * Interval  b == seq[r] * Interval  c == (seq[r] + 1) * Interval
<1>1. /\ a \in Int /\ b \in Int /\ c \in Int /\ step[p] \in Nat /\ step[r] \in Nat
      /\ seq[p] \in Int /\ seq[r] \in Int
      /\ a < step[p] /\ step[r] <= c
      /\ step[r] = c => pc[r] = "monitor"
      /\ pc[r] \in Saving => step[r] = b
  BY PlaceBounds, IntervalAssumption
<1>2. \/ step[p] <= step[r]
      \/ step[p] = step[r] + 1 /\ pc[r] = "advance"
  BY <1>1 DEF Control, InStep
<1>3. seq[r] < seq[p] => c <= a
  BY <1>1, TimesMonotone, TimesInt, IntervalAssumption
<1>4. seq[r] = seq[p] => a = b
  OBVIOUS
<1>5. pc[r] \in Saving \cup {"monitor", "advance"}
  BY DEF Control, Position, Placed, TypeInv, TypeOK, PC
<1>6. pc[r] = "advance" => pc[r] \notin Saving /\ pc[r] # "monitor"
  BY DEF Saving
<1> HIDE DEF a, b, c
<1>7. seq[r] >= seq[p]
  BY <1>1, <1>2, <1>3, <1>6
<1>8. seq[r] = seq[p] => pc[r] \notin Saving
  BY <1>1, <1>2, <1>4, <1>6
<1> QED BY <1>1, <1>5, <1>7, <1>8

(* Two ranks that are both saving save the same step as the same sequence.  *)
LEMMA SaversAgree ==
    ASSUME TypeInv, Control, up, NEW q \in Rank, NEW r \in Rank,
           pc[q] \in Saving, pc[r] \in Saving
    PROVE  seq[q] = seq[r] /\ timeStep[q] = timeStep[r]
<1>1. seq[q] \in Int /\ seq[r] \in Int
      /\ timeStep[q] = seq[q] * Interval /\ timeStep[r] = seq[r] * Interval
  BY PlaceBounds
<1>2. pc[q] \notin {"monitor", "advance"} /\ pc[r] \notin {"monitor", "advance"}
  BY DEF Saving
<1>3. seq[q] = seq[r]
  BY <1>1, <1>2, SeqGap
<1> QED BY <1>1, <1>3

LEMMA ControlInvariant == Spec => [](TypeInv /\ Control)
<1>1. Init => TypeInv /\ Control
  BY InitType, InitControl
<1>2. TypeInv /\ Control /\ [Next]_vars => (TypeInv /\ Control)'
  BY NextType, NextControl
<1> QED BY <1>1, <1>2, PTL DEF Spec

(* Ranks never meet in a collective open or close of different saves: the   *)
(* interval and the same-step test, evaluated by each rank on its own, give *)
(* every rank the same answer.                                              *)
THEOREM RanksAgree == Spec => []CollectivesMatch
<1>1. TypeInv /\ Control => CollectivesMatch
  <2> SUFFICES ASSUME TypeInv, Control, NEW q \in Rank, NEW r \in Rank,
                      {pc[q], pc[r]} \subseteq {"object", "writing"}
               PROVE  seq[q] = seq[r] /\ timeStep[q] = timeStep[r]
    BY DEF CollectivesMatch
  <2>1. up /\ pc[q] \in Saving /\ pc[r] \in Saving
    BY DEF Control, Position, Saving
  <2> QED BY <2>1, SaversAgree
<1> QED BY <1>1, ControlInvariant, PTL

=============================================================================
