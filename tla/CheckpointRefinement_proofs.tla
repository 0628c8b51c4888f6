---------------------- MODULE CheckpointRefinement_proofs ----------------------
(***************************************************************************)
(* The checkpoint writer implements CheckpointStore: every step of a rank, *)
(* of the user and of a kill is a step of the store, or changes nothing    *)
(* that the store shows.                                                   *)
(***************************************************************************)
EXTENDS CheckpointRefinement, CheckpointSafety_proofs

(* The step that is saved as sequence number n.                             *)
StepOf(n) == IF n = -1 THEN NoFile ELSE n * Interval

(* The sequence number that the next job would resume from.                 *)
DiskSeq == IF Usable(rst) THEN rst.seq ELSE IF Usable(bak) THEN bak.seq ELSE -1

(* The last save that all ranks have finished and the last that one has     *)
(* begun are the same or follow each other.                                 *)
Marks ==
    /\ AllWritten \in Step \cup {-1} /\ Begun \in Step \cup {-1}
    /\ \A r \in Rank : AllWritten <= Written(r) /\ seq[r] <= Begun
    /\ \E r \in Rank : Written(r) = AllWritten
    /\ \E r \in Rank : seq[r] = Begun
    /\ Begun \in {AllWritten, AllWritten + 1}

(* What the store shows while a job runs, and while none does.              *)
RunningMap ==
    /\ Marks
    /\ savedStep = StepOf(AllWritten)
    /\ pendingStep = IF Begun = AllWritten THEN NoFile ELSE StepOf(Begun)
    /\ runFrom \in SUBSET Step

StoppedMap ==
    /\ DiskSeq \in Step \cup {-1}
    /\ savedStep = StepOf(DiskSeq)
    /\ pendingStep = NoFile
    /\ runFrom = Down

-----------------------------------------------------------------------------
(* The mapping.                                                             *)

LEMMA MinIs ==
    ASSUME NEW S \in SUBSET Int, NEW m \in S, \A x \in S : m <= x
    PROVE  Min(S) = m
<1>1. Min(S) \in S /\ \A x \in S : Min(S) <= x
  BY DEF Min
<1>2. Min(S) \in Int /\ m \in Int /\ Min(S) <= m /\ m <= Min(S)
  BY <1>1
<1> QED BY <1>2

LEMMA MaxIs ==
    ASSUME NEW S \in SUBSET Int, NEW m \in S, \A x \in S : m >= x
    PROVE  Max(S) = m
<1>1. Max(S) \in S /\ \A x \in S : Max(S) >= x
  BY DEF Max
<1>2. Max(S) \in Int /\ m \in Int /\ Max(S) >= m /\ m >= Max(S)
  BY <1>1
<1> QED BY <1>2

(* Numbers no two of which are more than one apart have a least and a       *)
(* greatest one among them.                                                 *)
LEMMA Adjacent ==
    ASSUME NEW S \in SUBSET Int, S # {}, \A x, y \in S : x <= y + 1
    PROVE  /\ \E m \in S : \A x \in S : m <= x
           /\ \E m \in S : \A x \in S : m >= x
<1> PICK w \in S : TRUE
  OBVIOUS
<1>1. \E m \in S : \A x \in S : m <= x
  <2>1. CASE \E v \in S : v < w
    <3> PICK v \in S : v < w
      BY <2>1
    <3>1. \A x \in S : v <= x
      <4> SUFFICES ASSUME NEW x \in S PROVE v <= x
        OBVIOUS
      <4>1. w <= x + 1 /\ v \in Int /\ w \in Int /\ x \in Int
        OBVIOUS
      <4> QED BY <4>1
    <3> QED BY <3>1
  <2>2. CASE \A v \in S : ~(v < w)
    <3>1. \A x \in S : w <= x
      BY <2>2
    <3> QED BY <3>1
  <2> QED BY <2>1, <2>2
<1>2. \E m \in S : \A x \in S : m >= x
  <2>1. CASE \E v \in S : v > w
    <3> PICK v \in S : v > w
      BY <2>1
    <3>1. \A x \in S : v >= x
      <4> SUFFICES ASSUME NEW x \in S PROVE v >= x
        OBVIOUS
      <4>1. x <= w + 1 /\ v \in Int /\ w \in Int /\ x \in Int
        OBVIOUS
      <4> QED BY <4>1
    <3> QED BY <3>1
  <2>2. CASE \A v \in S : ~(v > w)
    <3>1. \A x \in S : w >= x
      BY <2>2
    <3> QED BY <3>1
  <2> QED BY <2>1, <2>2
<1> QED BY <1>1, <1>2

(* What a rank has written is its sequence number or the one before.        *)
LEMMA WrittenType ==
    ASSUME TypeInv, Control, up, NEW r \in Rank
    PROVE  /\ Written(r) \in Step \cup {-1} /\ Written(r) \in Int /\ seq[r] \in Int
           /\ seq[r] \in {Written(r), Written(r) + 1}
           /\ seq[r] = Written(r) + 1 <=> pc[r] \in Saving
           /\ Written(r) >= Base
<1>1. seq[r] \in Step \cup {-1} /\ seq[r] \in Int /\ seq[r] >= -1 /\ seq[r] >= Base
  BY PlaceBounds DEF TypeInv, TypeOK
<1>2. Base \in Int
  BY MarkersAssumption, MetaType DEF Base, TypeInv, TypeOK, Restored
<1>3. CASE pc[r] \in Saving
  <2>1. Written(r) = seq[r] - 1 /\ seq[r] \in Step /\ seq[r] > Base
    BY <1>3, PlaceBounds DEF Written
  <2>2. seq[r] - 1 \in Step \cup {-1}
    BY <2>1, BoundsAssumption DEF Step
  <2> QED BY <1>1, <1>2, <1>3, <2>1, <2>2
<1>4. CASE pc[r] \notin Saving
  <2>1. Written(r) = seq[r]
    BY <1>4 DEF Written
  <2> QED BY <1>1, <1>2, <1>4, <2>1
<1> QED BY <1>3, <1>4

LEMMA MarksHold == TypeInv /\ Control /\ up => Marks
<1> SUFFICES ASSUME TypeInv, Control, up PROVE Marks
  OBVIOUS
<1> DEFINE W == {Written(r) : r \in Rank}
           S == {seq[r] : r \in Rank}
<1>1. W \in SUBSET Int /\ S \in SUBSET Int /\ W # {} /\ S # {}
  BY WrittenType, RootIsRank
<1>2. ASSUME NEW q \in Rank, NEW r \in Rank
      PROVE  seq[q] <= Written(r) + 1 /\ Written(q) <= Written(r) + 1 /\ seq[q] <= seq[r] + 1
  <2>1. seq[q] <= seq[r] + 1 /\ (seq[q] = seq[r] + 1 => pc[r] \in {"monitor", "advance"})
    BY SeqGap
  <2>2. pc[r] \in {"monitor", "advance"} => pc[r] \notin Saving
    BY DEF Saving
  <2>3. CASE pc[r] \in Saving
    <3>1. seq[r] = Written(r) + 1 /\ seq[q] # seq[r] + 1
      BY <2>1, <2>2, <2>3, WrittenType
    <3> QED BY <2>1, <3>1, WrittenType
  <2>4. CASE pc[r] \notin Saving
    <3>1. seq[r] = Written(r)
      BY <2>4, WrittenType
    <3> QED BY <2>1, <3>1, WrittenType
  <2> QED BY <2>3, <2>4
<1>a. (\A x, y \in W : x <= y + 1) /\ (\A x, y \in S : x <= y + 1)
  BY <1>2
<1>b. /\ \E l \in W : \A x \in W : l <= x
      /\ \E h \in S : \A x \in S : h >= x
  <2> HIDE DEF W, S
  <2> QED BY <1>1, <1>a, Adjacent
<1>3. PICK l \in W : \A x \in W : l <= x
  BY <1>b
<1>4. PICK h \in S : \A x \in S : h >= x
  BY <1>b
<1>5. AllWritten = l /\ Begun = h
  BY <1>1, <1>3, <1>4, MinIs, MaxIs DEF AllWritten, Begun
<1>6. /\ \A r \in Rank : AllWritten <= Written(r) /\ seq[r] <= Begun
      /\ \E r \in Rank : Written(r) = AllWritten
      /\ \E r \in Rank : seq[r] = Begun
  BY <1>1, <1>3, <1>4, <1>5
<1>7. AllWritten \in Step \cup {-1} /\ Begun \in Step \cup {-1}
  BY <1>6, WrittenType DEF TypeInv, TypeOK
<1>8. Begun \in {AllWritten, AllWritten + 1}
  <2>1. PICK q \in Rank : seq[q] = Begun
    BY <1>6
  <2>2. PICK r \in Rank : Written(r) = AllWritten
    BY <1>6
  <2>3. Begun <= AllWritten + 1
    BY <1>2, <2>1, <2>2
  <2>4. AllWritten <= Written(q) /\ Written(q) <= seq[q]
    BY <1>6, WrittenType
  <2>5. AllWritten \in Int /\ Begun \in Int /\ Written(q) \in Int
    BY <2>1, <2>2, WrittenType
  <2> QED BY <2>1, <2>3, <2>4, <2>5
<1> QED BY <1>6, <1>7, <1>8 DEF Marks

(* In a running job the store's saved step is that of the last save all     *)
(* ranks have finished, and a save is in progress if some rank began one.   *)
LEMMA RunningMapHolds == TypeInv /\ IInv /\ up => RunningMap
<1> SUFFICES ASSUME TypeInv, Control, Files, up PROVE RunningMap
  BY DEF IInv
<1>1. Marks
  BY MarksHold
<1>2. savedStep = StepOf(AllWritten)
  <2>1. CASE AllWritten = -1
    BY <2>1 DEF savedStep, StepOf
  <2>2. CASE AllWritten # -1
    <3> DEFINE n == AllWritten
    <3>1. n \in Step /\ n \in Int /\ n <= Written(Root) /\ 1 \in Object
      BY <1>1, <2>2, RootIsRank, StepType, ObjectsAssumption DEF Marks, Object
    <3>2. n < seq[Root] \/ (n = seq[Root] /\ pc[Root] \notin Saving)
      BY <3>1, WrittenType, RootIsRank
    <3>3. pc[Root] \notin Saving => pc[Root] \in {"monitor", "advance"}
      BY RootIsRank DEF Control, Position, Placed, TypeInv, TypeOK, PC
    <3>4. disk[n][FileOf(1, Root)] \in Step
      BY <3>1, <3>2, <3>3, RootIsRank DEF Files, Progress, Done
    <3>5. disk[n][FileOf(1, Root)] = n * Interval
      BY <3>1, <3>4, FileType, RootIsRank DEF Files, DiskStep
    <3> QED BY <2>2, <3>5 DEF savedStep, StepOf
  <2> QED BY <2>1, <2>2
<1>3. pendingStep = IF Begun = AllWritten THEN NoFile ELSE StepOf(Begun)
  <2>1. AllWritten \in Int /\ Begun \in Int /\ AllWritten >= -1
    BY <1>1, BoundsAssumption DEF Marks, Step
  <2>2. CASE Begun = AllWritten
    BY <2>1, <2>2 DEF pendingStep
  <2>3. CASE Begun = AllWritten + 1
    <3> DEFINE r == CHOOSE r \in Rank : seq[r] = Begun
    <3>1. r \in Rank /\ seq[r] = Begun
      BY <1>1 DEF Marks
    <3>2. Begun >= 0 /\ Begun > AllWritten /\ Begun # -1 /\ Begun # AllWritten
      BY <2>1, <2>3
    <3>3. timeStep[r] = Begun * Interval
      BY <3>1, <3>2 DEF Control, Position, Placed
    <3> QED BY <3>2, <3>3 DEF pendingStep, StepOf
  <2> QED BY <1>1, <2>2, <2>3 DEF Marks
<1>4. runFrom \in SUBSET Step
  <2>1. CASE restored = NoFile
    BY <2>1 DEF runFrom
  <2>2. CASE restored # NoFile
    <3>1. restored \in Restored
      BY <2>2 DEF TypeInv, TypeOK
    <3>2. restored.meta.step \in Step /\ \A f \in File : restored.from[f] \in Step
      BY <3>1 DEF Restored, Meta
    <3> QED BY <2>2, <3>2 DEF runFrom
  <2> QED BY <2>1, <2>2
<1> QED BY <1>1, <1>2, <1>3, <1>4 DEF RunningMap

(* While no job runs, the saved step is that of the file which the next job *)
(* resumes from.                                                            *)
LEMMA StoppedMapHolds == TypeInv /\ IInv /\ ~up => StoppedMap
<1> SUFFICES ASSUME TypeInv, Control, ~up PROVE StoppedMap
  BY DEF IInv
<1>1. ASSUME NEW m, Usable(m)
      PROVE  m \in Meta /\ m.seq \in Step /\ m.seq # -1
  BY <1>1, MetaType DEF Usable
<1>2. /\ Usable(rst) => rst.step = rst.seq * Interval
      /\ Usable(bak) => bak.step = bak.seq * Interval
  BY <1>1 DEF Control, MetaStep
<1>3. DiskSeq \in Step \cup {-1}
  BY <1>1 DEF DiskSeq
<1>4. OnDisk = StepOf(DiskSeq)
  <2>1. CASE Usable(rst)
    BY <1>1, <1>2, <2>1 DEF OnDisk, DiskSeq, StepOf
  <2>2. CASE ~Usable(rst) /\ Usable(bak)
    BY <1>1, <1>2, <2>2 DEF OnDisk, DiskSeq, StepOf
  <2>3. CASE ~Usable(rst) /\ ~Usable(bak)
    BY <2>3 DEF OnDisk, DiskSeq, StepOf
  <2> QED BY <2>1, <2>2, <2>3
<1> QED BY <1>3, <1>4 DEF StoppedMap, savedStep, pendingStep, runFrom

(* When a job is killed, the next one resumes at the save all ranks have    *)
(* finished, or at the one that was in progress.                            *)
LEMMA DiskSeqBetween ==
    ASSUME TypeInv, IInv, up
    PROVE  DiskSeq \in {AllWritten, Begun}
<1> DEFINE n == seq[Root]
<1>1. /\ n \in Int /\ n >= -1 /\ n >= Base /\ Base \in Int /\ Base >= -1
      /\ n \in Step \cup {-1}
  BY PlaceBounds, RootIsRank, MarkersAssumption, MetaType DEF IInv, Base, TypeInv, TypeOK, Restored
<1>2. /\ AllWritten \in Int /\ Begun \in Int /\ Begun \in {AllWritten, AllWritten + 1}
      /\ AllWritten <= Written(Root) /\ n <= Begun /\ AllWritten >= -1
  BY MarksHold, RootIsRank, BoundsAssumption DEF IInv, Marks, Step
<1>3. n \in {Written(Root), Written(Root) + 1} /\ (n = Written(Root) + 1 <=> pc[Root] \in Saving)
      /\ Written(Root) \in Int
  BY WrittenType, RootIsRank DEF IInv
<1>4. n \in {AllWritten, AllWritten + 1} /\ (n = AllWritten + 1 => n = Begun)
  BY <1>1, <1>2, <1>3
<1>5. AllDone(n - 1) \/ n - 1 \notin Step
  BY <1>1, RootIsRank DEF IInv, Files, Earlier
<1>6. /\ bak \in Meta => Usable(bak) /\ bak.seq \in Nat
      /\ Usable(bak) => bak \in Meta
      /\ Usable(rst) => rst \in Meta
  BY BackupUsable, MetaType DEF IInv, Usable
<1>7. n = 0 /\ Base < 0 /\ bak \in Meta => bak.seq < 0
  BY <1>1, <1>6 DEF IInv, Files, BackupBehind
<1>8. CASE pc[Root] \in {"backup", "copying", "truncate"}
  <2>1. n = AllWritten + 1
    BY <1>1, <1>2, <1>3, <1>4, <1>8 DEF Saving
  <2>2. CASE rst = NoFile
    BY <1>2, <1>6, <1>8, <2>1, <2>2, MarkersAssumption DEF IInv, Files, RootMeta, BackupBehind, DiskSeq
  <2>3. CASE rst # NoFile
    <3>1. rst \in Meta /\ rst.seq = n - 1 /\ rst.seq \in Step
      BY <1>8, <2>3, MetaType DEF IInv, Files, RootMeta
    <3>2. Usable(rst)
      BY <1>5, <3>1, UsableDone
    <3> QED BY <1>1, <1>2, <2>1, <3>1, <3>2 DEF DiskSeq
  <2> QED BY <2>2, <2>3
<1>9. CASE pc[Root] = "metadata"
  <2>1. n = AllWritten + 1 /\ n > Base
    BY <1>1, <1>2, <1>3, <1>4, <1>9, PlaceBounds, RootIsRank DEF Saving, IInv
  <2>2. ~Usable(rst)
    BY <1>9, <1>6, MarkersAssumption DEF IInv, Files, RootMeta
  <2>3. n >= 1 => bak \in Meta /\ bak.seq = n - 1
    BY <1>9, <2>1 DEF IInv, Recovery, BackupInPlace
  <2> QED BY <1>1, <1>2, <1>6, <1>7, <2>1, <2>2, <2>3 DEF DiskSeq
<1>10. CASE pc[Root] \in {"monitor", "object", "writing", "advance"}
  <2>1. CASE rst = NoFile /\ n = -1
    <3>1. bak \notin Meta /\ ~Usable(rst)
      BY <1>6, <2>1, MarkersAssumption DEF IInv, Files, BackupBehind
    <3>2. AllWritten = -1
      BY <1>1, <1>2, <1>4, <2>1
    <3> QED BY <1>6, <3>1, <3>2 DEF DiskSeq
  <2>2. CASE rst \in Meta /\ rst.seq = n
    <3>1. CASE Usable(rst)
      BY <1>1, <1>2, <1>4, <2>2, <3>1 DEF DiskSeq
    <3>2. CASE ~Usable(rst)
      <4>1. n \in Step /\ ~AllDone(n)
        BY <2>2, <3>2, MetaType, UsableDone
      <4>2. AllWritten < n
        <5> SUFFICES ASSUME n <= AllWritten PROVE AllDone(n)
          BY <1>1, <1>2, <4>1
        <5> SUFFICES ASSUME NEW r \in Rank, NEW o \in Object PROVE disk[n][FileOf(o, r)] \in Step
          BY DEF AllDone, File
        <5>1. n <= Written(r) /\ Written(r) \in Int /\ seq[r] \in Int
          BY <1>1, <1>2, MarksHold, WrittenType DEF Marks, IInv
        <5>2. n < seq[r] \/ (n = seq[r] /\ pc[r] \notin Saving)
          BY <1>1, <5>1, WrittenType DEF IInv
        <5>3. pc[r] \notin Saving => pc[r] \in {"monitor", "advance"}
          BY DEF IInv, Control, Position, Placed, TypeInv, TypeOK, PC
        <5> QED BY <4>1, <5>2, <5>3 DEF IInv, Files, Progress, Done
      <4>3. n = AllWritten + 1 /\ n > Base
        <5>1. PICK r \in Rank : Written(r) = AllWritten
          BY MarksHold DEF Marks, IInv
        <5>2. Written(r) >= Base
          BY WrittenType DEF IInv
        <5> QED BY <1>1, <1>2, <1>4, <4>2, <5>1, <5>2
      <4>4. n >= 1 => bak \in Meta /\ bak.seq = n - 1
        BY <1>10, <4>3 DEF IInv, Recovery, BackupInPlace
      <4> QED BY <1>1, <1>2, <1>6, <1>7, <3>2, <4>1, <4>3, <4>4 DEF DiskSeq
    <3> QED BY <3>1, <3>2
  <2> QED BY <1>10, <2>1, <2>2 DEF IInv, Files, RootMeta
<1> QED
  <2>1. pc[Root] \in Saving \cup {"monitor", "advance"}
    BY RootIsRank DEF IInv, Control, Position, Placed, TypeInv, TypeOK, PC
  <2> QED BY <1>8, <1>9, <1>10, <2>1 DEF Saving

-----------------------------------------------------------------------------
(* The steps.                                                               *)

Mapped == TypeInv /\ IInv /\ (up => RunningMap) /\ (~up => StoppedMap)

LEMMA MappedHolds == TypeInv /\ IInv => Mapped
BY RunningMapHolds, StoppedMapHolds DEF Mapped

(* Later saves are of later steps.                                          *)
LEMMA StepOfMonotone ==
    ASSUME NEW a \in Step \cup {-1}, NEW b \in Step, a < b
    PROVE  StepOf(b) # NoFile /\ (StepOf(a) # NoFile => StepOf(a) < StepOf(b))
<1>1. a \in Int /\ b \in Int /\ b # -1
  BY BoundsAssumption DEF Step
<1>2. a * Interval \in Int /\ b * Interval \in Int /\ a * Interval + Interval <= b * Interval
  BY <1>1, TimesInt, TimesMonotone
<1>3. StepOf(b) = b * Interval /\ StepOf(a) \in {NoFile, a * Interval}
  BY <1>1 DEF StepOf
<1> QED BY <1>2, <1>3, MarkersAssumption, IntervalAssumption

(* A job that starts shows the step of restart.rst; the user's use of the   *)
(* backup changes nothing.                                                  *)
LEMMA LaunchRefines ==
    ASSUME Mapped, Mapped', Launching
    PROVE  Store!Start \/ UNCHANGED Store!vars
<1>1. ~up
  BY DEF Launching, StartFresh, Resume, RecoverFromBackup, StartOver
<1>2. savedStep = StepOf(DiskSeq) /\ pendingStep = NoFile /\ runFrom = Down
  BY <1>1 DEF Mapped, StoppedMap
<1>3. CASE StartFresh
  <2>1. bak \notin Meta /\ rst \notin Meta
    BY <1>3, MarkersAssumption DEF StartFresh, Mapped, IInv, Files, BackupBehind
  <2>2. DiskSeq = -1
    BY <2>1 DEF DiskSeq, Usable
  <2>3. up' /\ restored' = NoFile /\ \A r \in Rank : seq'[r] = -1 /\ pc'[r] \notin Saving
    BY <1>3 DEF StartFresh, Launch, Saving
  <2>4. Marks' /\ RunningMap'
    BY <2>3 DEF Mapped, RunningMap
  <2>5. AllWritten' = -1 /\ Begun' = -1
    BY <2>3, <2>4 DEF Marks, Written
  <2>6. savedStep' = NoFile /\ pendingStep' = NoFile
    BY <2>4, <2>5 DEF RunningMap, StepOf
  <2>7. runFrom' = {}
    BY <2>3 DEF runFrom
  <2> QED BY <1>2, <2>2, <2>6, <2>7 DEF Store!Start, StepOf
<1>4. CASE Resume
  <2>1. rst \in Meta /\ Usable(rst) /\ rst.seq \in Step /\ rst.seq # -1 /\ rst.step = rst.seq * Interval
    BY <1>4, MetaType DEF Resume, Usable, Mapped, IInv, Control, MetaStep
  <2>2. DiskSeq = rst.seq /\ savedStep = rst.step /\ rst.step # NoFile
    BY <1>2, <2>1, MarkersAssumption, MetaType DEF DiskSeq, StepOf
  <2>3. up' /\ restored' = [meta |-> rst, from |-> disk[rst.seq]]
        /\ \A r \in Rank : seq'[r] = rst.seq /\ pc'[r] \notin Saving
    BY <1>4 DEF Resume, Launch, Saving
  <2>4. Marks' /\ RunningMap'
    BY <2>3 DEF Mapped, RunningMap
  <2>5. AllWritten' = rst.seq /\ Begun' = rst.seq
    BY <2>3, <2>4 DEF Marks, Written
  <2>6. savedStep' = rst.step /\ pendingStep' = NoFile
    BY <2>1, <2>4, <2>5 DEF RunningMap, StepOf
  <2>7. \A f \in File : disk[rst.seq][f] = rst.step
    BY <2>1 DEF Usable, Mapped, IInv, Files, DiskStep
  <2>8. restored' # NoFile
    <3>1. disk[rst.seq] \in [File -> Step]
      BY <2>1 DEF Usable, Mapped, TypeInv, TypeOK
    <3>2. restored' \in Restored
      BY <2>1, <2>3, <3>1 DEF Restored
    <3> QED BY <3>2, MarkersAssumption
  <2>9. runFrom' = {rst.step}
    BY <2>3, <2>7, <2>8 DEF runFrom
  <2> QED BY <1>2, <2>2, <2>6, <2>9 DEF Store!Start
<1>5. CASE RecoverFromBackup \/ StartOver
  <2>1. ~up'
    BY <1>1, <1>5 DEF RecoverFromBackup, StartOver, job
  <2>2. DiskSeq' = DiskSeq
    <3>1. CASE RecoverFromBackup
      BY <3>1 DEF RecoverFromBackup, DiskSeq, Usable
    <3>2. CASE StartOver
      BY <3>2, MarkersAssumption DEF StartOver, DiskSeq, Usable
    <3> QED BY <1>5, <3>1, <3>2
  <2>3. savedStep' = savedStep /\ pendingStep' = pendingStep /\ runFrom' = runFrom
    <3>1. StoppedMap'
      BY <2>1 DEF Mapped
    <3> QED BY <1>2, <2>2, <3>1 DEF StoppedMap, StepOf
  <2> QED BY <2>3 DEF Store!vars
<1> QED BY <1>3, <1>4, <1>5 DEF Launching

(* What ranks do without taking a new sequence number at most ends the save *)
(* in progress: when the last of them has written its files.                *)
LEMMA WriteRefines ==
    ASSUME Mapped, Mapped', up, UNCHANGED <<up, seq, restored>>,
           \A r \in Rank : Written(r) <= Written(r)'
    PROVE  Store!EndSave \/ UNCHANGED Store!vars
<1>1. Marks /\ Marks' /\ RunningMap /\ RunningMap'
  BY DEF Mapped, RunningMap
<1>2. runFrom' = runFrom
  BY DEF runFrom
<1>3. /\ AllWritten \in Int /\ AllWritten' \in Int /\ Begun \in Int /\ Begun' \in Int
      /\ AllWritten \in Step \cup {-1} /\ Begun \in Step \cup {-1} /\ AllWritten >= -1
  BY <1>1, BoundsAssumption DEF Marks, Step
<1>4. Begun' = Begun
  <2>1. PICK q \in Rank : seq[q] = Begun
    BY <1>1 DEF Marks
  <2>2. PICK r \in Rank : seq'[r] = Begun'
    BY <1>1 DEF Marks
  <2>3. seq[r] <= Begun /\ seq'[q] <= Begun' /\ seq' = seq
    BY <1>1 DEF Marks
  <2> QED BY <1>3, <2>1, <2>2, <2>3
<1>5. AllWritten <= AllWritten'
  <2>1. PICK r \in Rank : Written(r)' = AllWritten'
    BY <1>1 DEF Marks
  <2>2. AllWritten <= Written(r) /\ Written(r) <= Written(r)' /\ Written(r) \in Int
    BY <1>1, WrittenType DEF Marks, Mapped, IInv
  <2> QED BY <1>3, <2>1, <2>2
<1>6. AllWritten' \in {AllWritten, Begun} /\ (AllWritten' # AllWritten => Begun = AllWritten + 1)
  <2>1. Begun \in {AllWritten, AllWritten + 1} /\ Begun' \in {AllWritten', AllWritten' + 1}
    BY <1>1 DEF Marks
  <2>2. Begun = AllWritten' \/ Begun = AllWritten' + 1
    BY <1>4, <2>1
  <2>3. Begun = AllWritten \/ Begun = AllWritten + 1
    BY <2>1
  <2> DEFINE a == AllWritten  b == Begun  c == AllWritten'
  <2>4. a \in Int /\ b \in Int /\ c \in Int /\ a <= c /\ (b = c \/ b = c + 1) /\ (b = a \/ b = a + 1)
    BY <1>3, <1>5, <2>2, <2>3
  <2> HIDE DEF a, b, c
  <2>5. c \in {a, b} /\ (c # a => b = a + 1)
    BY <2>4
  <2> QED BY <2>5 DEF a, b, c
<1>7. CASE AllWritten' = AllWritten
  BY <1>1, <1>2, <1>4, <1>7 DEF RunningMap, StepOf, Store!vars
<1>8. CASE AllWritten' # AllWritten
  <2>1. AllWritten' = Begun /\ Begun # AllWritten /\ AllWritten < Begun /\ Begun \in Step
    BY <1>3, <1>6, <1>8
  <2>2. pendingStep = StepOf(Begun) /\ savedStep' = StepOf(Begun) /\ pendingStep' = NoFile
    BY <1>1, <1>4, <2>1 DEF RunningMap, StepOf
  <2>3. StepOf(Begun) # NoFile
    BY <1>3, <2>1, StepOfMonotone
  <2> QED BY <1>2, <2>2, <2>3 DEF Store!EndSave
<1> QED BY <1>7, <1>8

(* The first rank that finds a step due begins the save of that step.       *)
LEMMA MonitorRefines ==
    ASSUME Mapped, Mapped', up, NEW r \in Rank, Monitor(r)
    PROVE  (\E s \in Step : Store!BeginSave(s)) \/ Store!EndSave \/ UNCHANGED Store!vars
<1>1. UNCHANGED <<up, restored>> /\ pc[r] = "monitor" /\ pc[r] \notin Saving
  BY DEF Monitor, job, Saving
<1>2. \A q \in Rank : q # r => pc'[q] = pc[q] /\ seq'[q] = seq[q]
  BY DEF Monitor, Goto, Mapped, TypeInv, TypeOK
<1>3. CASE step[r] > timeStep[r] /\ step[r] \in sched
  <2>1. seq'[r] = seq[r] + 1 /\ pc'[r] \in Saving /\ seq[r] \in Int
    BY <1>3, PlaceBounds DEF Monitor, Goto, Saving, Mapped, IInv, TypeInv, TypeOK
  <2>2. \A q \in Rank : Written(q)' = Written(q)
    <3>1. Written(r)' = Written(r)
      BY <1>1, <2>1 DEF Written
    <3> QED BY <1>2, <3>1 DEF Written
  <2>3. Marks /\ Marks' /\ RunningMap /\ RunningMap' /\ runFrom' = runFrom
    BY <1>1 DEF Mapped, RunningMap, runFrom
  <2>4. /\ AllWritten \in Int /\ AllWritten' \in Int /\ Begun \in Int /\ Begun' \in Int
        /\ AllWritten \in Step \cup {-1} /\ Begun' \in Step \cup {-1} /\ AllWritten >= -1
        /\ Begun \in {AllWritten, AllWritten + 1} /\ Begun' \in {AllWritten', AllWritten' + 1}
    <3>1. /\ {AllWritten, AllWritten', Begun, Begun'} \subseteq Step \cup {-1}
          /\ Begun \in {AllWritten, AllWritten + 1} /\ Begun' \in {AllWritten', AllWritten' + 1}
      BY <2>3 DEF Marks
    <3>2. \A n \in Step \cup {-1} : n \in Int /\ n >= -1
      BY BoundsAssumption DEF Step
    <3> QED BY <3>1, <3>2
  <2>5. AllWritten' = AllWritten
    <3>1. PICK p \in Rank : Written(p) = AllWritten
      BY <2>3 DEF Marks
    <3>2. PICK q \in Rank : Written(q)' = AllWritten'
      BY <2>3 DEF Marks
    <3>3. AllWritten <= Written(q) /\ AllWritten' <= Written(p)'
      BY <2>3 DEF Marks
    <3> QED BY <2>2, <2>4, <3>1, <3>2, <3>3
  <2>6. Begun <= Begun' /\ (Begun' # Begun => Begun' = seq'[r])
    <3>1. PICK p \in Rank : seq[p] = Begun
      BY <2>3 DEF Marks
    <3>2. PICK q \in Rank : seq'[q] = Begun'
      BY <2>3 DEF Marks
    <3>3. seq[q] <= Begun /\ seq'[p] <= Begun'
      BY <2>3 DEF Marks
    <3>4. seq[p] <= seq'[p]
      BY <1>2, <2>1, <2>4, <3>1
    <3> QED BY <1>2, <2>1, <2>4, <3>1, <3>2, <3>3, <3>4
  <2>7. CASE Begun' = Begun
    BY <2>3, <2>5, <2>7 DEF RunningMap, StepOf, Store!vars
  <2>8. CASE Begun' # Begun
    <3>1. Begun = AllWritten /\ AllWritten < Begun' /\ Begun' # AllWritten' /\ Begun' \in Step
      BY <2>4, <2>5, <2>6, <2>8
    <3>2. StepOf(Begun') \in Step
      <4>1. seq'[r] = Begun' /\ Begun' >= 0 /\ Begun' # -1
        BY <2>4, <2>6, <2>8, <3>1
      <4>2. timeStep'[r] = Begun' * Interval
        BY <1>1, <4>1 DEF Mapped, IInv, Control, Position, Placed
      <4>3. timeStep'[r] = step'[r] /\ step'[r] \in Step
        BY <2>1 DEF Mapped, TypeInv, TypeOK
      <4> QED BY <4>1, <4>2, <4>3 DEF StepOf
    <3>3. savedStep = NoFile \/ StepOf(Begun') > savedStep
      <4>1. StepOf(AllWritten) = NoFile \/ StepOf(AllWritten) < StepOf(Begun')
        BY <2>4, <3>1, StepOfMonotone
      <4>2. AllWritten * Interval \in Int /\ StepOf(Begun') \in Int
        BY <2>4, <3>2, StepType, TimesInt
      <4>3. savedStep = StepOf(AllWritten)
        BY <2>3 DEF RunningMap
      <4> QED BY <4>1, <4>2, <4>3 DEF StepOf
    <3>4. pendingStep = NoFile /\ savedStep' = savedStep /\ pendingStep' = StepOf(Begun')
      BY <2>3, <2>5, <3>1 DEF RunningMap, StepOf
    <3>5. runFrom # Down
      BY <2>3, DownAssumption DEF RunningMap
    <3>6. Store!BeginSave(StepOf(Begun'))
      BY <2>3, <3>3, <3>4, <3>5 DEF Store!BeginSave, Store!Later
    <3> QED BY <3>2, <3>6
  <2> QED BY <2>7, <2>8
<1>4. CASE ~(step[r] > timeStep[r] /\ step[r] \in sched)
  <2>1. UNCHANGED <<up, seq, restored>> /\ pc'[r] = "advance"
    BY <1>1, <1>4 DEF Monitor, Goto, Mapped, TypeInv, TypeOK
  <2>2. \A q \in Rank : Written(q)' = Written(q)
    BY <1>1, <1>2, <2>1 DEF Written, Saving
  <2>3. \A q \in Rank : Written(q) <= Written(q)'
    BY <1>1, <2>2, WrittenType DEF Mapped, IInv
  <2> QED BY <2>1, <2>3, WriteRefines
<1> QED BY <1>3, <1>4

(* Every other step of a running job leaves the sequence numbers and can    *)
(* only let a rank leave its save.                                          *)
LEMMA RunRefines ==
    ASSUME Mapped, Mapped', up,
           \/ SaveMetadata
           \/ CollectiveStep
           \/ \E r \in Rank : OpenSerial(r) \/ CloseSerial(r) \/ Advance(r)
    PROVE  Store!EndSave \/ UNCHANGED Store!vars
<1>1. UNCHANGED <<up, seq, restored>>
  BY DEF SaveMetadata, SkipBackup, OpenBackup, CloseBackup, TruncateMetadata, WriteMetadata, CollectiveStep,
         OpenCollective, CloseCollective, OpenSerial, CloseSerial, Advance, job
<1>2. ASSUME NEW q \in Rank PROVE pc[q] \notin Saving => pc'[q] \notin Saving
  <2>1. CASE SaveMetadata
    BY <2>1, RootIsRank DEF SaveMetadata, SkipBackup, OpenBackup, CloseBackup, TruncateMetadata, WriteMetadata,
           Goto, Saving, Mapped, TypeInv, TypeOK
  <2>2. CASE CollectiveStep
    <3>1. pc[q] \in {"object", "writing"}
      BY <2>2 DEF CollectiveStep, OpenCollective, CloseCollective, AtObject
    <3> QED BY <3>1 DEF Saving
  <2>3. CASE \E r \in Rank : OpenSerial(r) \/ CloseSerial(r) \/ Advance(r)
    BY <2>3 DEF OpenSerial, CloseSerial, Advance, AtObject, Goto, After, Saving, Mapped, TypeInv, TypeOK
  <2> QED BY <2>1, <2>2, <2>3
<1>3. \A q \in Rank : Written(q) <= Written(q)'
  <2> SUFFICES ASSUME NEW q \in Rank PROVE Written(q) <= Written(q)'
    OBVIOUS
  <2>1. seq[q] \in Int /\ seq'[q] = seq[q]
    BY <1>1, WrittenType DEF Mapped, IInv
  <2>2. Written(q) = (IF pc[q] \in Saving THEN seq[q] - 1 ELSE seq[q])
        /\ Written(q)' = (IF pc'[q] \in Saving THEN seq[q] - 1 ELSE seq[q])
    BY <1>1 DEF Written
  <2> QED BY <1>2, <2>1, <2>2
<1> QED BY <1>1, <1>3, WriteRefines

(* A kill stops the job; the save in progress has taken effect or not.      *)
LEMMA CrashRefines ==
    ASSUME Mapped, Mapped', Crash
    PROVE  Store!Stop
<1>1. up /\ ~up' /\ UNCHANGED durable
  BY DEF Crash
<1>2. DiskSeq' = DiskSeq
  BY <1>1 DEF DiskSeq, Usable, durable
<1>3. DiskSeq \in {AllWritten, Begun}
  BY <1>1, DiskSeqBetween DEF Mapped
<1>4. RunningMap /\ StoppedMap'
  BY <1>1 DEF Mapped
<1>5. runFrom # Down /\ runFrom' = Down /\ pendingStep' = NoFile
  BY <1>4, DownAssumption DEF RunningMap, StoppedMap
<1>6. savedStep' = StepOf(DiskSeq) /\ savedStep = StepOf(AllWritten)
  BY <1>2, <1>4 DEF RunningMap, StoppedMap, StepOf
<1>7. CASE DiskSeq = AllWritten
  BY <1>5, <1>6, <1>7 DEF Store!Stop
<1>8. CASE DiskSeq # AllWritten
  <2>1. DiskSeq = Begun /\ Begun # AllWritten
    BY <1>3, <1>8
  <2>2. Begun \in Step /\ AllWritten < Begun /\ AllWritten \in Step \cup {-1}
    <3>1. AllWritten \in Step \cup {-1} /\ Begun \in Step \cup {-1} /\ Begun = AllWritten + 1
      BY <1>4, <2>1 DEF RunningMap, Marks
    <3>2. \A n \in Step \cup {-1} : n \in Int /\ n >= -1
      BY BoundsAssumption DEF Step
    <3> QED BY <3>1, <3>2
  <2>3. pendingStep = StepOf(Begun) /\ StepOf(Begun) # NoFile
    BY <1>4, <2>1, <2>2, StepOfMonotone DEF RunningMap
  <2> QED BY <1>5, <1>6, <2>1, <2>3 DEF Store!Stop
<1> QED BY <1>7, <1>8

LEMMA NextRefines ==
    ASSUME ~BackupCanFail, Mapped, Mapped', [Next]_vars
    PROVE  [Store!Next]_Store!vars
<1>1. \A r \in Rank : pc[r] # "down" => up
  BY DEF Mapped, IInv, Control, Position, Placed
<1>2. CASE Launching
  BY <1>2, LaunchRefines DEF Store!Next
<1>3. CASE \E r \in Rank : Monitor(r)
  BY <1>1, <1>3, MonitorRefines DEF Store!Next, Monitor
<1>4. CASE \/ SaveMetadata
           \/ CollectiveStep
           \/ \E r \in Rank : OpenSerial(r) \/ CloseSerial(r) \/ Advance(r)
  <2>1. up
    BY <1>1, <1>4, RootIsRank
       DEF SaveMetadata, SkipBackup, OpenBackup, CloseBackup, TruncateMetadata, WriteMetadata, CollectiveStep,
           OpenCollective, CloseCollective, OpenSerial, CloseSerial, AtObject, Advance
  <2> QED BY <1>4, <2>1, RunRefines DEF Store!Next
<1>5. CASE Crash
  BY <1>5, CrashRefines DEF Store!Next
<1>6. CASE UNCHANGED vars
  BY <1>6 DEF vars, durable, job, local, Store!vars, savedStep, pendingStep, runFrom, OnDisk, AllWritten, Begun,
              Written, Usable
<1>7. ~BackupFails
  BY DEF BackupFails
<1> QED BY <1>2, <1>3, <1>4, <1>5, <1>6, <1>7 DEF Next, Program, RankStep, Finished

-----------------------------------------------------------------------------
(* The theorems.                                                            *)

LEMMA MappedInvariant ==
    ASSUME ~BackupCanFail
    PROVE  Spec => []Mapped
BY CheckpointInvariant, MappedHolds, PTL

(* As long as restart.bak can be made, the writer keeps the promise of      *)
(* CheckpointStore: a job starts from exactly the last save that all ranks  *)
(* finished, or from the one that was in progress at the kill.              *)
THEOREM WriterImplementsStore ==
    ASSUME ~BackupCanFail
    PROVE  Spec => ImplementsStore
<1>1. Init => Store!Init
  <2> SUFFICES ASSUME Init PROVE Store!Init
    OBVIOUS
  <2>1. ~up /\ ~Usable(rst) /\ ~Usable(bak)
    BY MarkersAssumption DEF Init, Usable
  <2> QED BY <2>1 DEF Store!Init, savedStep, pendingStep, runFrom, OnDisk
<1>2. Mapped /\ Mapped' /\ [Next]_vars => [Store!Next]_Store!vars
  BY NextRefines
<1> QED BY <1>1, <1>2, MappedInvariant, PTL DEF Spec, ImplementsStore, Store!Spec

(* The step a restart would resume from only grows: no kill, no save that   *)
(* is cut short and no restart gives up what was saved.                     *)
THEOREM SavedStepNeverLost ==
    ASSUME ~BackupCanFail
    PROVE  Spec => SavedNeverLost
<1> DEFINE Kept == savedStep # NoFile => savedStep' # NoFile /\ savedStep' >= savedStep
<1>1. ASSUME Mapped, [Store!Next]_Store!vars
      PROVE  [Kept]_Store!vars
  <2>1. savedStep # NoFile => savedStep \in Int /\ savedStep >= savedStep
    <3>1. savedStep \in {StepOf(AllWritten), StepOf(DiskSeq)}
          /\ (up => AllWritten \in Step \cup {-1}) /\ (~up => DiskSeq \in Step \cup {-1})
          /\ (up => savedStep = StepOf(AllWritten)) /\ (~up => savedStep = StepOf(DiskSeq))
      BY <1>1 DEF Mapped, RunningMap, StoppedMap, Marks
    <3>2. \A n \in Step \cup {-1} : StepOf(n) # NoFile => StepOf(n) \in Int
      BY BoundsAssumption, TimesInt DEF StepOf, Step
    <3>3. savedStep # NoFile => savedStep \in Int
      BY <3>1, <3>2
    <3> QED BY <3>3
  <2>2. pendingStep # NoFile /\ savedStep # NoFile => pendingStep > savedStep
    <3>1. CASE ~up
      BY <1>1, <3>1 DEF Mapped, StoppedMap
    <3>2. CASE up /\ Begun = AllWritten
      BY <1>1, <3>2 DEF Mapped, RunningMap
    <3>3. CASE up /\ Begun # AllWritten
      <4>1. AllWritten \in Step \cup {-1} /\ Begun \in Step \cup {-1} /\ Begun = AllWritten + 1
        BY <1>1, <3>3 DEF Mapped, RunningMap, Marks
      <4>2. \A n \in Step \cup {-1} : n \in Int /\ n >= -1
        BY BoundsAssumption DEF Step
      <4>3. Begun \in Step /\ AllWritten < Begun
        BY <4>1, <4>2
      <4>4. StepOf(AllWritten) # NoFile => StepOf(AllWritten) < StepOf(Begun)
        BY <4>1, <4>3, StepOfMonotone
      <4>5. savedStep = StepOf(AllWritten) /\ pendingStep = StepOf(Begun)
        BY <1>1, <3>3 DEF Mapped, RunningMap
      <4>6. savedStep # NoFile => StepOf(AllWritten) \in Int /\ StepOf(Begun) \in Int
        BY <4>1, <4>2, <4>5, TimesInt DEF StepOf
      <4> QED BY <4>4, <4>5, <4>6
    <3> QED BY <3>1, <3>2, <3>3
  <2>3. savedStep' = savedStep \/ (pendingStep # NoFile /\ savedStep' = pendingStep)
    BY <1>1 DEF Store!Next, Store!BeginSave, Store!EndSave, Store!Start, Store!Stop, Store!vars
  <2>4. pendingStep # NoFile => pendingStep \in Int
    <3>1. pendingStep # NoFile => pendingStep = StepOf(Begun) /\ Begun \in Step \cup {-1}
      BY <1>1 DEF Mapped, RunningMap, StoppedMap, Marks
    <3>2. \A n \in Step \cup {-1} : StepOf(n) # NoFile => StepOf(n) \in Int
      BY BoundsAssumption, TimesInt DEF StepOf, Step
    <3> QED BY <3>1, <3>2
  <2> QED BY <2>1, <2>2, <2>3, <2>4
<1>2. Mapped /\ [Store!Next]_Store!vars => [Kept]_Store!vars
  BY <1>1
<1> QED BY <1>2, MappedInvariant, WriterImplementsStore, PTL
        DEF SavedNeverLost, Store!NeverLost, ImplementsStore, Store!Spec
=============================================================================
