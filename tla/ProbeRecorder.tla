---------------------------- MODULE ProbeRecorder ----------------------------
(***************************************************************************)
(* ablate::monitors::Probes and its ProbeRecorder (src/monitors/probes.cpp):*)
(* samples of the solution at a point, collected in a buffer and appended  *)
(* to a csv file, over several jobs.  A job resumes at the step that the   *)
(* serializer saved last, so it computes again samples that an earlier job *)
(* has recorded; lastOutputTime, read back from the file, keeps them out.  *)
(* The serializer is the first monitor of a step, the probes come later.   *)
(***************************************************************************)
EXTENDS Integers, FiniteSetsExt, SequencesExt

CONSTANTS
    BufferSize,  \* rows kept before the file is written
    Due,         \* the steps at which the probes' interval is met
    Saves,       \* the steps at which the serializer's interval is met
    Dt,          \* simulation time of one step
    Grain,       \* the csv file holds times rounded to multiples of this (1: exactly)
    CutTimes,    \* what the time of a row that was cut short may read as
    MaxStep,     \* bound: ts_max_steps of the last job
    MaxKills,    \* bound: how many jobs are killed
    MaxStops     \* bound: how many jobs end before MaxStep

ASSUME SizeAssumption  == BufferSize \in Nat \ {0}
ASSUME StepsAssumption == MaxStep \in Nat /\ Due \subseteq 0..MaxStep /\ Saves \subseteq 0..MaxStep
ASSUME TimeAssumption  == {Dt, Grain} \subseteq Nat \ {0} /\ CutTimes \subseteq Nat
ASSUME ProbeBoundsAssumption == MaxKills \in Nat /\ MaxStops \in Nat

Step   == 0..MaxStep
NoTime == -1    \* PETSC_MIN_REAL
Cut    == -1    \* the value of a row that was cut short

Time(s) == s * Dt

(* operator<< on a double: six digits, rounded.                             *)
Printed(t) == ((t + Grain \div 2) \div Grain) * Grain

VARIABLES
    file,            \* the rows of the csv file: what they show as time, and the sample they hold
    saved,           \* the step of the last checkpoint, -1 if there is none
    kills, stops,    \* how many jobs were killed, and how many ended before MaxStep
    pc, step,        \* where the job is
    lastOutputTime,
    activeIndex, timeHistory, buffer

stored == <<file, saved>>
memory == <<lastOutputTime, activeIndex, timeHistory, buffer>>
vars   == <<stored, kills, stops, pc, step, memory>>

Index == 0..BufferSize - 1

Init ==
    /\ file = <<>> /\ saved = -1
    /\ kills = 0 /\ stops = 0
    /\ pc = "down" /\ step = 0
    /\ lastOutputTime = NoTime /\ activeIndex = -1
    /\ timeHistory = [i \in Index |-> 0] /\ buffer = [i \in Index |-> 0]

-----------------------------------------------------------------------------
(* The ProbeRecorder.                                                       *)

(* The constructor: the largest number found at the start of a line.  A row *)
(* that was cut short reads as some other time.                             *)
ReadBack(rows) ==
    LET whole == {rows[i].time : i \in {j \in DOMAIN rows : rows[j].value # Cut}}
        cut   == IF \E i \in DOMAIN rows : rows[i].value = Cut THEN CutTimes ELSE {NoTime}
    IN {Max(whole \cup {t, NoTime}) : t \in cut}

Rows == [i \in 1..activeIndex + 1 |-> [time |-> Printed(timeHistory[i - 1]), value |-> buffer[i - 1]]]

(* Rows are appended to the text that is there: after a row without its     *)
(* end, the first new row continues the same line.                          *)
Appended(rows) ==
    IF file # <<>> /\ Last(file).value = Cut /\ rows # <<>> THEN file \o Tail(rows) ELSE file \o rows

(* Where a kill may leave the file while rows are being appended.           *)
PartlyAppended ==
    {Appended(SubSeq(Rows, 1, n)) : n \in 0..Len(Rows)}
        \cup {Appended(Append(SubSeq(Rows, 1, n - 1), [time |-> t, value |-> Cut])) :
                  n \in 1..Len(Rows), t \in CutTimes}

(* Variants: the same time is taken again; the row is set up before the     *)
(* full buffer is written.                                                  *)
AdvanceTimeAgain(time) ==
    IF time >= lastOutputTime
      THEN LET full == activeIndex + 1 >= BufferSize
               i    == IF full THEN 0 ELSE activeIndex + 1
           IN /\ file' = IF full THEN Appended(Rows) ELSE file
              /\ activeIndex' = i
              /\ lastOutputTime' = time
              /\ timeHistory' = [timeHistory EXCEPT ![i] = time]
      ELSE UNCHANGED <<file, activeIndex, lastOutputTime, timeHistory>>

AdvanceTimeEarly(time) ==
    IF time > lastOutputTime
      THEN LET i == activeIndex + 1
               now == [timeHistory EXCEPT ![i] = time]
           IN /\ timeHistory' = now
              /\ lastOutputTime' = time
              /\ IF i + 1 >= BufferSize
                   THEN /\ file' = Appended([j \in 1..BufferSize |->
                                       [time |-> Printed(now[j - 1]), value |-> buffer[j - 1]]])
                        /\ activeIndex' = -1
                   ELSE /\ activeIndex' = i
                        /\ UNCHANGED file
      ELSE UNCHANGED <<file, activeIndex, lastOutputTime, timeHistory>>

(* A full buffer is written before the next row is begun; a time that is    *)
(* not later than the last one begins no row.                               *)
AdvanceTime(time) ==
    IF time > lastOutputTime
      THEN LET full == activeIndex + 1 >= BufferSize
               i    == IF full THEN 0 ELSE activeIndex + 1
           IN /\ file' = IF full THEN Appended(Rows) ELSE file
              /\ activeIndex' = i
              /\ lastOutputTime' = time
              /\ timeHistory' = [timeHistory EXCEPT ![i] = time]
      ELSE UNCHANGED <<file, activeIndex, lastOutputTime, timeHistory>>

(* Variant: the index is not tested; with nothing in the buffer it is -1.   *)
SetValueUnguarded ==
    buffer' = [i \in Index \cup {activeIndex} |-> IF i = activeIndex THEN step ELSE buffer[i]]

(* The sample of a step is named by the step.                               *)
SetValue == buffer' = IF activeIndex >= 0 THEN [buffer EXCEPT ![activeIndex] = step] ELSE buffer

-----------------------------------------------------------------------------
(* A job.                                                                   *)

(* Register builds the recorder, RestoreTS sets the step.                   *)
Launch ==
    /\ pc = "down"
    /\ lastOutputTime' \in ReadBack(file)
    /\ activeIndex' = -1
    /\ timeHistory' = [i \in Index |-> 0] /\ buffer' = [i \in Index |-> 0]
    /\ step' = Max({saved, 0})
    /\ pc' = "save"
    /\ UNCHANGED <<stored, kills, stops>>

(* The serializer, the first monitor: a step that is due is saved once.     *)
Save ==
    /\ pc = "save"
    /\ saved' = IF step > saved /\ step \in Saves THEN step ELSE saved
    /\ pc' = "probe"
    /\ UNCHANGED <<file, kills, stops, step, memory>>

(* UpdateProbes: the time of the row, then its values.                      *)
UpdateProbes ==
    /\ pc = "probe"
    /\ IF step \in Due
         THEN AdvanceTime(Time(step)) /\ pc' = "values"
         ELSE UNCHANGED <<file, activeIndex, lastOutputTime, timeHistory>> /\ pc' = "stepping"
    /\ UNCHANGED <<saved, kills, stops, step, buffer>>

Record ==
    /\ pc = "values"
    /\ SetValue
    /\ pc' = "stepping"
    /\ UNCHANGED <<stored, kills, stops, step, lastOutputTime, activeIndex, timeHistory>>

Advance ==
    /\ pc = "stepping" /\ step < MaxStep
    /\ step' = step + 1
    /\ pc' = "save"
    /\ UNCHANGED <<stored, kills, stops, memory>>

(* TSSolve is called once more by SteadyStateStepper: it begins with the    *)
(* monitors of the step it is at.                                           *)
SolveAgain ==
    /\ pc = "stepping"
    /\ pc' = "save"
    /\ UNCHANGED <<stored, kills, stops, step, memory>>

(* Variant: the destructor does not write the buffer.                       *)
CloseUnwritten ==
    /\ pc = "stepping"
    /\ \/ step = MaxStep /\ pc' = "done" /\ UNCHANGED stops
       \/ step < MaxStep /\ stops < MaxStops /\ pc' = "down" /\ stops' = stops + 1
    /\ activeIndex' = -1
    /\ UNCHANGED <<stored, kills, step, lastOutputTime, timeHistory, buffer>>

(* The job ends, at MaxStep or at a lower ts_max_steps of its own: the      *)
(* destructor writes the buffer.                                            *)
Close ==
    /\ pc = "stepping"
    /\ \/ step = MaxStep /\ pc' = "done" /\ UNCHANGED stops
       \/ step < MaxStep /\ stops < MaxStops /\ pc' = "down" /\ stops' = stops + 1
    /\ file' = Appended(Rows)
    /\ activeIndex' = -1
    /\ UNCHANGED <<saved, kills, step, lastOutputTime, timeHistory, buffer>>

(* About to append the buffer to the file.                                  *)
Writing ==
    \/ pc = "probe" /\ step \in Due /\ Time(step) > lastOutputTime /\ activeIndex + 1 >= BufferSize
    \/ pc = "stepping"

(* The job is killed; if it was writing, a part of the rows is in the file. *)
Kill ==
    /\ pc \notin {"down", "done"} /\ kills < MaxKills
    /\ kills' = kills + 1
    /\ pc' = "down"
    /\ activeIndex' = -1
    /\ file' \in {file} \cup (IF Writing THEN PartlyAppended ELSE {})
    /\ UNCHANGED <<saved, stops, step, lastOutputTime, timeHistory, buffer>>

Done == pc = "done" /\ UNCHANGED vars

Next ==
    \/ Launch \/ Save \/ UpdateProbes \/ Record \/ Advance \/ SolveAgain \/ Close
    \/ Kill \/ Done

Spec == Init /\ [][Next]_vars

(* A job goes on: its monitors run, and TSSolve is repeated only finitely   *)
(* often before the step advances or the job ends.                          *)
FairSpec ==
    /\ Spec
    /\ WF_vars(Launch \/ Save \/ UpdateProbes \/ Record)
    /\ SF_vars(Advance) /\ SF_vars(Close)

-----------------------------------------------------------------------------
(* Properties.                                                              *)

Whole == {i \in DOMAIN file : file[i].value # Cut}

InFile   == {file[i].value : i \in Whole}
InBuffer == {buffer[i] : i \in 0..activeIndex}
Passed   == {s \in Due : s < step \/ (s = step /\ pc = "stepping")}

TypeOK ==
    /\ file \in Seq([time : Nat, value : Step \cup {Cut}])
    /\ saved \in Step \cup {-1} /\ kills \in 0..MaxKills /\ stops \in 0..MaxStops
    /\ pc \in {"down", "save", "probe", "values", "stepping", "done"} /\ step \in Step
    /\ lastOutputTime \in Nat \cup {NoTime} /\ activeIndex \in Index \cup {-1}
    /\ timeHistory \in [Index -> Nat] /\ buffer \in [Index -> Step]

(* The rows are in the order of the steps and no sample is there twice,     *)
(* however often jobs were stopped, killed and resumed at an earlier step.  *)
RowsIncrease == \A i, j \in Whole : i < j => file[i].value < file[j].value

(* Every row shows the time of the sample it holds.                         *)
RowsTrue == \A i \in Whole : file[i].time = Printed(Time(file[i].value))

(* Samples are lost only by a kill, and a kill loses one buffer at most; a  *)
(* job that ends loses none.  A row that was cut short may read as a later  *)
(* time than it had, and what comes before that time is then not recorded.  *)
CutRow == \E i \in DOMAIN file : file[i].value = Cut

LossBounded ==
    ~ CutRow /\ pc \notin {"down", "done"} =>
        Cardinality(Passed \ (InFile \cup InBuffer)) <= kills * BufferSize

(* In the end everything else is in the file.                               *)
EventuallyRecorded == <>[](CutRow \/ Cardinality(Due \ InFile) <= kills * BufferSize)
=============================================================================
