------------------------- MODULE ProbeRecorder_proofs -------------------------
(***************************************************************************)
(* What the probes' csv file holds after any number of jobs, whether they  *)
(* ended or were killed, for every buffer size, interval and bound.        *)
(***************************************************************************)
EXTENDS ProbeRecorder, TLAPS, FiniteSetTheorems, WellFoundedInduction

Up == pc \notin {"down", "done"}

(* The samples that the rows of the buffer are for.                         *)
Begun == {s \in Step : \E i \in 0..activeIndex : timeHistory[i] = Time(s)}

(* A row of the buffer shows the time of the sample it holds, but for the   *)
(* last one between AdvanceTime and SetValue: its time is the step's, also  *)
(* when the step is solved again and AdvanceTime began no new row.          *)
BufferInv ==
    /\ ~Up => activeIndex = -1
    /\ \A i \in 0..activeIndex :
           (pc = "values" /\ i = activeIndex) \/ timeHistory[i] = Time(buffer[i])
    /\ activeIndex >= 0 => lastOutputTime = timeHistory[activeIndex] /\ lastOutputTime <= Time(step)
    /\ pc = "values" =>
           /\ step \in Due /\ Time(step) <= lastOutputTime
           /\ activeIndex >= 0 => timeHistory[activeIndex] = Time(step)

(* The digits that are written suffice for the times of the steps.          *)
PrintedExactly == \A s \in Step : Printed(Time(s)) = Time(s)

(* Times increase along the file and from there along the buffer, and       *)
(* lastOutputTime is not before any of them.                                *)
OrderInv ==
    /\ \A i, j \in Whole : i < j => file[i].time < file[j].time
    /\ \A i \in Whole, j \in 0..activeIndex : file[i].time < timeHistory[j]
    /\ \A i, j \in 0..activeIndex : i < j => timeHistory[i] < timeHistory[j]
    /\ Up => \A i \in Whole : file[i].time <= lastOutputTime

(* The samples that this job or an earlier one has been asked for.          *)
Asked(s) ==
    \/ s < saved
    \/ \E i \in Whole : Time(s) <= file[i].time
    \/ Up /\ (s \in Passed \/ Time(s) <= lastOutputTime)

(* What is neither in the file nor in the buffer was in the buffer of a job *)
(* that was killed.                                                         *)
Covered(lost) == \A s \in Due : Asked(s) => s \in InFile \cup Begun \cup lost

LossInv ==
    /\ Up => saved <= step
    /\ ~CutRow => \E lost \in SUBSET Step : Cardinality(lost) <= kills * BufferSize /\ Covered(lost)

IInv == TypeOK /\ RowsTrue /\ BufferInv

-----------------------------------------------------------------------------
(* Times.                                                                   *)

LEMMA StepType == Step \subseteq Nat /\ 0 \in Step /\ MaxStep \in Step /\ Cut \notin Step
BY StepsAssumption DEF Step, Cut

LEMMA TimeType ==
    ASSUME NEW s \in Nat
    PROVE  Time(s) \in Nat
BY TimeAssumption DEF Time

LEMMA TimeGrows ==
    ASSUME NEW s \in Nat, NEW t \in Nat
    PROVE  s < t <=> Time(s) < Time(t)
<1>1. Dt \in Nat /\ Dt >= 1
    BY TimeAssumption
<1>2. ASSUME NEW a \in Nat, NEW b \in Nat, a < b PROVE a * Dt < b * Dt
  <2>1. PICK n \in Nat : b = a + n /\ n >= 1
      BY <1>2
  <2>2. b * Dt = a * Dt + n * Dt /\ n * Dt >= 1 /\ a * Dt \in Nat /\ n * Dt \in Nat
      BY <1>1, <2>1
  <2> QED BY <2>2
<1>3. CASE s < t
    BY <1>2, <1>3 DEF Time
<1>4. CASE s = t
    BY <1>1, <1>4 DEF Time
<1>5. CASE t < s
  <2>1. t * Dt < s * Dt /\ t * Dt \in Nat /\ s * Dt \in Nat
      BY <1>1, <1>2, <1>5
  <2> QED BY <1>5, <2>1 DEF Time
<1> QED BY <1>3, <1>4, <1>5

(* What is written is a time, not more than one grain later.                *)
LEMMA PrintedType ==
    ASSUME NEW t \in Nat
    PROVE  Printed(t) \in Nat /\ Printed(t) <= t + Grain
<1>1. Grain \in Nat /\ Grain >= 1 /\ Grain \div 2 \in Nat /\ Grain \div 2 <= Grain
    BY TimeAssumption
<1> DEFINE a == t + Grain \div 2
           q == a \div Grain
<1>2. a \in Nat /\ a <= t + Grain
    BY <1>1
<1> HIDE DEF a
<1>3. q \in Int /\ Grain * q <= a /\ a < Grain * (q + 1)
    BY <1>1, <1>2
<1> HIDE DEF q
<1>4. q >= 0
  <2>1. SUFFICES ASSUME q + 1 <= 0 PROVE FALSE
      BY <1>3
  <2>2. Grain * (q + 1) <= 0
      BY <1>1, <1>3, <2>1
  <2> QED BY <1>1, <1>2, <1>3, <2>2
<1>5. q * Grain \in Nat /\ q * Grain = Grain * q
    BY <1>1, <1>3, <1>4
<1>6. Printed(t) = q * Grain
    BY DEF Printed, q, a
<1> QED BY <1>1, <1>2, <1>3, <1>5, <1>6

LEMMA NatsWellFounded == IsWellFoundedOn({ss \in Nat \X Nat : ss[1] < ss[2]}, Nat)
BY NatLessThanWellFounded DEF OpToRel

(* Among times that are bounded there is a latest one.                      *)
LEMMA Latest ==
    ASSUME NEW S \in SUBSET (Nat \cup {NoTime}), S # {}, NEW n \in Nat, \A x \in S : x <= n
    PROVE  Max(S) \in S /\ \A x \in S : x <= Max(S)
<1> DEFINE T == {n - x : x \in S}
           R == {ss \in Nat \X Nat : ss[1] < ss[2]}
<1>1. \A x \in S : x \in Int /\ x <= n /\ n - x \in Nat
    BY DEF NoTime
<1>2. T \subseteq Nat /\ T # {}
    BY <1>1
<1>3. PICK t \in T : \A u \in T : ~ (<<u, t>> \in R)
  <2> HIDE DEF T, R
  <2>1. IsWellFoundedOn(R, Nat)
      BY NatsWellFounded DEF R
  <2> QED BY <1>2, <2>1, WFMin
<1>4. PICK m \in S : t = n - m
    OBVIOUS
<1>5. \A x \in S : m >= x
  <2> SUFFICES ASSUME NEW x \in S PROVE m >= x
      OBVIOUS
  <2>1. n - x \in T /\ ~ (<<n - x, t>> \in R)
      BY <1>3
  <2>2. ~ (n - x < n - m)
      BY <2>1, <1>1, <1>4
  <2> QED BY <1>1, <2>2
<1> HIDE DEF T, R
<1>6. Max(S) \in S /\ \A x \in S : Max(S) >= x
    BY <1>5 DEF Max
<1> QED BY <1>1, <1>6

-----------------------------------------------------------------------------
(* Rows and what a write leaves in the file.                                *)

Row == [time : Nat, value : Step \cup {Cut}]

RowAt(j) == [time |-> Printed(timeHistory[j]), value |-> buffer[j]]

LEMMA BufferRows ==
    ASSUME TypeOK
    PROVE  /\ Rows \in Seq(Row) /\ Len(Rows) = activeIndex + 1
           /\ \A j \in 0..activeIndex :
                 RowAt(j) \in Row /\ RowAt(j).value # Cut /\ timeHistory[j] \in Nat /\ buffer[j] \in Step
           /\ \A j \in 1..activeIndex + 1 : Rows[j] = RowAt(j - 1)
<1>1. activeIndex \in Int /\ activeIndex >= -1 /\ \A j \in 0..activeIndex : j \in Index
    BY SizeAssumption DEF TypeOK, Index
<1>2. \A j \in 0..activeIndex :
          RowAt(j) \in Row /\ RowAt(j).value # Cut /\ timeHistory[j] \in Nat /\ buffer[j] \in Step
  <2> SUFFICES ASSUME NEW j \in 0..activeIndex
               PROVE  RowAt(j) \in Row /\ RowAt(j).value # Cut /\ timeHistory[j] \in Nat /\ buffer[j] \in Step
      OBVIOUS
  <2>1. timeHistory[j] \in Nat /\ buffer[j] \in Step
      BY <1>1 DEF TypeOK
  <2>2. Printed(timeHistory[j]) \in Nat
      BY <2>1, PrintedType
  <2> QED BY <2>1, <2>2, StepType DEF RowAt, Row
<1>3. \A j \in 1..activeIndex + 1 : Rows[j] = RowAt(j - 1) /\ j - 1 \in 0..activeIndex
    BY <1>1 DEF Rows, RowAt
<1>4. Rows = [j \in 1..activeIndex + 1 |-> Rows[j]]
    BY DEF Rows
<1>5. \A j \in 1..activeIndex + 1 : Rows[j] \in Row
    BY <1>2, <1>3
<1>6. activeIndex + 1 \in Nat
    BY <1>1
<1>7. Rows \in [1..activeIndex + 1 -> Row]
    BY <1>4, <1>5
<1>8. Rows \in Seq(Row) /\ Len(Rows) = activeIndex + 1
    BY <1>6, <1>7
<1> QED BY <1>2, <1>3, <1>8

(* What rows leave of the buffer: each is the row at its place, unless it   *)
(* was cut.                                                                 *)
Part(rows) ==
    /\ rows \in Seq(Row)
    /\ \A j \in 1..Len(rows) :
          rows[j].value = Cut \/ (j \in 1..activeIndex + 1 /\ rows[j] = RowAt(j - 1))

LEMMA AllRowsArePart ==
    ASSUME TypeOK
    PROVE  Part(Rows)
BY BufferRows DEF Part

(* A job that is killed leaves the file with a part of the buffer, or none. *)
LEMMA KillLeavesPart ==
    ASSUME TypeOK, NEW g \in {file} \cup PartlyAppended
    PROVE  \E rows : Part(rows) /\ g = Appended(rows)
<1>1. /\ Rows \in Seq(Row) /\ Len(Rows) = activeIndex + 1 /\ activeIndex + 1 \in Nat
      /\ \A j \in 1..activeIndex + 1 : Rows[j] = RowAt(j - 1)
    BY BufferRows, SizeAssumption DEF TypeOK, Index
<1>2. ASSUME NEW n \in 0..Len(Rows)
      PROVE  /\ SubSeq(Rows, 1, n) \in Seq(Row) /\ Len(SubSeq(Rows, 1, n)) = n
             /\ \A j \in 1..n : SubSeq(Rows, 1, n)[j] = RowAt(j - 1) /\ j \in 1..activeIndex + 1
    BY <1>1
<1>3. CASE g = file
  <2>1. Part(<<>>)
      BY DEF Part
  <2>2. Appended(<<>>) = file
      BY DEF Appended, TypeOK
  <2> QED BY <1>3, <2>1, <2>2
<1>4. CASE \E n \in 0..Len(Rows) : g = Appended(SubSeq(Rows, 1, n))
    BY <1>2, <1>4 DEF Part
<1>5. CASE \E n \in 1..Len(Rows), t \in CutTimes :
               g = Appended(Append(SubSeq(Rows, 1, n - 1), [time |-> t, value |-> Cut]))
  <2>1. PICK n \in 1..Len(Rows), t \in CutTimes :
               g = Appended(Append(SubSeq(Rows, 1, n - 1), [time |-> t, value |-> Cut]))
      BY <1>5
  <2> DEFINE some == SubSeq(Rows, 1, n - 1)
             cut  == [time |-> t, value |-> Cut]
  <2>2. n - 1 \in 0..Len(Rows) /\ cut \in Row /\ cut.value = Cut
      BY <1>1, <2>1, TimeAssumption DEF Row
  <2>3. /\ some \in Seq(Row) /\ Len(some) = n - 1
        /\ \A j \in 1..n - 1 : some[j] = RowAt(j - 1) /\ j \in 1..activeIndex + 1
      BY <1>2, <2>2
  <2> HIDE DEF some, cut
  <2>4. /\ Append(some, cut) \in Seq(Row) /\ Len(Append(some, cut)) = n /\ Append(some, cut)[n] = cut
        /\ \A j \in 1..n - 1 : Append(some, cut)[j] = some[j]
      BY <2>2, <2>3, <1>1
  <2>5. \A j \in 1..n : j = n \/ j \in 1..n - 1
      BY <1>1
  <2>6. Part(Append(some, cut))
      BY <2>2, <2>3, <2>4, <2>5 DEF Part
  <2> QED BY <2>1, <2>6 DEF some, cut
<1> DEFINE A == {Appended(SubSeq(Rows, 1, n)) : n \in 0..Len(Rows)}
           B == {Appended(Append(SubSeq(Rows, 1, n - 1), [time |-> t, value |-> Cut])) :
                     n \in 1..Len(Rows), t \in CutTimes}
<1>6. g \in A => \E n \in 0..Len(Rows) : g = Appended(SubSeq(Rows, 1, n))
    OBVIOUS
<1>7. g \in B => \E n \in 1..Len(Rows), t \in CutTimes :
               g = Appended(Append(SubSeq(Rows, 1, n - 1), [time |-> t, value |-> Cut]))
    OBVIOUS
<1>8. PartlyAppended = A \cup B
    BY DEF PartlyAppended
<1> HIDE DEF A, B
<1>9. g = file \/ g \in A \/ g \in B
    BY <1>8
<1> QED BY <1>3, <1>4, <1>5, <1>6, <1>7, <1>9

(* The rows after those of the file are rows of the buffer in their order.  *)
Adds(g) ==
    \E d \in Int : \A i \in 1..Len(g) :
        i \in 1..Len(file) \/ g[i].value = Cut \/ (i - d \in 0..activeIndex /\ g[i] = RowAt(i - d))

(* A write keeps the rows that are there; the whole rows it adds are rows   *)
(* of the buffer in their order, and all of them if none was cut before.    *)
LEMMA FileGrows ==
    ASSUME TypeOK, NEW rows, Part(rows), NEW g, g = Appended(rows)
    PROVE  /\ g \in Seq(Row)
           /\ \A i \in 1..Len(file) : i \in 1..Len(g) /\ g[i] = file[i]
           /\ Adds(g)
           /\ rows = Rows => CutRow \/ \A j \in 0..activeIndex : \E i \in 1..Len(g) : g[i] = RowAt(j)
<1>1. file \in Seq(Row) /\ Len(file) \in Nat /\ DOMAIN file = 1..Len(file)
    BY DEF TypeOK, Row
<1>2. rows \in Seq(Row) /\ Len(rows) \in Nat /\ activeIndex \in Int
    BY SizeAssumption DEF Part, TypeOK, Index
<1>3. \A j \in 1..Len(rows) :
          rows[j].value = Cut \/ (j - 1 \in 0..activeIndex /\ rows[j] = RowAt(j - 1))
    BY <1>2 DEF Part
<1>4. CASE file # <<>> /\ Last(file).value = Cut /\ rows # <<>>
  <2>1. g = file \o Tail(rows)
      BY <1>4 DEF Appended
  <2>2. /\ Tail(rows) \in Seq(Row) /\ Len(Tail(rows)) = Len(rows) - 1 /\ Len(rows) - 1 \in Nat
        /\ \A j \in 1..Len(rows) - 1 : Tail(rows)[j] = rows[j + 1]
      BY <1>2, <1>4
  <2>3. /\ g \in Seq(Row) /\ Len(g) = Len(file) + Len(rows) - 1
        /\ \A i \in 1..Len(file) : i \in 1..Len(g) /\ g[i] = file[i]
        /\ \A i \in 1..Len(g) : i \in 1..Len(file) \/ (i - Len(file) \in 1..Len(rows) - 1
                                                      /\ g[i] = Tail(rows)[i - Len(file)])
    <3> HIDE <1>4
    <3> DEFINE tail == Tail(rows)
    <3> HIDE DEF tail
    <3>1. tail \in Seq(Row) /\ Len(tail) = Len(rows) - 1 /\ g = file \o tail
        BY <2>1, <2>2 DEF tail
    <3> QED BY <1>1, <1>2, <3>1, <2>2 DEF tail
  <2>4. \A i \in 1..Len(g) : i \in 1..Len(file) \/ g[i].value = Cut
                               \/ (i - Len(file) \in 0..activeIndex /\ g[i] = RowAt(i - Len(file)))
    <3> SUFFICES ASSUME NEW i \in 1..Len(g), i \notin 1..Len(file)
                 PROVE  g[i].value = Cut \/ (i - Len(file) \in 0..activeIndex /\ g[i] = RowAt(i - Len(file)))
        OBVIOUS
    <3> DEFINE j == i - Len(file) + 1
    <3>1. j \in 1..Len(rows) /\ g[i] = rows[j] /\ j - 1 = i - Len(file)
        BY <1>1, <1>2, <2>2, <2>3
    <3> QED BY <1>3, <3>1
  <2>5. CutRow
    <3>1. Len(file) \in 1..Len(file) /\ file[Len(file)].value = Cut
        BY <1>1, <1>4 DEF Last
    <3> QED BY <1>1, <3>1 DEF CutRow
  <2>6. Adds(g)
    <3>1. Len(file) \in Int
        BY <1>1
    <3> QED BY <2>4, <3>1, Zenon DEF Adds
  <2> QED BY <2>3, <2>5, <2>6
<1>5. CASE ~(file # <<>> /\ Last(file).value = Cut /\ rows # <<>>)
  <2>1. g = file \o rows
      BY <1>5 DEF Appended
  <2>2. /\ g \in Seq(Row) /\ Len(g) = Len(file) + Len(rows)
        /\ \A i \in 1..Len(file) : i \in 1..Len(g) /\ g[i] = file[i]
        /\ \A i \in 1..Len(g) : i \in 1..Len(file) \/ (i - Len(file) \in 1..Len(rows)
                                                      /\ g[i] = rows[i - Len(file)])
        /\ \A j \in 1..Len(rows) : j + Len(file) \in 1..Len(g) /\ g[j + Len(file)] = rows[j]
    <3> HIDE <1>5
    <3> QED BY <1>1, <1>2, <2>1
  <2>3. \A i \in 1..Len(g) : i \in 1..Len(file) \/ g[i].value = Cut
                \/ (i - (Len(file) + 1) \in 0..activeIndex /\ g[i] = RowAt(i - (Len(file) + 1)))
    <3> SUFFICES ASSUME NEW i \in 1..Len(g), i \notin 1..Len(file)
                 PROVE  g[i].value = Cut
                        \/ (i - (Len(file) + 1) \in 0..activeIndex /\ g[i] = RowAt(i - (Len(file) + 1)))
        OBVIOUS
    <3> DEFINE j == i - Len(file)
    <3>1. j \in 1..Len(rows) /\ g[i] = rows[j] /\ j - 1 = i - (Len(file) + 1)
        BY <1>1, <1>2, <2>2
    <3> QED BY <1>3, <3>1
  <2>4. ASSUME rows = Rows, NEW j \in 0..activeIndex PROVE \E i \in 1..Len(g) : g[i] = RowAt(j)
    <3>1. j + 1 \in 1..Len(rows) /\ j + 1 \in 1..activeIndex + 1 /\ (j + 1) - 1 = j
        BY <1>2, <2>4, BufferRows
    <3>2. rows[j + 1] = RowAt(j)
        BY <2>4, <3>1, BufferRows
    <3> QED BY <2>2, <3>1, <3>2
  <2>5. Adds(g)
    <3>1. Len(file) + 1 \in Int
        BY <1>1
    <3> QED BY <2>3, <3>1, Zenon DEF Adds
  <2> QED BY <2>2, <2>4, <2>5
<1> QED BY <1>4, <1>5

(* Rows of the buffer that are true are so in the file.                     *)
LEMMA WriteKeepsTrue ==
    ASSUME TypeOK, RowsTrue, \A j \in 0..activeIndex : timeHistory[j] = Time(buffer[j]),
           NEW rows, Part(rows), NEW g, g = Appended(rows)
    PROVE  /\ g \in Seq(Row)
           /\ \A i \in DOMAIN g : g[i].value = Cut \/ g[i].time = Printed(Time(g[i].value))
<1>1. g \in Seq(Row) /\ DOMAIN g = 1..Len(g) /\ DOMAIN file = 1..Len(file)
    BY FileGrows DEF TypeOK
<1>2. PICK d \in Int : \A i \in 1..Len(g) :
          i \in 1..Len(file) \/ g[i].value = Cut \/ (i - d \in 0..activeIndex /\ g[i] = RowAt(i - d))
    BY FileGrows DEF Adds
<1>3. ASSUME NEW i \in 1..Len(g) PROVE g[i].value = Cut \/ g[i].time = Printed(Time(g[i].value))
  <2>1. CASE i \in 1..Len(file)
      BY <1>1, <2>1, FileGrows DEF RowsTrue, Whole
  <2>2. CASE i - d \in 0..activeIndex /\ g[i] = RowAt(i - d)
      BY <2>2 DEF RowAt
  <2> QED BY <1>2, <2>1, <2>2
<1> QED BY <1>1, <1>3

-----------------------------------------------------------------------------
(* Types, true rows and the buffer.                                         *)

(* What a job takes from the file as the time of the last output.           *)
LEMMA ReadBackIs ==
    ASSUME TypeOK, RowsTrue, NEW t \in ReadBack(file)
    PROVE  /\ t \in Nat \cup {NoTime}
           /\ \A i \in Whole : file[i].time <= t
           /\ CutRow \/ t = NoTime \/ \E i \in Whole : t = file[i].time
<1> DEFINE whole == {file[i].time : i \in Whole}
           cut   == IF \E i \in DOMAIN file : file[i].value = Cut THEN CutTimes ELSE {NoTime}
<1>1. PICK c \in cut : t = Max(whole \cup {c, NoTime})
  <2>1. ReadBack(file) = {Max(whole \cup {c, NoTime}) : c \in cut}
      BY DEF ReadBack, Whole
  <2> HIDE DEF whole, cut
  <2> QED BY <2>1
<1>2. c \in Nat \cup {NoTime} /\ (CutRow \/ c = NoTime)
    BY TimeAssumption DEF CutRow
<1> DEFINE n == Time(MaxStep) + Grain + (IF c = NoTime THEN 0 ELSE c)
<1>3. n \in Nat /\ c <= n /\ Time(MaxStep) + Grain <= n
    BY <1>2, TimeType, TimeAssumption, StepsAssumption DEF NoTime
<1>4. ASSUME NEW i \in Whole
      PROVE  file[i].time \in Nat /\ file[i].time <= n
  <2>1. file[i] \in Row /\ file[i].value # Cut
    <3>1. file \in Seq(Row)
        BY DEF TypeOK, Row
    <3>2. i \in DOMAIN file /\ file[i].value # Cut
        BY DEF Whole
    <3> QED BY <3>1, <3>2
  <2>2. file[i].time \in Nat /\ file[i].value \in Step
      BY <2>1 DEF Row
  <2>3. file[i].time = Printed(Time(file[i].value))
      BY DEF RowsTrue
  <2>4. file[i].value \in Nat /\ ~(MaxStep < file[i].value) /\ MaxStep \in Nat
      BY <2>2, StepsAssumption DEF Step
  <2>5. Time(file[i].value) \in Nat /\ Time(MaxStep) \in Nat /\ Time(file[i].value) <= Time(MaxStep)
      BY <2>4, TimeType, TimeGrows
  <2>6. file[i].time <= Time(file[i].value) + Grain
      BY <2>3, <2>5, PrintedType
  <2> HIDE DEF n
  <2> QED BY <1>3, <2>2, <2>5, <2>6, TimeAssumption
<1> HIDE DEF n, cut
<1> DEFINE S == whole \cup {c, NoTime}
<1>5. S \subseteq Nat \cup {NoTime} /\ S # {} /\ \A x \in S : x <= n
    BY <1>2, <1>3, <1>4 DEF NoTime
<1>6. Max(S) \in S /\ \A x \in S : x <= Max(S)
  <2> HIDE DEF S
  <2> QED BY <1>3, <1>5, Latest
<1>7. t \in S /\ \A x \in S : x <= t
    BY <1>1, <1>6
<1> QED BY <1>2, <1>5, <1>7

(* The step of the last checkpoint, or the beginning.                       *)
LEMMA RestoredStep ==
    ASSUME TypeOK
    PROVE  Max({saved, 0}) \in Step /\ saved <= Max({saved, 0}) /\ Max({saved, 0}) \in {saved, 0}
<1>1. saved \in Int /\ (saved \in Step \/ saved = -1)
    BY StepType DEF TypeOK
<1>2. \E m \in {saved, 0} : \A x \in {saved, 0} : m >= x
  <2>1. CASE saved >= 0
      BY <1>1, <2>1
  <2>2. CASE saved < 0
      BY <1>1, <2>2
  <2> QED BY <1>1, <2>1, <2>2
<1>3. Max({saved, 0}) \in {saved, 0} /\ \A x \in {saved, 0} : Max({saved, 0}) >= x
    BY <1>2 DEF Max
<1> DEFINE m == Max({saved, 0})
<1> HIDE DEF m
<1>4. m \in {saved, 0} /\ m >= saved /\ m >= 0
    BY <1>3 DEF m
<1>5. m \in Step /\ saved <= m
    BY <1>1, <1>4, StepType
<1> QED BY <1>4, <1>5 DEF m

LEMMA InitInv == Init => IInv
<1> SUFFICES ASSUME Init PROVE IInv
    OBVIOUS
<1>1. TypeOK
  <2>1. timeHistory \in [Index -> Nat] /\ buffer \in [Index -> Step]
      BY StepType DEF Init
  <2> QED BY <2>1, StepType, ProbeBoundsAssumption DEF Init, TypeOK
<1>2. RowsTrue
    BY DEF Init, RowsTrue, Whole
<1>3. BufferInv
    BY DEF Init, BufferInv, Up
<1> QED BY <1>1, <1>2, <1>3 DEF IInv

LEMMA LaunchInv == IInv /\ Launch => IInv'
<1> SUFFICES ASSUME IInv, Launch PROVE IInv'
    OBVIOUS
<1>1. TypeOK /\ RowsTrue
    BY DEF IInv
<1>2. lastOutputTime' \in Nat \cup {NoTime} /\ step' \in Step
    BY <1>1, ReadBackIs, RestoredStep DEF Launch
<1>3. TypeOK'
  <2>1. timeHistory' \in [Index -> Nat] /\ buffer' \in [Index -> Step]
      BY StepType DEF Launch
  <2> QED BY <1>1, <1>2, <2>1 DEF Launch, TypeOK, stored
<1>4. RowsTrue'
    BY <1>1 DEF Launch, RowsTrue, Whole, stored
<1>5. BufferInv'
  <2>1. activeIndex' = -1 /\ pc' = "save"
      BY DEF Launch
  <2> QED BY <2>1 DEF BufferInv, Up
<1> QED BY <1>3, <1>4, <1>5 DEF IInv

LEMMA SaveInv == IInv /\ Save => IInv'
<1> SUFFICES ASSUME IInv, Save PROVE IInv'
    OBVIOUS
<1>1. TypeOK /\ RowsTrue /\ BufferInv
    BY DEF IInv
<1>2. TypeOK'
    BY <1>1 DEF Save, TypeOK, memory
<1>3. RowsTrue'
    BY <1>1 DEF Save, RowsTrue, Whole
<1>4. BufferInv'
    BY <1>1 DEF Save, BufferInv, Up, memory
<1> QED BY <1>2, <1>3, <1>4 DEF IInv

(* What AdvanceTime does to the buffer, and when it writes it.              *)
LEMMA AdvanceTimeIs ==
    ASSUME TypeOK, NEW time \in Nat, AdvanceTime(time)
    PROVE  \/ /\ time <= lastOutputTime
              /\ UNCHANGED <<file, activeIndex, lastOutputTime, timeHistory>>
           \/ /\ time > lastOutputTime /\ lastOutputTime' = time
              /\ activeIndex' = 0 /\ 0 \in Index /\ file' = Appended(Rows)
              /\ timeHistory' = [timeHistory EXCEPT ![0] = time]
           \/ /\ time > lastOutputTime /\ lastOutputTime' = time
              /\ activeIndex' = activeIndex + 1 /\ activeIndex + 1 \in Index /\ file' = file
              /\ timeHistory' = [timeHistory EXCEPT ![activeIndex + 1] = time]
<1>1. activeIndex \in Int /\ activeIndex >= -1 /\ BufferSize \in Nat /\ BufferSize >= 1
      /\ lastOutputTime \in Int
    BY SizeAssumption DEF TypeOK, Index, NoTime
<1>2. CASE time > lastOutputTime /\ activeIndex + 1 >= BufferSize
    BY <1>1, <1>2 DEF AdvanceTime, Index
<1>3. CASE time > lastOutputTime /\ ~(activeIndex + 1 >= BufferSize)
    BY <1>1, <1>3 DEF AdvanceTime, Index
<1>4. CASE ~(time > lastOutputTime)
    BY <1>1, <1>4 DEF AdvanceTime
<1> QED BY <1>2, <1>3, <1>4

LEMMA UpdateProbesInv == IInv /\ UpdateProbes => IInv'
<1> SUFFICES ASSUME IInv, UpdateProbes PROVE IInv'
    OBVIOUS
<1>1. TypeOK /\ RowsTrue /\ BufferInv /\ pc = "probe"
    BY DEF IInv, UpdateProbes
<1>2. /\ \A i \in 0..activeIndex : timeHistory[i] = Time(buffer[i])
      /\ step \in Nat /\ Time(step) \in Nat /\ activeIndex \in Int /\ activeIndex >= -1
    BY <1>1, TimeType, StepType, SizeAssumption DEF BufferInv, TypeOK, Index
<1>3. CASE step \notin Due
  <2>1. /\ pc' = "stepping" /\ buffer' = buffer /\ step' = step
        /\ UNCHANGED <<file, activeIndex, lastOutputTime, timeHistory>>
      BY <1>3 DEF UpdateProbes
  <2>2. TypeOK'
      BY <1>1, <1>3 DEF UpdateProbes, TypeOK
  <2>3. RowsTrue'
      BY <1>1, <2>1 DEF RowsTrue, Whole
  <2>4. BufferInv'
      BY <1>1, <1>2, <2>1 DEF BufferInv, Up
  <2> QED BY <2>2, <2>3, <2>4 DEF IInv
<1>4. CASE step \in Due
  <2>1. /\ AdvanceTime(Time(step)) /\ pc' = "values" /\ step' = step /\ buffer' = buffer
        /\ saved' = saved /\ kills' = kills /\ stops' = stops
      BY <1>4 DEF UpdateProbes
  <2>2. CASE Time(step) <= lastOutputTime /\ UNCHANGED <<file, activeIndex, lastOutputTime, timeHistory>>
    <3>1. TypeOK'
        BY <1>1, <2>1, <2>2 DEF TypeOK
    <3>2. RowsTrue'
        BY <1>1, <2>2 DEF RowsTrue, Whole
    <3>3. activeIndex >= 0 => timeHistory[activeIndex] = Time(step)
      <4>1. activeIndex >= 0 => lastOutputTime = timeHistory[activeIndex] /\ lastOutputTime <= Time(step)
                                /\ lastOutputTime \in Int
          BY <1>1 DEF BufferInv, TypeOK, NoTime
      <4> QED BY <1>2, <2>2, <4>1
    <3>4. BufferInv'
        BY <1>1, <1>2, <1>4, <2>1, <2>2, <3>3 DEF BufferInv, Up
    <3> QED BY <3>1, <3>2, <3>4 DEF IInv
  <2>3. CASE /\ lastOutputTime' = Time(step) /\ activeIndex' = 0 /\ 0 \in Index
             /\ file' = Appended(Rows) /\ timeHistory' = [timeHistory EXCEPT ![0] = Time(step)]
    <3>1. /\ file' \in Seq(Row)
          /\ \A i \in DOMAIN file' : file'[i].value = Cut \/ file'[i].time = Printed(Time(file'[i].value))
        BY <1>1, <1>2, <2>3, AllRowsArePart, WriteKeepsTrue
    <3>2. timeHistory' \in [Index -> Nat] /\ timeHistory'[0] = Time(step)
        BY <1>1, <1>2, <2>3 DEF TypeOK
    <3>3. TypeOK'
        BY <1>1, <1>2, <2>1, <2>3, <3>1, <3>2 DEF TypeOK, Row
    <3>4. RowsTrue'
        BY <3>1 DEF RowsTrue, Whole
    <3>5. BufferInv'
        BY <1>2, <1>4, <2>1, <2>3, <3>2 DEF BufferInv, Up
    <3> QED BY <3>3, <3>4, <3>5 DEF IInv
  <2>4. CASE /\ lastOutputTime' = Time(step) /\ activeIndex' = activeIndex + 1 /\ activeIndex + 1 \in Index
             /\ file' = file /\ timeHistory' = [timeHistory EXCEPT ![activeIndex + 1] = Time(step)]
    <3>1. /\ timeHistory' \in [Index -> Nat] /\ timeHistory'[activeIndex + 1] = Time(step)
          /\ \A i \in 0..activeIndex : timeHistory'[i] = timeHistory[i]
        BY <1>1, <1>2, <2>4 DEF TypeOK, Index
    <3>2. TypeOK'
        BY <1>1, <1>2, <2>1, <2>4, <3>1 DEF TypeOK
    <3>3. RowsTrue'
        BY <1>1, <2>4 DEF RowsTrue, Whole
    <3>4. \A i \in 0..activeIndex + 1 : i = activeIndex + 1 \/ i \in 0..activeIndex
        BY <1>2
    <3>5. BufferInv'
        BY <1>2, <1>4, <2>1, <2>4, <3>1, <3>4 DEF BufferInv, Up
    <3> QED BY <3>2, <3>3, <3>5 DEF IInv
  <2> QED BY <1>1, <1>2, <2>1, <2>2, <2>3, <2>4, AdvanceTimeIs
<1> QED BY <1>3, <1>4

LEMMA RecordInv == IInv /\ Record => IInv'
<1> SUFFICES ASSUME IInv, Record PROVE IInv'
    OBVIOUS
<1>1. TypeOK /\ RowsTrue /\ BufferInv /\ pc = "values" /\ activeIndex \in Int
    BY SizeAssumption DEF IInv, Record, TypeOK, Index
<1>2. /\ pc' = "stepping" /\ file' = file /\ saved' = saved /\ kills' = kills /\ stops' = stops
      /\ step' = step /\ lastOutputTime' = lastOutputTime /\ activeIndex' = activeIndex
      /\ timeHistory' = timeHistory
    BY DEF Record, stored
<1>3. /\ buffer' \in [Index -> Step]
      /\ \A i \in 0..activeIndex : buffer'[i] = IF i = activeIndex THEN step ELSE buffer[i]
    BY <1>1 DEF Record, SetValue, TypeOK, Index
<1>4. TypeOK'
    BY <1>1, <1>2, <1>3 DEF TypeOK
<1>5. RowsTrue'
    BY <1>1, <1>2 DEF RowsTrue, Whole
<1>6. \A i \in 0..activeIndex : timeHistory[i] = Time(buffer'[i])
    BY <1>1, <1>3 DEF BufferInv
<1>7. BufferInv'
    BY <1>1, <1>2, <1>6 DEF BufferInv, Up
<1> QED BY <1>4, <1>5, <1>7 DEF IInv

LEMMA AdvanceInv == IInv /\ Advance => IInv'
<1> SUFFICES ASSUME IInv, Advance PROVE IInv'
    OBVIOUS
<1>1. TypeOK /\ RowsTrue /\ BufferInv /\ pc = "stepping" /\ step < MaxStep /\ step \in Step
    BY DEF IInv, Advance, TypeOK
<1>2. step' = step + 1 /\ step + 1 \in Step /\ pc' = "save"
    BY <1>1, StepsAssumption DEF Advance, Step
<1>3. /\ file' = file /\ saved' = saved /\ kills' = kills /\ stops' = stops
      /\ lastOutputTime' = lastOutputTime /\ activeIndex' = activeIndex
      /\ timeHistory' = timeHistory /\ buffer' = buffer
    BY DEF Advance, stored, memory
<1>4. TypeOK'
    BY <1>1, <1>2, <1>3 DEF TypeOK
<1>5. RowsTrue'
    BY <1>1, <1>3 DEF RowsTrue, Whole
<1>6. Time(step) \in Nat /\ Time(step + 1) \in Nat /\ Time(step) < Time(step + 1) /\ lastOutputTime \in Int
  <2>1. step \in Nat /\ step + 1 \in Nat /\ step < step + 1
      BY <1>1, StepType
  <2>2. lastOutputTime \in Int
      BY <1>1 DEF TypeOK, NoTime
  <2> QED BY <2>1, <2>2, TimeGrows, TimeType
<1>7. BufferInv'
    BY <1>1, <1>2, <1>3, <1>6 DEF BufferInv, Up
<1> QED BY <1>4, <1>5, <1>7 DEF IInv

LEMMA SolveAgainInv == IInv /\ SolveAgain => IInv'
<1> SUFFICES ASSUME IInv, SolveAgain PROVE IInv'
    OBVIOUS
<1>1. TypeOK /\ RowsTrue /\ BufferInv
    BY DEF IInv
<1>2. /\ file' = file /\ saved' = saved /\ kills' = kills /\ stops' = stops /\ step' = step
      /\ lastOutputTime' = lastOutputTime /\ activeIndex' = activeIndex
      /\ timeHistory' = timeHistory /\ buffer' = buffer /\ pc = "stepping" /\ pc' = "save"
    BY DEF SolveAgain, stored, memory
<1>3. TypeOK'
    BY <1>1, <1>2 DEF TypeOK
<1>4. RowsTrue'
    BY <1>1, <1>2 DEF RowsTrue, Whole
<1>5. BufferInv'
    BY <1>1, <1>2 DEF BufferInv, Up
<1> QED BY <1>3, <1>4, <1>5 DEF IInv

(* The end of a job, and what it leaves in the file.                        *)
LEMMA EndInv ==
    ASSUME IInv, NEW rows, Part(rows), file' = Appended(rows),
           file' = file \/ pc # "values",
           pc' \in {"down", "done"}, activeIndex' = -1, kills' \in 0..MaxKills, stops' \in 0..MaxStops,
           UNCHANGED <<saved, step, lastOutputTime, timeHistory, buffer>>
    PROVE  IInv'
<1>1. TypeOK /\ RowsTrue /\ BufferInv
    BY DEF IInv
<1>2. /\ file' \in Seq(Row)
      /\ \A i \in DOMAIN file' : file'[i].value = Cut \/ file'[i].time = Printed(Time(file'[i].value))
  <2>1. CASE file' = file
      BY <1>1, <2>1 DEF TypeOK, RowsTrue, Whole, Row
  <2>2. CASE pc # "values"
    <3>1. \A j \in 0..activeIndex : timeHistory[j] = Time(buffer[j])
        BY <1>1, <2>2 DEF BufferInv
    <3> QED BY <1>1, <3>1, WriteKeepsTrue
  <2> QED BY <2>1, <2>2
<1>3. TypeOK'
    BY <1>1, <1>2 DEF TypeOK, Row
<1>4. RowsTrue'
    BY <1>2 DEF RowsTrue, Whole
<1>5. BufferInv'
    BY DEF BufferInv, Up
<1> QED BY <1>3, <1>4, <1>5 DEF IInv

LEMMA CloseInv == IInv /\ Close => IInv'
<1> SUFFICES ASSUME IInv, Close PROVE IInv'
    OBVIOUS
<1>1. TypeOK /\ Part(Rows)
    BY AllRowsArePart DEF IInv
<1>2. pc # "values" /\ pc' \in {"down", "done"} /\ activeIndex' = -1 /\ file' = Appended(Rows)
    BY DEF Close
<1>3. kills' \in 0..MaxKills /\ stops' \in 0..MaxStops
    BY <1>1, ProbeBoundsAssumption DEF Close, TypeOK
<1>4. UNCHANGED <<saved, step, lastOutputTime, timeHistory, buffer>>
    BY DEF Close
<1> QED BY <1>1, <1>2, <1>3, <1>4, EndInv

LEMMA KillInv == IInv /\ Kill => IInv'
<1> SUFFICES ASSUME IInv, Kill PROVE IInv'
    OBVIOUS
<1>1. TypeOK
    BY DEF IInv
<1>2. PICK rows : Part(rows) /\ file' = Appended(rows)
    BY <1>1, KillLeavesPart DEF Kill
<1>3. file' = file \/ pc # "values"
    BY DEF Kill, Writing
<1>4. pc' = "down" /\ activeIndex' = -1
    BY DEF Kill
<1>5. kills' \in 0..MaxKills /\ stops' \in 0..MaxStops
    BY <1>1, ProbeBoundsAssumption DEF Kill, TypeOK
<1>6. UNCHANGED <<saved, step, lastOutputTime, timeHistory, buffer>>
    BY DEF Kill
<1> QED BY <1>2, <1>3, <1>4, <1>5, <1>6, EndInv

LEMMA StutterInv == IInv /\ UNCHANGED vars => IInv'
<1> SUFFICES ASSUME IInv, UNCHANGED vars PROVE IInv'
    OBVIOUS
<1>1. /\ file' = file /\ saved' = saved /\ kills' = kills /\ stops' = stops /\ step' = step /\ pc' = pc
      /\ lastOutputTime' = lastOutputTime /\ activeIndex' = activeIndex
      /\ timeHistory' = timeHistory /\ buffer' = buffer
    BY DEF vars, stored, memory
<1>2. TypeOK'
    BY <1>1 DEF IInv, TypeOK
<1>3. RowsTrue'
    BY <1>1 DEF IInv, RowsTrue, Whole
<1>4. BufferInv'
    BY <1>1 DEF IInv, BufferInv, Up
<1> QED BY <1>2, <1>3, <1>4 DEF IInv

LEMMA NextInv == IInv /\ [Next]_vars => IInv'
BY LaunchInv, SaveInv, UpdateProbesInv, RecordInv, AdvanceInv, SolveAgainInv, CloseInv, KillInv, StutterInv
   DEF Next, Done

(* Every variable of the recorder keeps its type: in particular no row is   *)
(* written outside the buffer, also by a step that is solved again after a  *)
(* restart that began no row.                                               *)
THEOREM ProbesTypeCorrect == Spec => []TypeOK
<1>1. IInv => TypeOK
    BY DEF IInv
<1> QED BY <1>1, InitInv, NextInv, PTL DEF Spec

(* Every row that is whole shows the time of the sample it holds, however   *)
(* often jobs were stopped and killed, however times are rounded.           *)
THEOREM RowsAlwaysTrue == Spec => []RowsTrue
<1>1. IInv => RowsTrue
    BY DEF IInv
<1> QED BY <1>1, InitInv, NextInv, PTL DEF Spec

-----------------------------------------------------------------------------
(* The order of the rows.                                                   *)

LEMMA FileTimes ==
    ASSUME TypeOK
    PROVE  \A i \in Whole : i \in Nat /\ file[i].time \in Nat /\ file[i].value \in Step
<1>1. file \in Seq(Row)
    BY DEF TypeOK, Row
<1>2. ASSUME NEW i \in Whole PROVE i \in Nat /\ file[i].time \in Nat /\ file[i].value \in Step
  <2>1. i \in Nat /\ file[i] \in Row /\ file[i].value # Cut
      BY <1>1 DEF Whole
  <2> QED BY <2>1 DEF Row
<1> QED BY <1>2

(* A write of true rows leaves the file in order, and lastOutputTime is not *)
(* before any row of it.                                                    *)
LEMMA WriteInOrder ==
    ASSUME PrintedExactly, IInv, OrderInv, Up,
           \A j \in 0..activeIndex : timeHistory[j] = Time(buffer[j]),
           NEW rows, Part(rows), NEW g, g = Appended(rows)
    PROVE  \A i, j \in DOMAIN g : g[i].value # Cut /\ g[j].value # Cut =>
               /\ i < j => g[i].time < g[j].time
               /\ g[i].time <= lastOutputTime
<1>1. TypeOK /\ activeIndex \in Int /\ lastOutputTime \in Int
    BY SizeAssumption DEF IInv, TypeOK, Index, NoTime
<1>2. /\ g \in Seq(Row) /\ DOMAIN g = 1..Len(g) /\ DOMAIN file = 1..Len(file) /\ Len(file) \in Nat
      /\ \A i \in 1..Len(file) : i \in 1..Len(g) /\ g[i] = file[i]
    BY <1>1, FileGrows DEF TypeOK
<1>3. PICK d \in Int : \A i \in 1..Len(g) :
          i \in 1..Len(file) \/ g[i].value = Cut \/ (i - d \in 0..activeIndex /\ g[i] = RowAt(i - d))
  <2>1. Adds(g)
      BY <1>1, FileGrows
  <2> QED BY <2>1 DEF Adds
<1>4. \A k \in 0..activeIndex : RowAt(k).time = timeHistory[k] /\ timeHistory[k] \in Nat
  <2> SUFFICES ASSUME NEW k \in 0..activeIndex
               PROVE  RowAt(k).time = timeHistory[k] /\ timeHistory[k] \in Nat
      OBVIOUS
  <2>1. timeHistory[k] = Time(buffer[k]) /\ buffer[k] \in Step /\ timeHistory[k] \in Nat
      BY <1>1, BufferRows
  <2>2. Printed(timeHistory[k]) = timeHistory[k]
      BY <2>1 DEF PrintedExactly
  <2> QED BY <2>1, <2>2 DEF RowAt
<1>5. \A k \in 0..activeIndex : timeHistory[k] <= lastOutputTime
  <2> SUFFICES ASSUME NEW k \in 0..activeIndex PROVE timeHistory[k] <= lastOutputTime
      OBVIOUS
  <2>1. activeIndex \in 0..activeIndex /\ activeIndex >= 0 /\ (k = activeIndex \/ k < activeIndex)
      BY <1>1
  <2>2. lastOutputTime = timeHistory[activeIndex]
      BY <2>1 DEF IInv, BufferInv
  <2>3. k < activeIndex => timeHistory[k] < timeHistory[activeIndex]
      BY <2>1 DEF OrderInv
  <2> QED BY <1>1, <1>4, <2>1, <2>2, <2>3
<1>6. ASSUME NEW i \in 1..Len(g), g[i].value # Cut, i \in 1..Len(file)
      PROVE  i \in Whole /\ g[i] = file[i] /\ g[i].time \in Nat /\ g[i].time <= lastOutputTime
  <2>1. i \in Whole /\ g[i] = file[i]
      BY <1>2, <1>6 DEF Whole
  <2> QED BY <1>1, <2>1, FileTimes DEF OrderInv
<1>7. ASSUME NEW i \in 1..Len(g), g[i].value # Cut, i \notin 1..Len(file)
      PROVE  i - d \in 0..activeIndex /\ g[i].time = timeHistory[i - d] /\ g[i].time <= lastOutputTime
  <2>1. i - d \in 0..activeIndex /\ g[i] = RowAt(i - d)
      BY <1>3, <1>7
  <2> QED BY <2>1, <1>4, <1>5
<1>8. ASSUME NEW i \in 1..Len(g), NEW j \in 1..Len(g), g[i].value # Cut, g[j].value # Cut, i < j
      PROVE  g[i].time < g[j].time
  <2>1. CASE i \in 1..Len(file) /\ j \in 1..Len(file)
    <3>1. i \in Whole /\ j \in Whole /\ g[i] = file[i] /\ g[j] = file[j]
        BY <1>6, <1>8, <2>1
    <3> QED BY <1>8, <3>1 DEF OrderInv
  <2>2. CASE i \in 1..Len(file) /\ j \notin 1..Len(file)
    <3>1. i \in Whole /\ g[i] = file[i]
        BY <1>6, <1>8, <2>2
    <3>2. j - d \in 0..activeIndex /\ g[j].time = timeHistory[j - d]
        BY <1>7, <1>8, <2>2
    <3> QED BY <3>1, <3>2 DEF OrderInv
  <2>3. CASE i \notin 1..Len(file) /\ j \notin 1..Len(file)
    <3>1. /\ i - d \in 0..activeIndex /\ g[i].time = timeHistory[i - d]
          /\ j - d \in 0..activeIndex /\ g[j].time = timeHistory[j - d]
        BY <1>7, <1>8, <2>3
    <3>2. i - d < j - d
        BY <1>2, <1>8
    <3> QED BY <3>1, <3>2 DEF OrderInv
  <2>4. ~(i \notin 1..Len(file) /\ j \in 1..Len(file))
      BY <1>2, <1>8
  <2> QED BY <2>1, <2>2, <2>3, <2>4
<1> QED BY <1>2, <1>6, <1>7, <1>8

LEMMA OrderInit == Init => OrderInv
BY DEF Init, OrderInv, Whole, Up

LEMMA OrderLaunch == IInv /\ OrderInv /\ Launch => OrderInv'
<1> SUFFICES ASSUME IInv, OrderInv, Launch PROVE OrderInv'
    OBVIOUS
<1>1. file' = file /\ Whole' = Whole /\ activeIndex' = -1
    BY DEF Launch, stored, Whole
<1>2. \A i \in Whole : file[i].time <= lastOutputTime'
    BY ReadBackIs DEF Launch, IInv
<1> QED BY <1>1, <1>2 DEF OrderInv

LEMMA OrderUpdateProbes ==
    ASSUME PrintedExactly, IInv, OrderInv, UpdateProbes
    PROVE  OrderInv'
<1>1. TypeOK /\ BufferInv /\ pc = "probe" /\ Up
    BY DEF IInv, UpdateProbes, Up
<1>2. /\ \A i \in 0..activeIndex : timeHistory[i] = Time(buffer[i]) /\ timeHistory[i] \in Nat
      /\ Time(step) \in Nat /\ activeIndex \in Int /\ activeIndex >= -1 /\ lastOutputTime \in Int
  <2>1. \A i \in 0..activeIndex : timeHistory[i] = Time(buffer[i]) /\ timeHistory[i] \in Nat
      BY <1>1, BufferRows DEF BufferInv
  <2>2. step \in Nat
      BY <1>1, StepType DEF TypeOK
  <2>3. Time(step) \in Nat
      BY <2>2, TimeType
  <2> QED BY <1>1, <2>1, <2>3, SizeAssumption DEF TypeOK, Index, NoTime
<1>3. \A i \in Whole : i \in Nat /\ file[i].time \in Nat /\ file[i].time <= lastOutputTime
    BY <1>1, FileTimes DEF OrderInv
<1>4. CASE UNCHANGED <<file, activeIndex, lastOutputTime, timeHistory>>
    BY <1>1, <1>4 DEF OrderInv, Whole, Up
<1>5. CASE step \in Due /\ AdvanceTime(Time(step))
  <2>1. CASE /\ Time(step) > lastOutputTime /\ lastOutputTime' = Time(step)
             /\ activeIndex' = 0 /\ 0 \in Index /\ file' = Appended(Rows)
             /\ timeHistory' = [timeHistory EXCEPT ![0] = Time(step)]
    <3>1. timeHistory'[0] = Time(step)
        BY <1>1, <2>1 DEF TypeOK
    <3>2. /\ \A i, j \in Whole' : i < j => file'[i].time < file'[j].time
          /\ \A i \in Whole' : file'[i].time <= lastOutputTime
        BY <1>1, <1>2, <2>1, AllRowsArePart, WriteInOrder DEF Whole
    <3>3. TypeOK'
        BY UpdateProbesInv DEF IInv
    <3>4. \A i \in Whole' : file'[i].time \in Nat
      <4>1. file' \in Seq(Row)
          BY <3>3 DEF TypeOK, Row
      <4>2. \A i \in Whole' : file'[i] \in Row
          BY <4>1 DEF Whole
      <4> QED BY <4>2 DEF Row
    <3>5. \A i \in Whole' : file'[i].time < Time(step)
        BY <1>2, <2>1, <3>2, <3>4
    <3>6. \A i \in 0..activeIndex' : i = 0
        BY <2>1
    <3>7. \A i \in Whole' : file'[i].time <= Time(step)
        BY <1>2, <3>4, <3>5
    <3> QED BY <2>1, <3>1, <3>2, <3>5, <3>6, <3>7 DEF OrderInv
  <2>2. CASE /\ Time(step) > lastOutputTime /\ lastOutputTime' = Time(step)
             /\ activeIndex' = activeIndex + 1 /\ activeIndex + 1 \in Index /\ file' = file
             /\ timeHistory' = [timeHistory EXCEPT ![activeIndex + 1] = Time(step)]
    <3>1. /\ timeHistory'[activeIndex + 1] = Time(step)
          /\ \A i \in 0..activeIndex : timeHistory'[i] = timeHistory[i]
        BY <1>1, <1>2, <2>2 DEF TypeOK, Index
    <3>2. \A i \in 0..activeIndex : timeHistory[i] <= lastOutputTime
      <4> SUFFICES ASSUME NEW i \in 0..activeIndex PROVE timeHistory[i] <= lastOutputTime
          OBVIOUS
      <4>1. activeIndex \in 0..activeIndex /\ activeIndex >= 0 /\ (i = activeIndex \/ i < activeIndex)
          BY <1>2
      <4>2. lastOutputTime = timeHistory[activeIndex]
          BY <1>1, <4>1 DEF BufferInv
      <4>3. i < activeIndex => timeHistory[i] < timeHistory[activeIndex]
          BY <4>1 DEF OrderInv
      <4> QED BY <1>2, <4>1, <4>2, <4>3
    <3>3. \A i \in 0..activeIndex : timeHistory[i] < Time(step)
        BY <1>2, <2>2, <3>2
    <3>4. \A i \in 0..activeIndex + 1 : i = activeIndex + 1 \/ i \in 0..activeIndex
        BY <1>2
    <3>5. Whole' = Whole /\ \A i \in Whole : file[i].time < Time(step) /\ file[i].time <= Time(step)
        BY <1>2, <1>3, <2>2 DEF Whole
    <3>6. \A i \in Whole, j \in 0..activeIndex + 1 : file[i].time < timeHistory'[j]
        BY <3>1, <3>4, <3>5 DEF OrderInv
    <3>7. \A i, j \in 0..activeIndex + 1 : i < j => timeHistory'[i] < timeHistory'[j]
      <4> SUFFICES ASSUME NEW i \in 0..activeIndex + 1, NEW j \in 0..activeIndex + 1, i < j
                   PROVE  timeHistory'[i] < timeHistory'[j]
          OBVIOUS
      <4>1. i \in 0..activeIndex
          BY <1>2
      <4>2. CASE j = activeIndex + 1
          BY <3>1, <3>3, <4>1, <4>2
      <4>3. CASE j \in 0..activeIndex
        <5>1. timeHistory[i] < timeHistory[j]
            BY <4>1, <4>3 DEF OrderInv
        <5> QED BY <3>1, <4>1, <4>3, <5>1
      <4> QED BY <3>4, <4>2, <4>3
    <3> QED BY <2>2, <3>5, <3>6, <3>7 DEF OrderInv
  <2> QED BY <1>1, <1>2, <1>4, <1>5, <2>1, <2>2, AdvanceTimeIs
<1> QED BY <1>4, <1>5 DEF UpdateProbes

(* What a job that ends or is killed leaves is in order.                    *)
LEMMA OrderEnd ==
    ASSUME PrintedExactly, IInv, OrderInv, Up, NEW rows, Part(rows), file' = Appended(rows),
           file' = file \/ pc # "values",
           pc' \in {"down", "done"}, activeIndex' = -1
    PROVE  OrderInv'
<1>1. \A i, j \in Whole' : i < j => file'[i].time < file'[j].time
  <2>1. CASE file' = file
      BY <2>1 DEF OrderInv, Whole
  <2>2. CASE pc # "values"
    <3>1. \A j \in 0..activeIndex : timeHistory[j] = Time(buffer[j])
        BY <2>2 DEF IInv, BufferInv
    <3> QED BY <3>1, WriteInOrder DEF Whole
  <2> QED BY <2>1, <2>2
<1> QED BY <1>1 DEF OrderInv, Up

LEMMA OrderNext ==
    ASSUME PrintedExactly
    PROVE  IInv /\ OrderInv /\ [Next]_vars => OrderInv'
<1> SUFFICES ASSUME IInv, OrderInv, [Next]_vars PROVE OrderInv'
    OBVIOUS
<1>1. ASSUME UNCHANGED <<file, activeIndex, lastOutputTime, timeHistory>>, Up' = Up
      PROVE  OrderInv'
    BY <1>1 DEF OrderInv, Whole
<1>2. CASE Launch
    BY <1>2, OrderLaunch
<1>3. CASE UpdateProbes
    BY <1>3, OrderUpdateProbes
<1>4. CASE Save \/ Record \/ Advance \/ SolveAgain \/ UNCHANGED vars
    BY <1>1, <1>4 DEF Save, Record, Advance, SolveAgain, Up, vars, stored, memory
<1>5. CASE Close
  <2>1. Part(Rows) /\ Up /\ pc # "values" /\ pc' \in {"down", "done"}
      BY <1>5, AllRowsArePart DEF Close, Up, IInv
  <2>2. file' = Appended(Rows) /\ activeIndex' = -1
      BY <1>5 DEF Close
  <2> QED BY <2>1, <2>2, OrderEnd
<1>6. CASE Kill
  <2>1. PICK rows : Part(rows) /\ file' = Appended(rows)
      BY <1>6, KillLeavesPart DEF Kill, IInv
  <2>2. (file' = file \/ pc # "values") /\ pc' = "down" /\ activeIndex' = -1 /\ Up
      BY <1>6 DEF Kill, Writing, Up
  <2> QED BY <2>1, <2>2, OrderEnd
<1> QED BY <1>2, <1>3, <1>4, <1>5, <1>6 DEF Next, Done

(* If the digits of the file suffice for the times of the steps, no sample  *)
(* is recorded twice and the rows are in the order of the steps, across any *)
(* number of jobs that resume before the last row of the file.              *)
THEOREM RowsAlwaysIncrease ==
    ASSUME PrintedExactly
    PROVE  Spec => []RowsIncrease
<1>1. IInv /\ OrderInv => RowsIncrease
  <2> SUFFICES ASSUME IInv, OrderInv, NEW i \in Whole, NEW j \in Whole, i < j
               PROVE  file[i].value < file[j].value
      BY DEF RowsIncrease
  <2>1. /\ file[i].value \in Step /\ file[i].value \in Nat
        /\ file[j].value \in Step /\ file[j].value \in Nat
      BY FileTimes, StepType DEF IInv
  <2>2. file[i].time = Time(file[i].value) /\ file[j].time = Time(file[j].value)
      BY <2>1 DEF IInv, RowsTrue, PrintedExactly
  <2>3. Time(file[i].value) < Time(file[j].value)
      BY <2>2 DEF OrderInv
  <2> QED BY <2>1, <2>3, TimeGrows
<1> QED BY <1>1, InitInv, OrderInit, NextInv, OrderNext, PTL DEF Spec

-----------------------------------------------------------------------------
(* The samples that are lost.                                               *)

LEMMA DueType == \A s \in Due : s \in Step /\ s \in Nat /\ Time(s) \in Nat
BY StepsAssumption, TimeType DEF Step

LEMMA TimeInjective ==
    ASSUME NEW s \in Step, NEW t \in Step, Time(s) = Time(t)
    PROVE  s = t
<1>1. s \in Nat /\ t \in Nat /\ Time(s) \in Nat /\ ~(Time(s) < Time(t)) /\ ~(Time(t) < Time(s))
    BY StepType, TimeType
<1>2. ~(s < t) /\ ~(t < s)
    BY <1>1, TimeGrows
<1> QED BY <1>1, <1>2

LEMMA StepFinite ==
    ASSUME NEW S \in SUBSET Step
    PROVE  IsFiniteSet(S) /\ Cardinality(S) \in Nat
<1>1. IsFiniteSet(Step)
    BY StepsAssumption, FS_Interval DEF Step
<1>2. IsFiniteSet(S)
    BY <1>1, FS_Subset
<1> QED BY <1>2, FS_CardinalityType

(* The buffer holds one row for a sample, and BufferSize rows at most.      *)
LEMMA BegunBounded ==
    ASSUME TypeOK
    PROVE  Cardinality(Begun) <= BufferSize
<1> DEFINE I == 0..activeIndex
           f == [s \in Begun |-> CHOOSE i \in I : timeHistory[i] = Time(s)]
<1>1. activeIndex \in Int /\ activeIndex < BufferSize /\ activeIndex >= -1
    BY SizeAssumption DEF TypeOK, Index
<1>2. IsFiniteSet(I) /\ Cardinality(I) <= BufferSize
  <2>1. 0 \in Int /\ activeIndex \in Int
      BY <1>1
  <2>2. /\ IsFiniteSet(0..activeIndex)
        /\ Cardinality(0..activeIndex) = IF 0 > activeIndex THEN 0 ELSE activeIndex - 0 + 1
      BY <2>1, FS_Interval
  <2> QED BY <1>1, <2>2, SizeAssumption
<1>3. \A s \in Begun : s \in Step /\ f[s] \in I /\ timeHistory[f[s]] = Time(s)
    BY DEF Begun
<1>4. \A s, t \in Begun : f[s] = f[t] => s = t
    BY <1>3, TimeInjective
<1>5. f \in Injection(Begun, I)
  <2>1. f \in [Begun -> I]
      BY <1>3
  <2> HIDE DEF f, I
  <2> QED BY <1>4, <2>1 DEF Injection, IsInjective
<1>6. Cardinality(Begun) <= Cardinality(I)
  <2> HIDE DEF f, I
  <2> QED BY <1>2, <1>5, FS_Injection
<1>7. Cardinality(Begun) \in Nat /\ Cardinality(I) \in Nat
    BY <1>2, StepFinite, FS_CardinalityType DEF Begun
<1> HIDE DEF I
<1> QED BY <1>2, <1>6, <1>7, SizeAssumption

(* A write keeps what is in the file.                                       *)
LEMMA WriteKeeps ==
    ASSUME TypeOK, NEW rows, Part(rows), file' = Appended(rows)
    PROVE  /\ CutRow => CutRow'
           /\ InFile \subseteq InFile'
           /\ rows = Rows => CutRow \/ \A j \in 0..activeIndex : buffer[j] \in InFile'
<1>1. /\ file' \in Seq(Row) /\ DOMAIN file' = 1..Len(file') /\ DOMAIN file = 1..Len(file)
      /\ \A i \in 1..Len(file) : i \in 1..Len(file') /\ file'[i] = file[i]
    BY FileGrows DEF TypeOK
<1>2. CutRow => CutRow'
    BY <1>1 DEF CutRow
<1>3. InFile \subseteq InFile'
    BY <1>1 DEF InFile, Whole
<1>4. ASSUME rows = Rows, ~CutRow, NEW j \in 0..activeIndex PROVE buffer[j] \in InFile'
  <2>1. PICK i \in 1..Len(file') : file'[i] = RowAt(j)
      BY <1>4, FileGrows
  <2>2. RowAt(j).value = buffer[j] /\ RowAt(j).value # Cut
      BY BufferRows DEF RowAt
  <2> QED BY <1>1, <2>1, <2>2 DEF InFile, Whole
<1> QED BY <1>2, <1>3, <1>4

(* Nothing is lost by a step that keeps what it finds and is asked for no   *)
(* sample that it does not begin.                                           *)
LEMMA LossKept ==
    ASSUME LossInv, kills' = kills, CutRow => CutRow', Up' => saved' <= step',
           \A s \in Due : Asked(s)' => Asked(s) \/ s \in Begun',
           ~CutRow' => InFile \cup Begun \subseteq InFile' \cup Begun'
    PROVE  LossInv'
<1>1. SUFFICES ASSUME ~CutRow'
               PROVE  \E lost \in SUBSET Step : Cardinality(lost) <= kills' * BufferSize /\ Covered(lost)'
    BY DEF LossInv
<1>2. PICK lost \in SUBSET Step : Cardinality(lost) <= kills * BufferSize /\ Covered(lost)
    BY <1>1 DEF LossInv
<1>3. Covered(lost)'
    BY <1>1, <1>2 DEF Covered
<1> QED BY <1>2, <1>3

LEMMA LossInit == Init => LossInv
<1> SUFFICES ASSUME Init PROVE LossInv
    OBVIOUS
<1>1. ~Up /\ kills = 0 /\ saved = -1 /\ Whole = {}
    BY DEF Init, Up, Whole
<1>2. \A s \in Due : ~(s < saved)
    BY <1>1, DueType
<1>3. Covered({})
    BY <1>1, <1>2 DEF Covered, Asked
<1>4. Cardinality({}) <= kills * BufferSize
  <2>1. Cardinality({}) = 0
      BY FS_EmptySet
  <2> QED BY <1>1, <2>1, SizeAssumption
<1> QED BY <1>1, <1>3, <1>4 DEF LossInv

LEMMA LossLaunch == IInv /\ LossInv /\ Launch => LossInv'
<1> SUFFICES ASSUME IInv, LossInv, Launch PROVE LossInv'
    OBVIOUS
<1>1. TypeOK /\ RowsTrue /\ activeIndex = -1
    BY DEF IInv, BufferInv, Launch, Up
<1>2. /\ file' = file /\ saved' = saved /\ kills' = kills /\ activeIndex' = -1 /\ pc' = "save"
      /\ step' = Max({saved, 0}) /\ lastOutputTime' \in ReadBack(file)
    BY DEF Launch, stored
<1>3. saved <= step' /\ step' \in {saved, 0}
    BY <1>1, <1>2, RestoredStep
<1>4. Whole' = Whole /\ InFile' = InFile /\ CutRow' = CutRow
    BY <1>2 DEF Whole, InFile, CutRow
<1>5. Begun = {} /\ Begun' = {}
    BY <1>1, <1>2 DEF Begun
<1>6. ~CutRow => lastOutputTime' = NoTime \/ \E i \in Whole : lastOutputTime' = file[i].time
    BY <1>1, <1>2, ReadBackIs
<1>7. ASSUME ~CutRow, NEW s \in Due, Asked(s)' PROVE Asked(s)
  <2>1. s \in Nat /\ Time(s) \in Nat
      BY DueType
  <2>2. CASE s < saved' \/ \E i \in Whole' : Time(s) <= file'[i].time
      BY <1>2, <1>4, <2>2 DEF Asked
  <2>3. CASE s \in Passed'
    <3>1. s < step'
        BY <1>2, <2>3 DEF Passed
    <3>2. s < saved
        BY <1>3, <2>1, <3>1
    <3> QED BY <3>2 DEF Asked
  <2>4. CASE Time(s) <= lastOutputTime'
    <3>1. lastOutputTime' # NoTime
        BY <2>1, <2>4 DEF NoTime
    <3>2. \E i \in Whole : Time(s) <= file[i].time
        BY <1>6, <1>7, <2>4, <3>1
    <3> QED BY <3>2 DEF Asked
  <2> QED BY <1>7, <2>2, <2>3, <2>4 DEF Asked
<1>8. SUFFICES ASSUME ~CutRow
               PROVE  \E lost \in SUBSET Step : Cardinality(lost) <= kills' * BufferSize /\ Covered(lost)'
    BY <1>2, <1>3, <1>4 DEF LossInv
<1>9. PICK lost \in SUBSET Step : Cardinality(lost) <= kills * BufferSize /\ Covered(lost)
    BY <1>8 DEF LossInv
<1>10. Covered(lost)'
    BY <1>4, <1>5, <1>7, <1>8, <1>9 DEF Covered
<1> QED BY <1>2, <1>9, <1>10

LEMMA LossSave == IInv /\ LossInv /\ Save => LossInv'
<1> SUFFICES ASSUME IInv, LossInv, Save PROVE LossInv'
    OBVIOUS
<1>1. /\ pc = "save" /\ pc' = "probe" /\ file' = file /\ kills' = kills /\ step' = step
      /\ lastOutputTime' = lastOutputTime /\ activeIndex' = activeIndex /\ timeHistory' = timeHistory
      /\ saved' \in {saved, step} /\ Up /\ Up'
    BY DEF Save, memory, Up
<1>2. saved' <= step'
  <2>1. saved <= step /\ step <= step
      BY <1>1, StepType DEF LossInv, IInv, TypeOK
  <2> QED BY <1>1, <2>1
<1>3. Whole' = Whole /\ InFile' = InFile /\ CutRow' = CutRow /\ Begun' = Begun
    BY <1>1 DEF Whole, InFile, CutRow, Begun
<1>4. \A s \in Due : Asked(s)' => Asked(s)
    BY <1>1, <1>3 DEF Asked, Passed
<1> QED BY <1>1, <1>2, <1>3, <1>4, LossKept

(* Samples up to the last output have been asked for before they are        *)
(* written.                                                                 *)
LEMMA WrittenWereAsked ==
    ASSUME PrintedExactly, IInv, IInv', OrderInv, Up,
           \A j \in 0..activeIndex : timeHistory[j] = Time(buffer[j]),
           NEW rows, Part(rows), file' = Appended(rows),
           NEW s \in Due, NEW i \in Whole', Time(s) <= file'[i].time
    PROVE  Asked(s)
<1>1. i \in DOMAIN file' /\ file'[i].value # Cut
    BY DEF Whole
<1>2. file'[i].time <= lastOutputTime
    BY <1>1, WriteInOrder
<1>3. file'[i].time \in Nat /\ Time(s) \in Nat /\ lastOutputTime \in Int
  <2>1. file' \in Seq(Row)
      BY DEF IInv, TypeOK, Row
  <2>2. file'[i] \in Row
      BY <1>1, <2>1
  <2>3. lastOutputTime \in Int
      BY DEF IInv, TypeOK, NoTime
  <2> QED BY <2>2, <2>3, DueType DEF Row
<1> QED BY <1>2, <1>3 DEF Asked

LEMMA LossUpdateProbes ==
    ASSUME PrintedExactly, IInv, OrderInv, LossInv, UpdateProbes
    PROVE  LossInv'
<1>1. /\ TypeOK /\ pc = "probe" /\ step' = step /\ saved' = saved /\ kills' = kills /\ Up /\ Up'
      /\ pc' \in {"values", "stepping"} /\ (pc' = "values" <=> step \in Due)
    BY DEF IInv, UpdateProbes, Up
<1>2. /\ \A i \in 0..activeIndex : timeHistory[i] = Time(buffer[i])
      /\ step \in Step /\ step \in Nat /\ Time(step) \in Nat /\ activeIndex \in Int /\ activeIndex >= -1
  <2>1. \A i \in 0..activeIndex : timeHistory[i] = Time(buffer[i])
      BY <1>1 DEF IInv, BufferInv
  <2>2. step \in Step /\ step \in Nat
      BY <1>1, StepType DEF TypeOK
  <2>3. Time(step) \in Nat
      BY <2>2, TimeType
  <2> QED BY <1>1, <2>1, <2>2, <2>3, SizeAssumption DEF TypeOK, Index
<1>3. saved' <= step'
    BY <1>1 DEF LossInv
<1>4. Passed' = Passed
    BY <1>1 DEF Passed
<1>5. CASE UNCHANGED <<file, activeIndex, lastOutputTime, timeHistory>>
  <2>1. Whole' = Whole /\ InFile' = InFile /\ CutRow' = CutRow /\ Begun' = Begun
      BY <1>5 DEF Whole, InFile, CutRow, Begun
  <2>2. \A s \in Due : Asked(s)' => Asked(s)
      BY <1>1, <1>4, <1>5, <2>1 DEF Asked
  <2> QED BY <1>1, <1>3, <2>1, <2>2, LossKept
<1>6. ASSUME lastOutputTime' = Time(step), step \in Begun',
             \A s \in Due, i \in Whole' : Time(s) <= file'[i].time => Asked(s)
      PROVE  \A s \in Due : Asked(s)' => Asked(s) \/ s \in Begun'
  <2> SUFFICES ASSUME NEW s \in Due, Asked(s)' PROVE Asked(s) \/ s \in Begun'
      OBVIOUS
  <2>1. CASE s < saved' \/ s \in Passed'
      BY <1>1, <1>4, <2>1 DEF Asked
  <2>2. CASE \E i \in Whole' : Time(s) <= file'[i].time
      BY <1>6, <2>2
  <2>3. CASE Time(s) <= lastOutputTime'
    <3>1. s \in Nat /\ Time(s) \in Nat /\ ~(Time(step) < Time(s))
        BY <1>2, <1>6, <2>3, DueType
    <3>2. s < step \/ s = step
        BY <1>2, <3>1, TimeGrows
    <3>3. s < step => s \in Passed
        BY DEF Passed
    <3> QED BY <1>1, <1>6, <3>2, <3>3 DEF Asked
  <2> QED BY <2>1, <2>2, <2>3 DEF Asked
<1>7. CASE step \in Due /\ AdvanceTime(Time(step))
  <2>1. CASE /\ lastOutputTime' = Time(step)
             /\ activeIndex' = 0 /\ 0 \in Index /\ file' = Appended(Rows)
             /\ timeHistory' = [timeHistory EXCEPT ![0] = Time(step)]
    <3>1. Part(Rows) /\ IInv'
        BY <1>1, AllRowsArePart, UpdateProbesInv
    <3>2. \A s \in Due, i \in Whole' : Time(s) <= file'[i].time => Asked(s)
        BY <1>1, <1>2, <2>1, <3>1, WrittenWereAsked
    <3>3. timeHistory'[0] = Time(step) /\ 0 \in 0..activeIndex'
        BY <1>1, <2>1 DEF TypeOK
    <3>4. step \in Begun'
        BY <1>2, <3>3 DEF Begun
    <3>5. /\ CutRow => CutRow'
          /\ InFile \subseteq InFile'
          /\ CutRow \/ \A j \in 0..activeIndex : buffer[j] \in InFile'
        BY <1>1, <2>1, <3>1, WriteKeeps
    <3>6. ~CutRow' => Begun \subseteq InFile'
      <4> SUFFICES ASSUME ~CutRow', NEW s \in Begun PROVE s \in InFile'
          OBVIOUS
      <4>1. PICK j \in 0..activeIndex : timeHistory[j] = Time(s) /\ s \in Step
          BY DEF Begun
      <4>2. buffer[j] \in Step /\ Time(buffer[j]) = Time(s)
          BY <1>1, <1>2, <4>1, BufferRows
      <4>3. buffer[j] = s
          BY <4>1, <4>2, TimeInjective
      <4> QED BY <3>5, <4>3
    <3>7. \A s \in Due : Asked(s)' => Asked(s) \/ s \in Begun'
        BY <1>6, <2>1, <3>2, <3>4
    <3> QED BY <1>1, <1>3, <3>5, <3>6, <3>7, LossKept
  <2>2. CASE /\ lastOutputTime' = Time(step)
             /\ activeIndex' = activeIndex + 1 /\ activeIndex + 1 \in Index /\ file' = file
             /\ timeHistory' = [timeHistory EXCEPT ![activeIndex + 1] = Time(step)]
    <3>1. Whole' = Whole /\ InFile' = InFile /\ CutRow' = CutRow
        BY <2>2 DEF Whole, InFile, CutRow
    <3>2. /\ timeHistory'[activeIndex + 1] = Time(step) /\ activeIndex + 1 \in 0..activeIndex'
          /\ \A i \in 0..activeIndex : timeHistory'[i] = timeHistory[i] /\ i \in 0..activeIndex'
        BY <1>1, <1>2, <2>2 DEF TypeOK, Index
    <3>3. step \in Begun' /\ Begun \subseteq Begun'
        BY <1>2, <3>2 DEF Begun
    <3>4. \A s \in Due, i \in Whole' : Time(s) <= file'[i].time => Asked(s)
        BY <2>2, <3>1 DEF Asked
    <3>5. \A s \in Due : Asked(s)' => Asked(s) \/ s \in Begun'
        BY <1>6, <2>2, <3>3, <3>4
    <3> QED BY <1>1, <1>3, <3>1, <3>3, <3>5, LossKept
  <2> QED BY <1>1, <1>2, <1>5, <1>7, <2>1, <2>2, AdvanceTimeIs
<1> QED BY <1>5, <1>7 DEF UpdateProbes

LEMMA LossRecord == IInv /\ LossInv /\ Record => LossInv'
<1> SUFFICES ASSUME IInv, LossInv, Record PROVE LossInv'
    OBVIOUS
<1>1. /\ pc = "values" /\ pc' = "stepping" /\ file' = file /\ kills' = kills /\ step' = step /\ saved' = saved
      /\ lastOutputTime' = lastOutputTime /\ activeIndex' = activeIndex /\ timeHistory' = timeHistory
      /\ Up /\ Up'
    BY DEF Record, stored, Up
<1>2. saved' <= step'
    BY <1>1 DEF LossInv
<1>3. Whole' = Whole /\ InFile' = InFile /\ CutRow' = CutRow /\ Begun' = Begun
    BY <1>1 DEF Whole, InFile, CutRow, Begun
<1>4. Time(step) <= lastOutputTime
    BY <1>1 DEF IInv, BufferInv
<1>5. \A s \in Due : Asked(s)' => Asked(s)
    BY <1>1, <1>3, <1>4 DEF Asked, Passed
<1> QED BY <1>1, <1>2, <1>3, <1>5, LossKept

LEMMA LossAdvance == IInv /\ LossInv /\ (Advance \/ SolveAgain) => LossInv'
<1> SUFFICES ASSUME IInv, LossInv, Advance \/ SolveAgain PROVE LossInv'
    OBVIOUS
<1>1. /\ pc = "stepping" /\ pc' = "save" /\ file' = file /\ kills' = kills /\ saved' = saved
      /\ lastOutputTime' = lastOutputTime /\ activeIndex' = activeIndex /\ timeHistory' = timeHistory
      /\ step' \in {step, step + 1} /\ Up /\ Up'
    BY DEF Advance, SolveAgain, stored, memory, Up
<1>2. step \in Nat /\ saved \in Int
    BY StepType DEF IInv, TypeOK
<1>3. saved' <= step'
    BY <1>1, <1>2 DEF LossInv
<1>4. Whole' = Whole /\ InFile' = InFile /\ CutRow' = CutRow /\ Begun' = Begun
    BY <1>1 DEF Whole, InFile, CutRow, Begun
<1>5. Passed' \subseteq Passed
  <2> SUFFICES ASSUME NEW s \in Due, s < step' PROVE s < step \/ s = step
      BY <1>1 DEF Passed
  <2> QED BY <1>1, <1>2, DueType
<1>6. \A s \in Due : Asked(s)' => Asked(s)
    BY <1>1, <1>4, <1>5 DEF Asked
<1> QED BY <1>1, <1>3, <1>4, <1>6, LossKept

LEMMA LossClose ==
    ASSUME PrintedExactly, IInv, OrderInv, LossInv, Close
    PROVE  LossInv'
<1>1. /\ TypeOK /\ pc = "stepping" /\ saved' = saved /\ kills' = kills /\ Up /\ ~Up'
      /\ file' = Appended(Rows) /\ IInv'
    BY CloseInv DEF IInv, Close, Up
<1>2. \A i \in 0..activeIndex : timeHistory[i] = Time(buffer[i])
    BY <1>1 DEF IInv, BufferInv
<1>3. Part(Rows)
    BY <1>1, AllRowsArePart
<1>4. /\ CutRow => CutRow'
      /\ InFile \subseteq InFile'
      /\ CutRow \/ \A j \in 0..activeIndex : buffer[j] \in InFile'
    BY <1>1, <1>3, WriteKeeps
<1>5. ~CutRow' => Begun \subseteq InFile'
  <2> SUFFICES ASSUME ~CutRow', NEW s \in Begun PROVE s \in InFile'
      OBVIOUS
  <2>1. PICK j \in 0..activeIndex : timeHistory[j] = Time(s) /\ s \in Step
      BY DEF Begun
  <2>2. buffer[j] \in Step /\ Time(buffer[j]) = Time(s)
      BY <1>1, <1>2, <2>1, BufferRows
  <2>3. buffer[j] = s
      BY <2>1, <2>2, TimeInjective
  <2> QED BY <1>4, <2>3
<1>6. \A s \in Due : Asked(s)' => Asked(s)
  <2> SUFFICES ASSUME NEW s \in Due, Asked(s)' PROVE Asked(s)
      OBVIOUS
  <2>1. CASE s < saved'
      BY <1>1, <2>1 DEF Asked
  <2>2. CASE \E i \in Whole' : Time(s) <= file'[i].time
      BY <1>1, <1>2, <1>3, <2>2, WrittenWereAsked
  <2> QED BY <1>1, <2>1, <2>2 DEF Asked
<1> QED BY <1>1, <1>4, <1>5, <1>6, LossKept

(* A kill loses what was in the buffer, and no more.                        *)
LEMMA LossKill ==
    ASSUME PrintedExactly, IInv, OrderInv, LossInv, Kill
    PROVE  LossInv'
<1>1. /\ TypeOK /\ saved' = saved /\ kills' = kills + 1 /\ Up /\ ~Up' /\ IInv'
      /\ kills \in Nat
    BY KillInv, ProbeBoundsAssumption DEF IInv, Kill, Up, TypeOK
<1>2. PICK rows : Part(rows) /\ file' = Appended(rows)
    BY <1>1, KillLeavesPart DEF Kill
<1>3. (CutRow => CutRow') /\ InFile \subseteq InFile'
    BY <1>1, <1>2, WriteKeeps
<1>4. \A s \in Due : Asked(s)' => Asked(s)
  <2> SUFFICES ASSUME NEW s \in Due, Asked(s)' PROVE Asked(s)
      OBVIOUS
  <2>1. CASE s < saved'
      BY <1>1, <2>1 DEF Asked
  <2>2. CASE \E i \in Whole' : Time(s) <= file'[i].time
    <3>1. CASE file' = file
        BY <2>2, <3>1 DEF Asked, Whole
    <3>2. CASE file' # file
      <4>1. pc # "values"
          BY <3>2 DEF Kill, Writing
      <4>2. \A i \in 0..activeIndex : timeHistory[i] = Time(buffer[i])
          BY <4>1 DEF IInv, BufferInv
      <4> QED BY <1>1, <1>2, <2>2, <4>2, WrittenWereAsked
    <3> QED BY <3>1, <3>2
  <2> QED BY <1>1, <2>1, <2>2 DEF Asked
<1>5. SUFFICES ASSUME ~CutRow'
               PROVE  \E all \in SUBSET Step : Cardinality(all) <= kills' * BufferSize /\ Covered(all)'
    BY <1>1 DEF LossInv
<1>6. PICK lost \in SUBSET Step : Cardinality(lost) <= kills * BufferSize /\ Covered(lost)
    BY <1>3, <1>5 DEF LossInv
<1>7. PICK all \in SUBSET Step : all = lost \cup Begun
    BY DEF Begun
<1>8. Covered(all)'
    BY <1>3, <1>4, <1>6, <1>7 DEF Covered
<1>9. Cardinality(all) <= kills' * BufferSize
  <2>1. /\ IsFiniteSet(lost) /\ IsFiniteSet(Begun)
        /\ Cardinality(lost) \in Nat /\ Cardinality(Begun) \in Nat /\ Cardinality(lost \cap Begun) \in Nat
    <3>1. Begun \in SUBSET Step /\ lost \cap Begun \in SUBSET Step
        BY DEF Begun
    <3> QED BY <3>1, StepFinite
  <2>2. Cardinality(all) = Cardinality(lost) + Cardinality(Begun) - Cardinality(lost \cap Begun)
      BY <1>7, <2>1, FS_Union
  <2>3. Cardinality(Begun) <= BufferSize
      BY <1>1, BegunBounded
  <2>4. kills' * BufferSize = kills * BufferSize + BufferSize /\ kills * BufferSize \in Nat /\ BufferSize \in Nat
      BY <1>1, SizeAssumption
  <2> QED BY <1>6, <2>1, <2>2, <2>3, <2>4
<1> QED BY <1>8, <1>9

LEMMA LossNext ==
    ASSUME PrintedExactly
    PROVE  IInv /\ OrderInv /\ LossInv /\ [Next]_vars => LossInv'
<1> SUFFICES ASSUME IInv, OrderInv, LossInv, [Next]_vars PROVE LossInv'
    OBVIOUS
<1>1. CASE UNCHANGED vars
  <2>1. /\ file' = file /\ saved' = saved /\ kills' = kills /\ step' = step /\ pc' = pc
        /\ lastOutputTime' = lastOutputTime /\ activeIndex' = activeIndex /\ timeHistory' = timeHistory
      BY <1>1 DEF vars, stored, memory
  <2> QED BY <2>1 DEF LossInv, Covered, Asked, Up, CutRow, InFile, Whole, Begun, Passed
<1>2. CASE Launch \/ Save \/ Record \/ Advance \/ SolveAgain
    BY <1>2, LossLaunch, LossSave, LossRecord, LossAdvance
<1>3. CASE UpdateProbes
    BY <1>3, LossUpdateProbes
<1>4. CASE Close
    BY <1>4, LossClose
<1>5. CASE Kill
    BY <1>5, LossKill
<1> QED BY <1>1, <1>2, <1>3, <1>4, <1>5 DEF Next, Done

(* If the digits of the file suffice for the times of the steps and no row  *)
(* was cut short, each kill costs at most one buffer of samples, whatever   *)
(* the checkpoints are that the jobs resume from; a job that ends costs     *)
(* none.                                                                    *)
THEOREM LossAlwaysBounded ==
    ASSUME PrintedExactly
    PROVE  Spec => []LossBounded
<1>1. IInv /\ LossInv => LossBounded
  <2> SUFFICES ASSUME IInv, LossInv, ~CutRow, Up
               PROVE  Cardinality(Passed \ (InFile \cup InBuffer)) <= kills * BufferSize
      BY DEF LossBounded, Up
  <2>1. PICK lost \in SUBSET Step : Cardinality(lost) <= kills * BufferSize /\ Covered(lost)
      BY DEF LossInv
  <2>2. Passed \ (InFile \cup InBuffer) \subseteq lost
    <3> SUFFICES ASSUME NEW s \in Passed, s \notin InFile, s \notin InBuffer, s \notin lost PROVE FALSE
        OBVIOUS
    <3>1. s \in Due /\ Asked(s)
        BY DEF Passed, Asked
    <3>2. PICK j \in 0..activeIndex : timeHistory[j] = Time(s) /\ s \in Step
        BY <2>1, <3>1 DEF Covered, Begun
    <3>3. step \in Step /\ step \in Nat /\ buffer[j] \in Step
        BY <3>2, BufferRows, StepType DEF IInv, TypeOK
    <3>4. CASE pc = "values" /\ j = activeIndex
      <4>1. timeHistory[j] = Time(step)
          BY <3>2, <3>4, SizeAssumption DEF IInv, BufferInv, TypeOK, Index
      <4>2. s = step
          BY <3>2, <3>3, <4>1, TimeInjective
      <4> QED BY <3>3, <3>4, <4>2 DEF Passed
    <3>5. CASE ~(pc = "values" /\ j = activeIndex)
      <4>1. timeHistory[j] = Time(buffer[j])
          BY <3>5 DEF IInv, BufferInv
      <4>2. s = buffer[j]
          BY <3>2, <3>3, <4>1, TimeInjective
      <4> QED BY <4>2 DEF InBuffer
    <3> QED BY <3>4, <3>5
  <2>3. /\ Cardinality(Passed \ (InFile \cup InBuffer)) <= Cardinality(lost)
        /\ Cardinality(lost) \in Nat /\ Cardinality(Passed \ (InFile \cup InBuffer)) \in Nat
    <3>1. IsFiniteSet(lost) /\ Cardinality(lost) \in Nat
        BY StepFinite
    <3>2. Cardinality(Passed \ (InFile \cup InBuffer)) <= Cardinality(lost)
        BY <2>2, <3>1, FS_Subset
    <3>3. Passed \ (InFile \cup InBuffer) \in SUBSET Step
        BY <2>2
    <3> QED BY <3>1, <3>2, <3>3, StepFinite
  <2>4. kills * BufferSize \in Int
      BY SizeAssumption, ProbeBoundsAssumption DEF IInv, TypeOK
  <2> QED BY <2>1, <2>3, <2>4
<1> QED BY <1>1, InitInv, OrderInit, LossInit, NextInv, OrderNext, LossNext, PTL DEF Spec
===============================================================================
