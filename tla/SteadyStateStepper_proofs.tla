----------------------- MODULE SteadyStateStepper_proofs -----------------------
(***************************************************************************)
(* Proofs about the steady state loop for any number of ranks, any         *)
(* sequence of criteria, any solutions and limits: it stays within one run *)
(* of steps of ts_max_steps, a solution out of range ends it, a rank that  *)
(* returns has a steady solution, and only a criterion on which two ranks  *)
(* disagree can part them.                                                 *)
(***************************************************************************)
EXTENDS SteadyStateStepper, TLAPS

(* The step limit handed to the time stepper is itself bounded while a rank *)
(* may still take steps.  After a check it may be larger, but then the rank *)
(* has returned.                                                            *)
LimitInv ==
    \A r \in Rank :
        /\ step[r] <= Limit + checkInterval
        /\ pc[r] \in {"basic", "loop"} => tsMaxSteps[r] <= Limit + checkInterval

(* A rank compares for a criterion that it has come to.                     *)
CompareInv == \A r \in Rank : pc[r] = "compare" => criterion[r] \in Criterion /\ converged[r]

IInv == TypeOK /\ LimitInv /\ CompareInv

(* The limit is a number of steps not below ts_max_steps or the start.      *)
LEMMA LimitType ==
    ASSUME TypeOK
    PROVE  Limit \in Nat /\ maxSteps <= Limit /\ start <= Limit
BY StepperAssumption DEF TypeOK, Limit

(* One more than the number of a criterion is the next one, or the end.     *)
LEMMA FollowingCriterion ==
    ASSUME NEW c \in Criterion
    PROVE  c + 1 \in Criterion \cup {Len(Criteria) + 1}
BY CriteriaAssumption DEF Criterion

(* Every value of the solution is a number.                                 *)
LEMMA FieldType ==
    ASSUME TypeOK
    PROVE  field \in [Criterion -> [Rank -> Int]]
BY FieldsAssumption DEF TypeOK

LEMMA InitInv == Init => IInv
<1> SUFFICES ASSUME Init PROVE IInv
    OBVIOUS
<1>1. start \in Nat /\ checkInterval \in Nat
    BY StepperAssumption DEF Init
<1>2. 1 \in Criterion \cup {Len(Criteria) + 1}
    BY CriteriaAssumption DEF Criterion
<1>3. TypeOK
    BY <1>1, <1>2, FieldsAssumption DEF Init, TypeOK, PC, Changes
<1>4. LimitInv
  <2> SUFFICES ASSUME NEW r \in Rank
               PROVE  /\ step[r] <= Limit + checkInterval
                      /\ tsMaxSteps[r] <= Limit + checkInterval
      BY DEF LimitInv
  <2>1. step[r] = start /\ tsMaxSteps[r] = checkInterval + start
      BY DEF Init
  <2>2. Limit \in Nat /\ start <= Limit
      BY <1>3, LimitType
  <2> QED BY <1>1, <2>1, <2>2
<1>5. CompareInv
    BY DEF Init, CompareInv
<1> QED BY <1>3, <1>4, <1>5 DEF IInv

(* The runs of the time stepper stop at the limit of each rank.             *)
LEMMA TakeStepsInv == IInv /\ TakeSteps => IInv'
<1> SUFFICES ASSUME IInv, TakeSteps PROVE IInv'
    OBVIOUS
<1> USE DEF IInv
<1>1. \A r \in Rank : StopStep(r) \in Nat /\ StopStep(r) <= tsMaxSteps[r]
  <2> SUFFICES ASSUME NEW r \in Rank
               PROVE  StopStep(r) \in Nat /\ StopStep(r) <= tsMaxSteps[r]
      OBVIOUS
  <2>1. tsMaxSteps[r] \in Nat /\ MaxTime \in Nat
      BY StepperAssumption DEF TypeOK
  <2> QED BY <2>1 DEF StopStep
<1>2. 1 \in Criterion \cup {Len(Criteria) + 1}
    BY CriteriaAssumption DEF Criterion
<1>3. \A r \in Rank : Solved(r) \in PC
    BY DEF Solved, PC
<1>4. TypeOK'
    BY <1>1, <1>2, <1>3 DEF TakeSteps, TypeOK
<1>5. LimitInv'
  <2> SUFFICES ASSUME NEW r \in Rank
               PROVE  /\ step'[r] <= Limit' + checkInterval
                      /\ tsMaxSteps'[r] <= Limit' + checkInterval
      BY DEF LimitInv
  <2>1. tsMaxSteps[r] <= Limit + checkInterval
      BY DEF TakeSteps, LimitInv
  <2>2. step'[r] = StopStep(r) /\ tsMaxSteps'[r] = tsMaxSteps[r] /\ Limit' = Limit
      BY DEF TakeSteps, Limit
  <2> QED BY <1>1, <2>1, <2>2, LimitType, StepperAssumption DEF TypeOK
<1>6. CompareInv'
    BY DEF TakeSteps, Solved, CompareInv
<1> QED BY <1>4, <1>5, <1>6

(* All ranks come out of the exchange in front of one criterion.            *)
LEMMA ExchangeInv ==
    ASSUME IInv, NEW c \in Criterion, Exchange(c)
    PROVE  IInv'
<1>1. TypeOK'
    BY DEF IInv, Exchange, TypeOK, PC
<1>2. LimitInv'
    BY DEF IInv, Exchange, TypeOK, LimitInv, Limit
<1>3. CompareInv'
    BY DEF Exchange, WantsField, CompareInv
<1> QED BY <1>1, <1>2, <1>3 DEF IInv

(* What a rank does by itself changes at most its own limit, and lets it go *)
(* on only from a step that is not past ts_max_steps.                       *)
LEMMA RankStepInv ==
    ASSUME IInv, NEW r \in Rank, RankStep(r)
    PROVE  IInv'
<1> USE DEF IInv
<1>0. Limit \in Nat /\ maxSteps <= Limit /\ checkInterval \in Nat /\ maxSteps \in Nat
    BY LimitType, StepperAssumption
<1>1. CASE NoStepsLeft(r)
  <2>1. 1 \in Criterion \cup {Len(Criteria) + 1}
      BY CriteriaAssumption DEF Criterion
  <2>2. Solved(r) \in {"loop", "check"} /\ (Solved(r) = "loop" => pc[r] = "basic")
      BY DEF Solved
  <2>3. TypeOK'
      BY <1>1, <2>1, <2>2 DEF NoStepsLeft, TypeOK, PC
  <2>4. LimitInv'
      BY <1>1, <2>2 DEF NoStepsLeft, TypeOK, LimitInv, Limit
  <2>5. CompareInv'
      BY <1>1, <2>2 DEF NoStepsLeft, TypeOK, CompareInv
  <2> QED BY <2>3, <2>4, <2>5
<1>2. CASE CheckChange(r)
  <2> DEFINE c == criterion[r]
  <2>1. pc[r] = "compare" /\ c \in Criterion /\ c \in Changes /\ c + 1 \in Criterion \cup {Len(Criteria) + 1}
      BY <1>2, FollowingCriterion DEF CheckChange, Evaluates, CompareInv, Changes
  <2>2. field[c][r] \in Int
      BY <2>1, FieldType
  <2>3. previous' \in [Changes -> [Rank -> Int]]
      BY <1>2, <2>1, <2>2 DEF CheckChange, TypeOK
  <2>4. converged' \in [Rank -> BOOLEAN]
      BY <1>2 DEF CheckChange, TypeOK
  <2>5. criterion' \in [Rank -> Criterion \cup {Len(Criteria) + 1}] /\ pc' \in [Rank -> PC]
      BY <1>2, <2>1 DEF CheckChange, NextCriterion, TypeOK, PC
  <2>6. TypeOK'
      BY <1>2, <2>3, <2>4, <2>5 DEF CheckChange, TypeOK
  <2>7. LimitInv'
      BY <1>2 DEF CheckChange, NextCriterion, TypeOK, LimitInv, Limit
  <2>8. CompareInv'
      BY <1>2 DEF CheckChange, NextCriterion, TypeOK, CompareInv
  <2> QED BY <2>6, <2>7, <2>8
<1>3. CASE CheckRange(r)
  <2>1. criterion[r] + 1 \in Criterion \cup {Len(Criteria) + 1}
      BY <1>3, FollowingCriterion DEF CheckRange, Evaluates, CompareInv
  <2>2. TypeOK'
      BY <1>3, <2>1 DEF CheckRange, NextCriterion, TypeOK, PC
  <2>3. LimitInv'
      BY <1>3 DEF CheckRange, NextCriterion, TypeOK, LimitInv, Limit
  <2>4. CompareInv'
      BY <1>3 DEF CheckRange, NextCriterion, TypeOK, CompareInv
  <2> QED BY <2>2, <2>3, <2>4
<1>4. CASE Return(r)
  <2>1. TypeOK'
      BY <1>0, <1>4 DEF Return, TypeOK, PC
  <2>2. LimitInv'
      BY <1>4 DEF Return, TypeOK, LimitInv, Limit
  <2>3. CompareInv'
      BY <1>4 DEF Return, TypeOK, CompareInv
  <2> QED BY <2>1, <2>2, <2>3
<1>5. CASE GiveUp(r)
  <2>1. TypeOK'
      BY <1>5 DEF GiveUp, TypeOK, PC
  <2>2. LimitInv'
      BY <1>5 DEF GiveUp, TypeOK, LimitInv, Limit
  <2>3. CompareInv'
      BY <1>5 DEF GiveUp, TypeOK, CompareInv
  <2> QED BY <2>1, <2>2, <2>3
<1>6. CASE GoOn(r)
  <2>1. TypeOK'
      BY <1>0, <1>6 DEF GoOn, TypeOK, PC
  <2>2. LimitInv'
      BY <1>0, <1>6 DEF GoOn, TypeOK, LimitInv, Limit
  <2>3. CompareInv'
      BY <1>6 DEF GoOn, TypeOK, CompareInv
  <2> QED BY <2>1, <2>2, <2>3
<1> QED BY <1>1, <1>2, <1>3, <1>4, <1>5, <1>6 DEF RankStep

LEMMA StepInv == IInv /\ [Next]_vars => IInv'
<1> SUFFICES ASSUME IInv, [Next]_vars PROVE IInv'
    OBVIOUS
<1>1. CASE TakeSteps
    BY <1>1, TakeStepsInv
<1>2. CASE \E r \in Rank : RankStep(r)
    BY <1>2, RankStepInv
<1>3. CASE \E c \in Criterion : Exchange(c)
    BY <1>3, ExchangeInv
<1>4. CASE UNCHANGED vars
    BY <1>4 DEF IInv, TypeOK, LimitInv, Limit, CompareInv, vars, control
<1> QED BY <1>1, <1>2, <1>3, <1>4 DEF Next

(* Each variable keeps its type, and no rank is past the limit that it has  *)
(* handed to the time stepper.                                              *)
THEOREM StepperTypeCorrect == Spec => []TypeOK
<1>1. IInv => TypeOK
    BY DEF IInv
<1> QED BY <1>1, InitInv, StepInv, PTL DEF Spec

(* However the loop goes, no rank takes more than checkInterval steps       *)
(* beyond ts_max_steps, or beyond the start of a job that resumes later     *)
(* than that.                                                               *)
THEOREM StepperStepsBounded == Spec => []StepsBounded
<1>1. IInv => StepsBounded
    BY DEF IInv, LimitInv, StepsBounded
<1> QED BY <1>1, InitInv, StepInv, PTL DEF Spec
-----------------------------------------------------------------------------
(* A solution that is out of range.                                         *)

(* The criteria are in an order in which no range is skipped.               *)
RangesFirst ==
    \A c, d \in Criterion : Criteria[c] = "range" /\ Criteria[d] = "change" => c < d

(* The ranges that a rank has been through at this check.                   *)
InRange(r) ==
    \A c \in Criterion : c < criterion[r] /\ Criteria[c] = "range" => ~OutOfRange(c, r)

(* The criterion that ended the check of a rank is one that may do so.      *)
StoppedByChange(r) ==
    ~converged[r] => criterion[r] - 1 \in Criterion /\ Criteria[criterion[r] - 1] = "change"

RangeInvAt(r) ==
    /\ InRange(r) /\ StoppedByChange(r)
    /\ pc[r] = "basic" => step[r] = start
    /\ pc[r] = "loop" /\ StepsLeft(r) => step[r] = start \/ ~converged[r]
    /\ pc[r] = "returned" => converged[r] /\ criterion[r] \notin Criterion

RangeInv == \A r \in Rank : RangeInvAt(r)

LEMMA CriterionRange == Criterion = 1..Len(Criteria) /\ Len(Criteria) \in Nat
BY CriteriaAssumption DEF Criterion

(* A rank that acts by itself changes nothing that belongs to another one,  *)
(* nor the solution and the step that all of them are at.                   *)
LEMMA OthersKeep ==
    ASSUME IInv, NEW p \in Rank, RankStep(p)
    PROVE  /\ step' = step /\ start' = start /\ field' = field /\ before' = before
           /\ \A r \in Rank \ {p} :
                 /\ pc'[r] = pc[r] /\ criterion'[r] = criterion[r] /\ converged'[r] = converged[r]
                 /\ tsMaxSteps'[r] = tsMaxSteps[r]
                 /\ \A c \in Changes : previous'[c][r] = previous[c][r]
<1> USE DEF IInv, TypeOK
<1>1. CASE NoStepsLeft(p)
    BY <1>1 DEF NoStepsLeft
<1>2. CASE CheckChange(p)
  <2>1. criterion[p] \in Changes
      BY <1>2 DEF CheckChange, Evaluates, CompareInv, Changes
  <2> QED BY <1>2, <2>1 DEF CheckChange, NextCriterion
<1>3. CASE CheckRange(p)
    BY <1>3 DEF CheckRange, NextCriterion
<1>4. CASE Return(p)
    BY <1>4 DEF Return
<1>5. CASE GiveUp(p)
    BY <1>5 DEF GiveUp
<1>6. CASE GoOn(p)
    BY <1>6 DEF GoOn
<1> QED BY <1>1, <1>2, <1>3, <1>4, <1>5, <1>6 DEF RankStep

(* After a run of steps no rank has any left, until it sets a new limit.    *)
LEMMA AfterSteps ==
    ASSUME TypeOK, TakeSteps, NEW r \in Rank
    PROVE  /\ step[r] < step'[r] /\ ~StepsLeft(r)' /\ criterion'[r] = 1 /\ converged'[r]
           /\ pc'[r] = IF pc[r] = "basic" THEN "loop" ELSE "check"
<1>1. step'[r] = StopStep(r) /\ StopStep(r)' = StopStep(r) /\ StopStep(r) \in Nat /\ step[r] \in Nat
    BY StepperAssumption DEF TakeSteps, StopStep, TypeOK
<1>2. step[r] < StopStep(r)
    BY DEF TakeSteps, StepsLeft
<1>3. step[r] < step'[r] /\ ~StepsLeft(r)'
    BY <1>1, <1>2 DEF StepsLeft
<1>4. criterion'[r] = 1 /\ converged'[r] /\ pc'[r] = IF pc[r] = "basic" THEN "loop" ELSE "check"
    BY DEF TakeSteps, Solved
<1> QED BY <1>3, <1>4

LEMMA RangeInit == Init => RangeInv
<1> SUFFICES ASSUME Init, NEW r \in Rank PROVE RangeInvAt(r)
    BY DEF RangeInv
<1>1. criterion[r] = 1 /\ converged[r] /\ pc[r] = "basic" /\ step[r] = start
    BY DEF Init
<1> QED BY <1>1, CriterionRange DEF RangeInvAt, InRange, StoppedByChange

LEMMA RangeStep ==
    ASSUME IInv, RangeInv, NEW p \in Rank, RankStep(p)
    PROVE  RangeInvAt(p)'
<1>1. RangeInvAt(p) /\ criterion[p] \in Criterion \cup {Len(Criteria) + 1} /\ TypeOK
    BY DEF RangeInv, IInv, TypeOK
<1>2. step' = step /\ start' = start /\ field' = field /\ TypeOK'
    BY OthersKeep, RankStepInv DEF IInv
<1> USE DEF RangeInvAt, InRange, StoppedByChange
<1>3. CASE NoStepsLeft(p)
  <2>1. pc'[p] = Solved(p) /\ criterion'[p] = 1 /\ converged'[p] /\ tsMaxSteps' = tsMaxSteps
      BY <1>1, <1>3 DEF NoStepsLeft, TypeOK
  <2>2. Solved(p) \in {"loop", "check"} /\ ~StepsLeft(p)
      BY <1>3 DEF NoStepsLeft, Solved
  <2>3. ~StepsLeft(p)'
      BY <1>2, <2>1, <2>2 DEF StepsLeft, StopStep
  <2> QED BY <2>1, <2>2, <2>3, CriterionRange
<1>4. CASE CheckChange(p)
  <2>1. /\ criterion[p] \in Criterion /\ Criteria[criterion[p]] = "change" /\ pc'[p] = "check"
        /\ criterion'[p] = criterion[p] + 1
      BY <1>1, <1>4 DEF CheckChange, NextCriterion, Evaluates, IInv, CompareInv, TypeOK
  <2>2. \A c \in Criterion : c < criterion[p] + 1 => c < criterion[p] \/ c = criterion[p]
      BY <2>1, CriterionRange
  <2>3. criterion'[p] - 1 = criterion[p]
      BY <2>1, CriterionRange
  <2>4. InRange(p)'
      BY <1>1, <1>2, <2>1, <2>2 DEF OutOfRange
  <2> QED BY <2>1, <2>3, <2>4
<1>5. CASE CheckRange(p)
  <2>1. /\ criterion[p] \in Criterion /\ pc'[p] \in {"check", "failed"} /\ converged[p] /\ converged' = converged
        /\ \/ criterion'[p] = criterion[p]
           \/ criterion'[p] = criterion[p] + 1 /\ ~OutOfRange(criterion[p], p)
      BY <1>1, <1>5 DEF CheckRange, NextCriterion, Evaluates, IInv, CompareInv, TypeOK
  <2>2. \A c \in Criterion : c < criterion[p] + 1 => c < criterion[p] \/ c = criterion[p]
      BY <2>1, CriterionRange
  <2>3. InRange(p)'
      BY <1>1, <1>2, <2>1, <2>2 DEF OutOfRange
  <2> QED BY <2>1, <2>3
<1>6. CASE Return(p)
  <2>1. /\ pc'[p] = "returned" /\ converged[p] /\ criterion[p] \notin Criterion
        /\ criterion' = criterion /\ converged' = converged
      BY <1>1, <1>6 DEF Return, Evaluated, TypeOK
  <2> QED BY <1>1, <1>2, <2>1 DEF OutOfRange
<1>7. CASE GiveUp(p)
  <2>1. pc'[p] = "failed" /\ criterion' = criterion /\ converged' = converged
      BY <1>1, <1>7 DEF GiveUp, TypeOK
  <2> QED BY <1>1, <1>2, <2>1 DEF OutOfRange
<1>8. CASE GoOn(p)
  <2>1. pc'[p] = "loop" /\ ~converged[p] /\ criterion' = criterion /\ converged' = converged
      BY <1>1, <1>8 DEF GoOn, TypeOK
  <2> QED BY <1>1, <1>2, <2>1 DEF OutOfRange
<1> QED BY <1>3, <1>4, <1>5, <1>6, <1>7, <1>8 DEF RankStep

LEMMA RangeNext == IInv /\ RangeInv /\ [Next]_vars => RangeInv'
<1> SUFFICES ASSUME IInv, RangeInv, [Next]_vars, NEW r \in Rank PROVE RangeInvAt(r)'
    BY DEF RangeInv
<1>1. RangeInvAt(r) /\ TypeOK
    BY DEF RangeInv, IInv
<1>2. CASE TakeSteps
  <2>1. ~StepsLeft(r)' /\ criterion'[r] = 1 /\ converged'[r] /\ pc'[r] \in {"loop", "check"}
      BY <1>1, <1>2, AfterSteps
  <2> QED BY <2>1, CriterionRange DEF RangeInvAt, InRange, StoppedByChange
<1>3. ASSUME NEW p \in Rank, RankStep(p) PROVE RangeInvAt(r)'
  <2>1. CASE r = p
      BY <1>3, <2>1, RangeStep
  <2>2. CASE r # p
    <3>1. /\ step' = step /\ start' = start /\ field' = field /\ pc'[r] = pc[r]
          /\ criterion'[r] = criterion[r] /\ converged'[r] = converged[r] /\ tsMaxSteps'[r] = tsMaxSteps[r]
        BY <1>3, <2>2, OthersKeep
    <3> QED BY <1>1, <3>1 DEF RangeInvAt, InRange, StoppedByChange, StepsLeft, StopStep, OutOfRange
  <2> QED BY <2>1, <2>2
<1>4. ASSUME NEW c \in Criterion, Exchange(c) PROVE RangeInvAt(r)'
    BY <1>1, <1>4 DEF Exchange, RangeInvAt, InRange, StoppedByChange, OutOfRange
<1>5. CASE UNCHANGED vars
    BY <1>1, <1>5 DEF RangeInvAt, InRange, StoppedByChange, StepsLeft, StopStep, OutOfRange, vars, control
<1> QED BY <1>2, <1>3, <1>4, <1>5 DEF Next

LEMMA RangeProperty ==
    ASSUME RangesFirst, IInv, RangeInv
    PROVE  RangeStopsIterations
<1> SUFFICES ASSUME NEW c \in Criterion, NEW r \in Rank,
                    Criteria[c] = "range", OutOfRange(c, r), step[r] > start,
                    pc[r] = "returned" \/ (pc[r] = "loop" /\ StepsLeft(r))
             PROVE  FALSE
    BY DEF RangeStopsIterations
<1>1. /\ RangeInvAt(r) /\ criterion[r] \in Criterion \cup {Len(Criteria) + 1}
      /\ start \in Nat /\ step[r] \in Nat
    BY StepperAssumption DEF RangeInv, IInv, TypeOK
<1>2. ~(c < criterion[r])
    BY <1>1 DEF RangeInvAt, InRange
<1>3. CASE pc[r] = "returned"
    BY <1>1, <1>2, <1>3, CriterionRange DEF RangeInvAt
<1>4. CASE pc[r] = "loop" /\ StepsLeft(r)
  <2>1. criterion[r] - 1 \in Criterion /\ Criteria[criterion[r] - 1] = "change"
      BY <1>1, <1>4 DEF RangeInvAt, StoppedByChange
  <2>2. c < criterion[r] - 1
      BY <2>1 DEF RangesFirst
  <2> QED BY <1>1, <1>2, <2>2, CriterionRange
<1> QED BY <1>3, <1>4

(* With the ranges in front of the changes, a solution that is out of range *)
(* on a rank keeps that rank from returning and from another run of steps,  *)
(* whatever the other ranks find.                                           *)
THEOREM RangeEndsTheLoop ==
    ASSUME RangesFirst
    PROVE  Spec => []RangeStopsIterations
<1>1. IInv /\ RangeInv => RangeStopsIterations
    BY RangeProperty
<1> QED BY <1>1, InitInv, RangeInit, StepInv, RangeNext, PTL DEF Spec

-----------------------------------------------------------------------------
(* What parts the ranks.                                                    *)

(* Only one criterion watches for changes, so none keeps an old value.      *)
OneChangeCriterion == \A c, d \in Changes : c = d

(* The job is not ended by ts_max_time.                                     *)
EnoughTime ==
    \A s \in Starts : s + checkInterval < MaxTime /\ maxSteps + checkInterval < MaxTime

(* The previous value of a criterion is the solution before the last run of *)
(* steps, until the rank has evaluated it.                                  *)
Previous(r) ==
    \A c \in Changes : previous[c][r] = IF c < criterion[r] THEN field[c][r] ELSE before[c][r]

(* Where a rank is tells what it has found.                                 *)
Found(r) ==
    /\ \A c \in Criterion : c < criterion[r] /\ (converged[r] \/ c # criterion[r] - 1) => Finds(c, r)
    /\ ~converged[r] => criterion[r] - 1 \in Changes /\ ~Finds(criterion[r] - 1, r)

Where(r) ==
    /\ pc[r] = "basic" =>
         /\ step[r] = start /\ criterion[r] = 1 /\ converged[r] /\ tsMaxSteps[r] = checkInterval + start
         /\ \A c \in Criterion : before[c][r] = field[c][r]
    /\ pc[r] # "basic" => start < step[r]
    /\ pc[r] = "loop" =>
         IF StepsLeft(r) THEN ~converged[r] /\ step[r] <= maxSteps /\ tsMaxSteps[r] = checkInterval + step[r]
                         ELSE converged[r] /\ criterion[r] = 1
    /\ pc[r] = "returned" => converged[r] /\ criterion[r] \notin Criterion
    /\ pc[r] = "failed" =>
         IF converged[r] THEN criterion[r] \in Criterion \ Changes /\ ~Finds(criterion[r], r)
                         ELSE maxSteps < step[r]

Knows(r) == Previous(r) /\ Found(r) /\ Where(r)

(* The criteria whose values a rank has exchanged since the last steps: no  *)
(* rank is ahead of another, wherever it has gone from there.               *)
Met(r) == IF pc[r] = "compare" \/ (pc[r] = "failed" /\ converged[r]) THEN criterion[r] ELSE criterion[r] - 1

InStep == \A q, r \in Rank : step[q] = step[r] /\ Met(q) = Met(r)

PartInv == InStep /\ \A r \in Rank : Knows(r)

LEMMA StepTypes ==
    ASSUME IInv, NEW r \in Rank
    PROVE  /\ step[r] \in Nat /\ start \in Nat /\ start \in Starts /\ tsMaxSteps[r] \in Nat
           /\ criterion[r] \in Criterion \cup {Len(Criteria) + 1} /\ criterion[r] \in Nat
BY StepperAssumption, CriterionRange DEF IInv, TypeOK

LEMMA BelowMaxTime ==
    ASSUME EnoughTime, IInv, NEW r \in Rank
    PROVE  step[r] < MaxTime
<1>1. start \in Starts /\ start \in Nat /\ step[r] \in Nat /\ step[r] <= Limit + checkInterval
    BY StepTypes DEF IInv, LimitInv
<1>2. start + checkInterval < MaxTime /\ maxSteps + checkInterval < MaxTime
    BY <1>1 DEF EnoughTime
<1> QED BY <1>1, <1>2, StepperAssumption DEF Limit

LEMMA PartInit == Init => PartInv
<1> SUFFICES ASSUME Init PROVE PartInv
    OBVIOUS
<1>1. ASSUME NEW r \in Rank PROVE Knows(r) /\ step[r] = start /\ Met(r) = 0
  <2>1. /\ criterion[r] = 1 /\ converged[r] /\ pc[r] = "basic" /\ step[r] = start
        /\ tsMaxSteps[r] = checkInterval + start /\ before = field
        /\ \A c \in Changes : previous[c][r] = field[c][r]
      BY DEF Init
  <2>2. \A c \in Criterion : ~(c < 1)
      BY CriterionRange
  <2>3. Previous(r)
      BY <2>1 DEF Previous
  <2>4. Found(r)
      BY <2>1, <2>2 DEF Found
  <2>5. Where(r)
      BY <2>1 DEF Where
  <2>6. Met(r) = 0
      BY <2>1 DEF Met
  <2> QED BY <2>1, <2>3, <2>4, <2>5, <2>6 DEF Knows
<1> QED BY <1>1 DEF PartInv, InStep

(* A rank that acts knows afterwards what it knew and what it found, and    *)
(* has met no further criterion.                                            *)
LEMMA KnowsStep ==
    ASSUME EnoughTime, IInv, NEW p \in Rank, RankStep(p), Knows(p)
    PROVE  Knows(p)' /\ Met(p)' = Met(p)
<1>1. /\ TypeOK /\ criterion[p] \in Criterion \cup {Len(Criteria) + 1} /\ criterion[p] \in Nat
      /\ step[p] \in Nat /\ start \in Nat /\ step[p] < MaxTime
    BY StepTypes, BelowMaxTime DEF IInv
<1>2. step' = step /\ start' = start /\ field' = field /\ before' = before
    BY OthersKeep
<1>3. Previous(p) /\ Found(p) /\ Where(p)
    BY DEF Knows
<1>4. \A c \in Criterion : Finds(c, p)' <=> Finds(c, p)
    BY <1>2 DEF Finds, OutOfRange
<1>5. CASE NoStepsLeft(p)
  <2>1. /\ pc'[p] = Solved(p) /\ criterion'[p] = 1 /\ converged'[p] /\ tsMaxSteps' = tsMaxSteps
        /\ previous' = previous /\ ~StepsLeft(p) /\ pc[p] \in {"basic", "loop"}
      BY <1>1, <1>5 DEF NoStepsLeft, TypeOK
  <2>2. pc[p] = "loop"
    <3>1. SUFFICES ASSUME pc[p] = "basic" PROVE FALSE
        BY <2>1
    <3>2. step[p] = start /\ tsMaxSteps[p] = checkInterval + start
        BY <1>3, <3>1 DEF Where
    <3> QED BY <1>1, <2>1, <3>2, StepperAssumption DEF StepsLeft, StopStep
  <2>3. pc'[p] = "check" /\ criterion[p] = 1 /\ start < step[p]
      BY <1>3, <2>1, <2>2 DEF Solved, Where
  <2>4. \A c \in Criterion : ~(c < 1)
      BY CriterionRange
  <2>5. Previous(p)'
      BY <1>2, <1>3, <2>1, <2>3 DEF Previous
  <2>6. Found(p)'
      BY <2>1, <2>4 DEF Found
  <2>7. Where(p)'
      BY <1>2, <2>3 DEF Where
  <2>8. Met(p)' = Met(p)
      BY <2>1, <2>2, <2>3 DEF Met
  <2> QED BY <2>5, <2>6, <2>7, <2>8 DEF Knows
<1>6. CASE CheckChange(p)
  <2> DEFINE k == criterion[p]
  <2>1. k \in Criterion /\ k \in Changes /\ pc[p] = "compare" /\ converged[p]
      BY <1>6 DEF CheckChange, Evaluates, IInv, CompareInv, Changes
  <2>2. /\ pc'[p] = "check" /\ criterion'[p] = k + 1
        /\ converged'[p] = (Distance(field[k][p], previous[k][p]) < Tolerance)
        /\ previous'[k][p] = field[k][p]
        /\ \A c \in Changes \ {k} : previous'[c][p] = previous[c][p]
      BY <1>1, <1>6, <2>1 DEF CheckChange, NextCriterion, TypeOK
  <2>3. \A c \in Criterion : c < k + 1 <=> c < k \/ c = k
      BY <2>1, CriterionRange
  <2>4. (k + 1) - 1 = k /\ ~(k < k)
      BY <1>1
  <2>5. converged'[p] = Finds(k, p)
    <3>1. previous[k][p] = before[k][p]
        BY <1>3, <2>1, <2>4 DEF Previous
    <3> QED BY <2>1, <2>2, <3>1 DEF Finds
  <2>6. Previous(p)'
    <3>1. ASSUME NEW c \in Changes
          PROVE  previous'[c][p] = IF c < k + 1 THEN field[c][p] ELSE before[c][p]
      <4>1. CASE c = k
          BY <2>1, <2>2, <2>3, <4>1
      <4>2. CASE c # k
        <5>1. previous'[c][p] = previous[c][p] /\ (c < k + 1 <=> c < k)
            BY <2>2, <2>3, <4>2 DEF Changes
        <5> QED BY <1>3, <5>1 DEF Previous
      <4> QED BY <4>1, <4>2
    <3> QED BY <1>2, <2>2, <3>1 DEF Previous, Changes
  <2>7. Found(p)'
    <3>1. \A c \in Criterion : c < k => Finds(c, p)
        BY <1>3, <2>1 DEF Found
    <3>2. \A c \in Criterion : c < k + 1 /\ (converged'[p] \/ c # k) => Finds(c, p)
        BY <2>3, <2>5, <3>1
    <3> HIDE DEF k
    <3> QED BY <1>4, <2>1, <2>2, <2>4, <2>5, <3>2 DEF Found, Changes
  <2>8. Where(p)'
      BY <1>2, <1>3, <2>1, <2>2 DEF Where
  <2>9. Met(p)' = Met(p)
      BY <2>1, <2>2, <2>4 DEF Met
  <2> QED BY <2>6, <2>7, <2>8, <2>9 DEF Knows
<1>7. CASE CheckRange(p)
  <2> DEFINE k == criterion[p]
  <2>1. k \in Criterion /\ k \notin Changes /\ pc[p] = "compare" /\ converged[p]
      BY <1>7 DEF CheckRange, Evaluates, IInv, CompareInv, Changes
  <2>2. /\ converged' = converged /\ previous' = previous
        /\ \/ OutOfRange(k, p) /\ pc'[p] = "failed" /\ criterion' = criterion
           \/ ~OutOfRange(k, p) /\ pc'[p] = "check" /\ criterion'[p] = k + 1
      BY <1>1, <1>7 DEF CheckRange, NextCriterion, TypeOK
  <2>3. \A c \in Criterion : c < k + 1 <=> c < k \/ c = k
      BY <2>1, CriterionRange
  <2>4. Finds(k, p) <=> ~OutOfRange(k, p)
      BY <2>1 DEF Finds
  <2>5. \A c \in Criterion : c < criterion'[p] => Finds(c, p)
    <3>1. \A c \in Criterion : c < k => Finds(c, p)
        BY <1>3, <2>1 DEF Found
    <3> QED BY <2>2, <2>3, <2>4, <3>1
  <2>6. Previous(p)'
    <3>1. \A c \in Changes : c < criterion'[p] <=> c < k
        BY <2>1, <2>2, <2>3 DEF Changes
    <3> QED BY <1>2, <1>3, <2>2, <3>1 DEF Previous, Changes
  <2>7. Found(p)'
      BY <1>4, <2>1, <2>2, <2>5 DEF Found
  <2>8. Where(p)'
      BY <1>2, <1>3, <1>4, <2>1, <2>2, <2>4 DEF Where, Changes
  <2>9. Met(p)' = Met(p)
      BY <1>1, <2>1, <2>2 DEF Met
  <2> QED BY <2>6, <2>7, <2>8, <2>9 DEF Knows
<1>8. ASSUME pc[p] = "check", pc'[p] # "compare", pc'[p] = "failed" => ~converged[p],
             criterion' = criterion, converged' = converged, previous' = previous, Where(p)'
      PROVE  Knows(p)' /\ Met(p)' = Met(p)
  <2>1. Previous(p)'
      BY <1>2, <1>3, <1>8 DEF Previous, Changes
  <2>2. Found(p)'
      BY <1>3, <1>4, <1>8 DEF Found, Changes
  <2>3. Met(p)' = Met(p)
      BY <1>8 DEF Met
  <2> QED BY <1>8, <2>1, <2>2, <2>3 DEF Knows
<1>9. CASE Return(p)
  <2>1. /\ pc[p] = "check" /\ pc'[p] = "returned" /\ converged[p] /\ criterion[p] \notin Criterion
        /\ criterion' = criterion /\ converged' = converged /\ previous' = previous
      BY <1>1, <1>9 DEF Return, Evaluated, TypeOK
  <2>2. Where(p)'
      BY <1>2, <1>3, <2>1 DEF Where
  <2> QED BY <1>8, <2>1, <2>2
<1>10. CASE GiveUp(p)
  <2>1. /\ pc[p] = "check" /\ pc'[p] = "failed" /\ ~converged[p] /\ maxSteps < step[p]
        /\ criterion' = criterion /\ converged' = converged /\ previous' = previous
      BY <1>1, <1>10, StepperAssumption DEF GiveUp, Evaluated, TypeOK
  <2>2. Where(p)'
      BY <1>2, <1>3, <2>1 DEF Where
  <2> QED BY <1>8, <2>1, <2>2
<1>11. CASE GoOn(p)
  <2>1. /\ pc[p] = "check" /\ pc'[p] = "loop" /\ ~converged[p] /\ step[p] <= maxSteps
        /\ tsMaxSteps'[p] = checkInterval + step[p]
        /\ criterion' = criterion /\ converged' = converged /\ previous' = previous
      BY <1>1, <1>11 DEF GoOn, Evaluated, TypeOK
  <2>2. StepsLeft(p)'
      BY <1>1, <1>2, <2>1, StepperAssumption DEF StepsLeft, StopStep
  <2>3. Where(p)'
      BY <1>2, <1>3, <2>1, <2>2 DEF Where
  <2> QED BY <1>8, <2>1, <2>3
<1> QED BY <1>5, <1>6, <1>7, <1>9, <1>10, <1>11 DEF RankStep

(* What a rank knows and has met does not depend on what the others do.     *)
LEMMA KnowsKept ==
    ASSUME NEW r \in Rank, Knows(r),
           step' = step, start' = start, field' = field, before' = before,
           pc'[r] = pc[r], criterion'[r] = criterion[r], converged'[r] = converged[r],
           tsMaxSteps'[r] = tsMaxSteps[r], \A c \in Changes : previous'[c][r] = previous[c][r]
    PROVE  Knows(r)' /\ Met(r)' = Met(r)
<1>1. \A c \in Criterion : Finds(c, r)' <=> Finds(c, r)
    BY DEF Finds, OutOfRange
<1>2. Previous(r)'
    BY DEF Knows, Previous, Changes
<1>3. Found(r)'
    BY <1>1 DEF Knows, Found, Changes
<1>4. StepsLeft(r)' <=> StepsLeft(r)
    BY DEF StepsLeft, StopStep
<1>5. Where(r)'
    BY <1>1, <1>4 DEF Knows, Where, Changes
<1>6. Met(r)' = Met(r)
    BY DEF Met
<1> QED BY <1>2, <1>3, <1>5, <1>6 DEF Knows

LEMMA PartRankStep ==
    ASSUME EnoughTime, IInv, PartInv, NEW p \in Rank, RankStep(p)
    PROVE  PartInv'
<1>1. /\ step' = step /\ start' = start /\ field' = field /\ before' = before
      /\ \A r \in Rank \ {p} :
            /\ pc'[r] = pc[r] /\ criterion'[r] = criterion[r] /\ converged'[r] = converged[r]
            /\ tsMaxSteps'[r] = tsMaxSteps[r]
            /\ \A c \in Changes : previous'[c][r] = previous[c][r]
    BY OthersKeep
<1>2. ASSUME NEW r \in Rank PROVE Knows(r)' /\ Met(r)' = Met(r)
  <2>1. Knows(r)
      BY DEF PartInv
  <2>2. CASE r = p
      BY <2>1, <2>2, KnowsStep
  <2>3. CASE r # p
      BY <1>1, <2>1, <2>3, KnowsKept
  <2> QED BY <2>2, <2>3
<1> QED BY <1>1, <1>2 DEF PartInv, InStep

(* The ranks meet at the next criterion.                                    *)
LEMMA PartExchange ==
    ASSUME PartInv, NEW c \in Criterion, Exchange(c)
    PROVE  PartInv'
<1>1. /\ step' = step /\ start' = start /\ field' = field /\ before' = before /\ tsMaxSteps' = tsMaxSteps
      /\ previous' = previous /\ criterion' = criterion /\ converged' = converged
    BY DEF Exchange
<1>2. ASSUME NEW r \in Rank PROVE Knows(r)' /\ Met(r)' = c
  <2>1. pc[r] = "check" /\ pc'[r] = "compare" /\ criterion[r] = c /\ Knows(r)
      BY DEF Exchange, WantsField, PartInv
  <2>2. Previous(r)'
      BY <1>1, <2>1 DEF Knows, Previous, Changes
  <2>3. Found(r)'
      BY <1>1, <2>1 DEF Knows, Found, Finds, OutOfRange, Changes
  <2>4. Where(r)'
      BY <1>1, <2>1 DEF Knows, Where
  <2>5. Met(r)' = c
      BY <1>1, <2>1 DEF Met
  <2> QED BY <2>2, <2>3, <2>4, <2>5 DEF Knows
<1> QED BY <1>1, <1>2 DEF PartInv, InStep

(* Before a run of steps the previous values are those of the solution.     *)
LEMMA UpToDate ==
    ASSUME OneChangeCriterion, IInv, TakeSteps, NEW r \in Rank, Knows(r)
    PROVE  /\ tsMaxSteps[r] = checkInterval + step[r]
           /\ \A c \in Changes : previous[c][r] = field[c][r]
<1>1. pc[r] \in {"basic", "loop"} /\ StepsLeft(r) /\ Previous(r) /\ Found(r) /\ Where(r)
    BY DEF TakeSteps, Knows
<1>2. CASE pc[r] = "basic"
    BY <1>1, <1>2 DEF Where, Previous, Changes
<1>3. CASE pc[r] = "loop"
  <2>1. ~converged[r] /\ tsMaxSteps[r] = checkInterval + step[r] /\ criterion[r] - 1 \in Changes
      BY <1>1, <1>3 DEF Where, Found
  <2>2. criterion[r] \in Nat
      BY StepTypes
  <2>3. \A c \in Changes : c = criterion[r] - 1
      BY <2>1 DEF OneChangeCriterion
  <2>4. \A c \in Changes : c < criterion[r]
      BY <2>2, <2>3
  <2> QED BY <1>1, <2>1, <2>4 DEF Previous
<1> QED BY <1>1, <1>2, <1>3

LEMMA PartTakeSteps ==
    ASSUME OneChangeCriterion, IInv, PartInv, TakeSteps
    PROVE  PartInv'
<1>1. ASSUME NEW r \in Rank PROVE Knows(r)' /\ Met(r)' = 0
  <2>1. /\ step[r] < step'[r] /\ ~StepsLeft(r)' /\ criterion'[r] = 1 /\ converged'[r]
        /\ pc'[r] \in {"loop", "check"} /\ step'[r] \in Nat /\ step[r] \in Nat /\ start \in Nat
      BY AfterSteps, StepTypes, TakeStepsInv DEF IInv, TypeOK
  <2>2. start' = start /\ previous' = previous /\ before' = field
      BY DEF TakeSteps
  <2>3. \A c \in Criterion : ~(c < 1)
      BY CriterionRange
  <2>4. \A c \in Changes : previous[c][r] = field[c][r]
      BY UpToDate DEF PartInv
  <2>5. Previous(r)'
      BY <2>1, <2>2, <2>3, <2>4 DEF Previous, Changes
  <2>6. Found(r)'
      BY <2>1, <2>3 DEF Found
  <2>7. Where(r)'
    <3>1. start <= step[r]
        BY <2>1 DEF PartInv, Knows, Where
    <3> QED BY <2>1, <2>2, <3>1 DEF Where
  <2>8. Met(r)' = 0
      BY <2>1 DEF Met
  <2> QED BY <2>5, <2>6, <2>7, <2>8 DEF Knows
<1>2. ASSUME NEW q \in Rank, NEW r \in Rank PROVE step'[q] = step'[r]
  <2>1. step[q] = step[r] /\ tsMaxSteps[q] = checkInterval + step[q] /\ tsMaxSteps[r] = checkInterval + step[r]
      BY UpToDate DEF PartInv, InStep
  <2> QED BY <2>1 DEF TakeSteps, StopStep
<1> QED BY <1>1, <1>2 DEF PartInv, InStep

LEMMA PartNext ==
    ASSUME OneChangeCriterion, EnoughTime
    PROVE  IInv /\ PartInv /\ [Next]_vars => PartInv'
<1> SUFFICES ASSUME IInv, PartInv, [Next]_vars PROVE PartInv'
    OBVIOUS
<1>1. CASE TakeSteps
    BY <1>1, PartTakeSteps
<1>2. CASE \E c \in Criterion : Exchange(c)
    BY <1>2, PartExchange
<1>3. CASE \E r \in Rank : RankStep(r)
    BY <1>3, PartRankStep
<1>4. CASE UNCHANGED vars
  <2>1. /\ step' = step /\ start' = start /\ field' = field /\ before' = before /\ pc' = pc
        /\ criterion' = criterion /\ converged' = converged /\ tsMaxSteps' = tsMaxSteps /\ previous' = previous
      BY <1>4 DEF vars, control
  <2>2. \A r \in Rank : Knows(r)' /\ Met(r)' = Met(r)
      BY <2>1, KnowsKept DEF PartInv
  <2> QED BY <2>1, <2>2 DEF PartInv, InStep
<1> QED BY <1>1, <1>2, <1>3, <1>4 DEF Next

(* A rank that waits for steps, or has given up, stopped at a change; one   *)
(* that threw at a range; one that waits at a criterion, or has returned,   *)
(* was content with the last criterion that all of them have met.           *)
LEMMA SettledAt ==
    ASSUME IInv, NEW r \in Rank, Knows(r), Settled(r), pc[r] # "basic"
    PROVE  \/ pc[r] = "loop"     /\ Met(r) \in Changes /\ ~Finds(Met(r), r) /\ step[r] <= maxSteps
           \/ pc[r] = "failed"   /\ Met(r) \in Changes /\ ~Finds(Met(r), r) /\ maxSteps < step[r]
           \/ pc[r] = "failed"   /\ Met(r) \in Criterion \ Changes /\ ~Finds(Met(r), r)
           \/ pc[r] = "returned" /\ Met(r) = Len(Criteria) /\ (Met(r) \in Criterion => Finds(Met(r), r))
           \/ /\ pc[r] = "check" /\ criterion[r] = Met(r) + 1 /\ criterion[r] \in Criterion
              /\ Met(r) \in Criterion => Finds(Met(r), r)
<1>1. criterion[r] \in Criterion \cup {Len(Criteria) + 1} /\ criterion[r] \in Nat /\ Found(r) /\ Where(r)
    BY StepTypes DEF Knows
<1>2. CASE pc[r] = "loop"
    BY <1>1, <1>2 DEF Settled, Ended, WantsField, Where, Found, Met
<1>3. CASE pc[r] = "failed"
    BY <1>1, <1>3 DEF Where, Found, Met
<1>4. CASE pc[r] = "returned"
  <2>1. criterion[r] = Len(Criteria) + 1 /\ converged[r] /\ Met(r) = criterion[r] - 1
      BY <1>1, <1>4 DEF Where, Met
  <2> QED BY <1>1, <1>4, <2>1, CriterionRange DEF Found
<1>5. CASE pc[r] = "check"
  <2>1. criterion[r] \in Criterion /\ converged[r] /\ Met(r) = criterion[r] - 1
      BY <1>5 DEF Settled, Ended, WantsField, Met
  <2> QED BY <1>1, <1>5, <2>1, CriterionRange DEF Found
<1> QED BY <1>2, <1>3, <1>4, <1>5 DEF Settled, Ended, WantsField

(* Of two ranks that are parted one was content with that criterion and the *)
(* other was not.                                                           *)
LEMMA PartedHolds ==
    ASSUME IInv, PartInv
    PROVE  PartedByFindings
<1> SUFFICES ASSUME NEW q \in Rank, NEW r \in Rank, Settled(q), Settled(r), ~SamePlace(q, r)
             PROVE  \E c \in Criterion : Finds(c, q) # Finds(c, r)
    BY DEF PartedByFindings
<1> DEFINE m == Met(r)
<1>1. /\ step[q] = step[r] /\ Met(q) = m /\ Knows(q) /\ Knows(r)
      /\ step[q] \in Nat /\ start \in Nat /\ maxSteps \in Nat
    BY StepTypes, StepperAssumption DEF PartInv, InStep
<1>2. pc[q] # "basic" /\ pc[r] # "basic"
  <2>1. ASSUME NEW p \in Rank, Knows(p) PROVE IF pc[p] = "basic" THEN step[p] = start ELSE start < step[p]
      BY <2>1 DEF Knows, Where
  <2>2. pc[q] = "basic" <=> pc[r] = "basic"
    <3>1. ~(start < start)
        BY <1>1
    <3> QED BY <1>1, <2>1, <3>1
  <2> QED BY <2>2 DEF SamePlace
<1>3. pc[q] # pc[r] \/ (pc[q] = "check" /\ criterion[q] # criterion[r])
    BY DEF SamePlace
<1>4. SUFFICES m \in Criterion /\ Finds(m, q) # Finds(m, r)
    OBVIOUS
<1>5. \/ pc[q] = "loop"     /\ m \in Changes /\ ~Finds(m, q) /\ step[q] <= maxSteps
      \/ pc[q] = "failed"   /\ m \in Changes /\ ~Finds(m, q) /\ maxSteps < step[q]
      \/ pc[q] = "failed"   /\ m \in Criterion \ Changes /\ ~Finds(m, q)
      \/ pc[q] = "returned" /\ m = Len(Criteria) /\ (m \in Criterion => Finds(m, q))
      \/ pc[q] = "check" /\ criterion[q] = m + 1 /\ criterion[q] \in Criterion /\ (m \in Criterion => Finds(m, q))
    BY <1>1, <1>2, SettledAt
<1>6. \/ pc[r] = "loop"     /\ m \in Changes /\ ~Finds(m, r) /\ step[r] <= maxSteps
      \/ pc[r] = "failed"   /\ m \in Changes /\ ~Finds(m, r) /\ maxSteps < step[r]
      \/ pc[r] = "failed"   /\ m \in Criterion \ Changes /\ ~Finds(m, r)
      \/ pc[r] = "returned" /\ m = Len(Criteria) /\ (m \in Criterion => Finds(m, r))
      \/ pc[r] = "check" /\ criterion[r] = m + 1 /\ criterion[r] \in Criterion /\ (m \in Criterion => Finds(m, r))
    BY <1>1, <1>2, SettledAt
<1>7. Changes \subseteq Criterion /\ (Len(Criteria) + 1 \notin Criterion)
    BY CriterionRange DEF Changes
<1> HIDE DEF m
<1>8. ~(maxSteps < step[q] /\ step[r] <= maxSteps) /\ ~(maxSteps < step[r] /\ step[q] <= maxSteps)
    BY <1>1
<1> QED BY <1>3, <1>5, <1>6, <1>7, <1>8

LEMMA SteadyHolds ==
    ASSUME IInv, PartInv
    PROVE  SteadyWhereReturned
<1> SUFFICES ASSUME NEW r \in Rank, pc[r] = "returned", NEW c \in Changes PROVE Finds(c, r)
    BY DEF SteadyWhereReturned
<1>1. /\ criterion[r] \in Criterion \cup {Len(Criteria) + 1} /\ c \in Criterion
      /\ converged[r] /\ criterion[r] \notin Criterion /\ Found(r)
    BY StepTypes DEF PartInv, Knows, Where, Changes
<1>2. c < criterion[r]
    BY <1>1, CriterionRange
<1> QED BY <1>1, <1>2 DEF Found

(* Ranks whose parts of the solution differ end the loop apart, or wait for *)
(* each other at different places, only when a criterion is met on one and  *)
(* not on the other.  Everything else keeps them together: the order of the *)
(* criteria, those that are skipped, the previous values and the limits.    *)
THEOREM RanksPartByFindings ==
    ASSUME OneChangeCriterion, EnoughTime
    PROVE  Spec => []PartedByFindings
<1>1. IInv /\ PartInv => PartedByFindings
    BY PartedHolds
<1> QED BY <1>1, InitInv, PartInit, StepInv, PartNext, PTL DEF Spec

(* With one criterion for changes, a rank on which Solve returns has a part *)
(* of the solution that the last run of steps did not change, whatever the  *)
(* others have, if ts_max_time does not cut a run short.                    *)
THEOREM ReturnsSteady ==
    ASSUME OneChangeCriterion, EnoughTime
    PROVE  Spec => []SteadyWhereReturned
<1>1. IInv /\ PartInv => SteadyWhereReturned
    BY SteadyHolds
<1> QED BY <1>1, InitInv, PartInit, StepInv, PartNext, PTL DEF Spec
===============================================================================
