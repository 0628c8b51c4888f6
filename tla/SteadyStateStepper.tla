-------------------------- MODULE SteadyStateStepper --------------------------
(***************************************************************************)
(* ablate::solver::SteadyStateStepper (src/solver/steadyStateStepper.cpp): *)
(* the time stepper is run checkInterval steps at a time, and after each   *)
(* of these runs every rank evaluates the convergence criteria and decides *)
(* by itself whether to go on.  The steps themselves are collective.       *)
(* VariableChange and ValidRange (src/solver/criteria) see the local part  *)
(* of a field: GetFieldLocalVector gives them a vector of this rank only,  *)
(* but filling it is collective, so a rank gets no further than the first  *)
(* criterion that another one does not evaluate.                           *)
(***************************************************************************)
EXTENDS Integers, Sequences

CONSTANTS
    Rank,          \* the MPI ranks
    Criteria,      \* the sequence of criteria: "change" or "range"
    Fields,        \* what the solution may be after some steps: the value that
                   \* criterion c looks at, on rank r, is f[c][r]
    Tolerance,     \* VariableChange::convergenceTolerance
    UpperBound,    \* ValidRange::upperBound
    checkInterval,
    maxSteps,      \* ts_max_steps
    MaxTime,       \* the step at which ts_max_time is reached
    Starts         \* the steps at which a job may start (0, or that of a checkpoint)

Criterion == DOMAIN Criteria
Changes   == {c \in Criterion : Criteria[c] = "change"}

ASSUME CriteriaAssumption == Criteria \in Seq({"change", "range"})
ASSUME FieldsAssumption == Fields # {} /\ Fields \subseteq [Criterion -> [Rank -> Int]]
ASSUME StepperAssumption ==
    /\ checkInterval \in Nat \ {0} /\ maxSteps \in Nat /\ MaxTime \in Nat
    /\ Starts \subseteq Nat /\ Tolerance \in Nat /\ UpperBound \in Int

VARIABLES
    start,        \* the step this job started at
    step,         \* TSGetStepNumber on each rank
    tsMaxSteps,   \* TSGetMaxSteps on each rank
    field,        \* the current solution
    previous,     \* VariableChange::previousValues: previous[c][r]
    pc,           \* where each rank is
    criterion,    \* the criterion each rank evaluates next
    converged,    \* the local variable of Solve
    before        \* the solution before the last run of steps (read by no action)

control == <<pc, criterion, converged>>
vars    == <<start, step, tsMaxSteps, field, previous, control, before>>

PC == {"basic", "loop", "check", "compare", "returned", "failed"}

(* Initialize, and the first lines of Solve: the criteria take the initial  *)
(* (or restored) solution as the previous one.                              *)
Init ==
    /\ start \in Starts
    /\ field \in Fields /\ before = field
    /\ previous = [c \in Changes |-> field[c]]
    /\ step = [r \in Rank |-> start]
    /\ tsMaxSteps = [r \in Rank |-> checkInterval + start]
    /\ pc = [r \in Rank |-> "basic"]
    /\ criterion = [r \in Rank |-> 1]
    /\ converged = [r \in Rank |-> TRUE]

-----------------------------------------------------------------------------
(* TSSolve.                                                                 *)

(* The step the time stepper would stop at.                                 *)
StopStep(r) == IF tsMaxSteps[r] < MaxTime THEN tsMaxSteps[r] ELSE MaxTime

StepsLeft(r) == step[r] < StopStep(r)

(* After TimeStepper::Solve the loop begins, after the TSSolve of the loop  *)
(* the check, with converged = true.                                        *)
Solved(r) == IF pc[r] = "basic" THEN "loop" ELSE "check"

(* Steps are taken by all ranks together.                                   *)
TakeSteps ==
    /\ \A r \in Rank : pc[r] \in {"basic", "loop"} /\ StepsLeft(r)
    /\ step' = [r \in Rank |-> StopStep(r)]
    /\ field' \in Fields /\ before' = field
    /\ pc' = [r \in Rank |-> Solved(r)]
    /\ criterion' = [r \in Rank |-> 1]
    /\ converged' = [r \in Rank |-> TRUE]
    /\ UNCHANGED <<start, tsMaxSteps, previous>>

(* A solve that is at its last step already returns.  It always does the    *)
(* first time round the loop.                                               *)
NoStepsLeft(r) ==
    /\ pc[r] \in {"basic", "loop"} /\ ~StepsLeft(r)
    /\ pc' = [pc EXCEPT ![r] = Solved(r)]
    /\ criterion' = [criterion EXCEPT ![r] = 1]
    /\ converged' = [converged EXCEPT ![r] = TRUE]
    /\ UNCHANGED <<start, step, tsMaxSteps, field, previous, before>>

-----------------------------------------------------------------------------
(* The criteria, in order.  One that has not converged keeps the later ones *)
(* from being evaluated (converged && criterion->CheckConvergence).         *)

WantsField(c, r) == pc[r] = "check" /\ criterion[r] = c /\ converged[r]

(* SubDomain::GetFieldLocalVector, the first call of every criterion, makes *)
(* a mesh of the field and fills in values from the neighbours: the ranks   *)
(* come out of it together, once all of them evaluate this criterion.       *)
Exchange(c) ==
    /\ \A r \in Rank : WantsField(c, r)
    /\ pc' = [r \in Rank |-> "compare"]
    /\ UNCHANGED <<start, step, tsMaxSteps, field, previous, criterion, converged, before>>

Evaluates(r, kind) == pc[r] = "compare" /\ Criteria[criterion[r]] = kind

(* Back in Solve, for the next criterion.                                   *)
NextCriterion(r) ==
    /\ pc' = [pc EXCEPT ![r] = "check"]
    /\ criterion' = [criterion EXCEPT ![r] = @ + 1]

Distance(a, b) == IF a < b THEN b - a ELSE a - b

(* Variant: the previous values are those of the beginning.                 *)
CheckChangeNoCopy(r) ==
    /\ Evaluates(r, "change")
    /\ LET c == criterion[r]
       IN converged' = [converged EXCEPT ![r] = Distance(field[c][r], previous[c][r]) < Tolerance]
    /\ NextCriterion(r)
    /\ UNCHANGED <<start, step, tsMaxSteps, field, previous, before>>

(* Variant: only one rank compares.                                         *)
CheckChangeOnOne(r) ==
    /\ Evaluates(r, "change")
    /\ LET c == criterion[r]
       IN /\ converged' = [converged EXCEPT ![r] =
                               r # (CHOOSE q \in Rank : TRUE)
                                   \/ Distance(field[c][r], previous[c][r]) < Tolerance]
          /\ previous' = [previous EXCEPT ![c][r] = field[c][r]]
    /\ NextCriterion(r)
    /\ UNCHANGED <<start, step, tsMaxSteps, field, before>>

(* VariableChange::CheckConvergence.                                        *)
CheckChange(r) ==
    /\ Evaluates(r, "change")
    /\ LET c == criterion[r]
       IN /\ converged' = [converged EXCEPT ![r] = Distance(field[c][r], previous[c][r]) < Tolerance]
          /\ previous' = [previous EXCEPT ![c][r] = field[c][r]]
    /\ NextCriterion(r)
    /\ UNCHANGED <<start, step, tsMaxSteps, field, before>>

(* ValidRange throws when the smallest value of the rank's part is above the *)
(* upper bound (that value is field[c][r] here) or the largest is below the *)
(* lower one; one of the two tests is enough for what the loop does.        *)
OutOfRange(c, r) == field[c][r] > UpperBound

(* Variant: values out of range count as not converged.                     *)
CheckRangeNoThrow(r) ==
    /\ Evaluates(r, "range")
    /\ converged' = [converged EXCEPT ![r] = ~OutOfRange(criterion[r], r)]
    /\ NextCriterion(r)
    /\ UNCHANGED <<start, step, tsMaxSteps, field, previous, before>>

(* ValidRange::CheckConvergence throws, or is satisfied.                    *)
CheckRange(r) ==
    /\ Evaluates(r, "range")
    /\ IF OutOfRange(criterion[r], r)
         THEN pc' = [pc EXCEPT ![r] = "failed"] /\ UNCHANGED criterion
         ELSE NextCriterion(r)
    /\ UNCHANGED <<start, step, tsMaxSteps, field, previous, converged, before>>

Evaluated(r) == pc[r] = "check" /\ (criterion[r] \notin Criterion \/ ~converged[r])

Return(r) ==
    /\ Evaluated(r) /\ converged[r]
    /\ pc' = [pc EXCEPT ![r] = "returned"]
    /\ tsMaxSteps' = [tsMaxSteps EXCEPT ![r] = checkInterval + step[r]]
    /\ UNCHANGED <<start, step, field, previous, criterion, converged, before>>

(* ConvergenceException: "Failed to converge after ..."                     *)
GiveUp(r) ==
    /\ Evaluated(r) /\ ~converged[r] /\ step[r] > maxSteps
    /\ pc' = [pc EXCEPT ![r] = "failed"]
    /\ UNCHANGED <<start, step, tsMaxSteps, field, previous, criterion, converged, before>>

(* Variant: one more run after the limit.                                   *)
GoOnPastLimit(r) ==
    /\ Evaluated(r) /\ ~converged[r] /\ step[r] <= maxSteps + checkInterval
    /\ pc' = [pc EXCEPT ![r] = "loop"]
    /\ tsMaxSteps' = [tsMaxSteps EXCEPT ![r] = checkInterval + step[r]]
    /\ UNCHANGED <<start, step, field, previous, criterion, converged, before>>

(* Variant: the interval is not added to the current step.                  *)
GoOnAbsolute(r) ==
    /\ Evaluated(r) /\ ~converged[r] /\ step[r] <= maxSteps
    /\ pc' = [pc EXCEPT ![r] = "loop"]
    /\ tsMaxSteps' = [tsMaxSteps EXCEPT ![r] = checkInterval]
    /\ UNCHANGED <<start, step, field, previous, criterion, converged, before>>

GoOn(r) ==
    /\ Evaluated(r) /\ ~converged[r] /\ step[r] <= maxSteps
    /\ pc' = [pc EXCEPT ![r] = "loop"]
    /\ tsMaxSteps' = [tsMaxSteps EXCEPT ![r] = checkInterval + step[r]]
    /\ UNCHANGED <<start, step, field, previous, criterion, converged, before>>

RankStep(r) ==
    NoStepsLeft(r) \/ CheckChange(r) \/ CheckRange(r) \/ Return(r) \/ GiveUp(r) \/ GoOn(r)

Next == TakeSteps \/ (\E c \in Criterion : Exchange(c)) \/ (\E r \in Rank : RankStep(r))

Spec == Init /\ [][Next]_vars

(* Ranks keep going, and so does a collective call that all of them make.   *)
FairSpec ==
    /\ Spec
    /\ WF_vars(TakeSteps) /\ WF_vars(\E c \in Criterion : Exchange(c))
    /\ \A r \in Rank : WF_vars(RankStep(r))

-----------------------------------------------------------------------------
(* Properties.                                                              *)

TypeOK ==
    /\ start \in Starts /\ field \in Fields /\ before \in Fields
    /\ previous \in [Changes -> [Rank -> Int]]
    /\ step \in [Rank -> Nat] /\ tsMaxSteps \in [Rank -> Nat]
    /\ \A r \in Rank : step[r] <= tsMaxSteps[r]
    /\ pc \in [Rank -> PC] /\ converged \in [Rank -> BOOLEAN]
    /\ criterion \in [Rank -> Criterion \cup {Len(Criteria) + 1}]

(* What criterion c should say of rank r's part of the solution: that the   *)
(* last run of steps changed it by less than the tolerance, or that it is   *)
(* in range.                                                                *)
Finds(c, r) ==
    IF c \in Changes THEN Distance(field[c][r], before[c][r]) < Tolerance ELSE ~OutOfRange(c, r)

(* When Solve returns on a rank, no variable it was told to watch has       *)
(* changed there over the last run of steps.                                *)
SteadyWhereReturned ==
    \A r \in Rank : pc[r] = "returned" => \A c \in Changes : Finds(c, r)

(* Solve "solves the system until steady state is achieved": when it        *)
(* returns on some rank, no watched variable has changed on any rank.       *)
SteadyWhenReturned ==
    (\E r \in Rank : pc[r] = "returned") => \A c \in Changes, r \in Rank : Finds(c, r)

(* A rank has ended, or gets no further without the others: in front of a   *)
(* run of steps or of a criterion.                                          *)
Ended(r) == pc[r] \in {"returned", "failed"}
Settled(r) ==
    \/ Ended(r)
    \/ pc[r] \in {"basic", "loop"} /\ StepsLeft(r)
    \/ \E c \in Criterion : WantsField(c, r)

SamePlace(q, r) == pc[q] = pc[r] /\ (pc[r] = "check" => criterion[q] = criterion[r])

(* Only a criterion that is met on one rank and not on the other can part   *)
(* them.  Neither criteria that were skipped, nor previous values of an     *)
(* older check, nor the step limits leave a rank alone in a collective run  *)
(* of steps, or at a criterion, while another has ended or waits elsewhere. *)
PartedByFindings ==
    \A q, r \in Rank :
        Settled(q) /\ Settled(r) /\ ~SamePlace(q, r) => \E c \in Criterion : Finds(c, q) # Finds(c, r)

(* A solution that is out of range ends the iterations at the next check.   *)
RangeStopsIterations ==
    \A c \in Criterion, r \in Rank :
        (Criteria[c] = "range" /\ OutOfRange(c, r) /\ step[r] > start) =>
            pc[r] # "returned" /\ ~(pc[r] = "loop" /\ StepsLeft(r))

(* A job that starts after ts_max_steps still makes its first run.          *)
Limit == IF start < maxSteps THEN maxSteps ELSE start

(* Not more than one run of checkInterval steps goes past ts_max_steps.     *)
StepsBounded == \A r \in Rank : step[r] <= Limit + checkInterval

(* Solve ends on every rank: converged, out of range or given up; or the    *)
(* ranks have been parted for good by what they found.                      *)
EndsUnlessParted ==
    \/ <>(\A r \in Rank : Ended(r))
    \/ <>[](\E c \in Criterion, q, r \in Rank : Finds(c, q) # Finds(c, r))
=============================================================================
