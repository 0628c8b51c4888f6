SPECIFICATION FairSpec
CONSTANTS
  Ranks = 3
  Values <- MCValues
  RangeValues <- MCRangeValues
  Rank <- MCRank
  Criteria <- RangeThenChange
  Fields <- AnyFields
  Tolerance = 1
  UpperBound = 1
  checkInterval = 2
  maxSteps = 6
  MaxTime = 100
  Starts <- MCStarts
CHECK_DEADLOCK FALSE
INVARIANTS TypeOK SteadyWhereReturned PartedByFindings RangeStopsIterations StepsBounded
PROPERTY EndsUnlessParted
