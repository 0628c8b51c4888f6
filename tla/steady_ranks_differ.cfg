SPECIFICATION Spec
CONSTANTS
  Ranks = 2
  Values <- MCValues
  RangeValues <- MCRangeValues
  Rank <- MCRank
  Criteria <- OneChange
  Fields <- AnyFields
  Tolerance = 1
  UpperBound = 1
  checkInterval = 2
  maxSteps = 6
  MaxTime = 100
  Starts <- MCStarts
CHECK_DEADLOCK FALSE
INVARIANTS SteadyWhenReturned
