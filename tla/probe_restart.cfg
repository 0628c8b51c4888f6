SPECIFICATION FairSpec
CONSTANTS
  BufferSize = 2
  Due <- MCDue
  Saves <- MCSaves
  Dt = 1
  Grain = 1
  CutTimes <- AnyTime
  MaxStep = 7
  MaxKills = 2
  MaxStops = 1
INVARIANTS TypeOK RowsIncrease RowsTrue LossBounded
PROPERTY EventuallyRecorded
