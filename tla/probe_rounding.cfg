SPECIFICATION Spec
CONSTANTS
  BufferSize = 2
  Due <- MCDue
  Saves <- MCSaves
  Dt = 3
  Grain = 4
  CutTimes <- NeverCut
  MaxStep = 6
  MaxKills = 0
  MaxStops = 1
INVARIANTS RowsIncrease
