SPECIFICATION Spec
CONSTANTS
  Methods <- OneMethod
  Stages = 3
  Limits <- MCLimits
  Safe <- MCSafe
  DtMin = 2
  DtMax = 4
  FirstDt = 3
  MaxTime = 8
  MaxReject = 3
  SaveSteps <- EverySecond
  RadiationSteps <- EverySecond
  StatsSteps <- EveryStep
  MaxKills = 1
INVARIANTS WallIsSurface
