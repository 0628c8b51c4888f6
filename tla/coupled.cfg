SPECIFICATION Spec
CONSTANTS
  Particles = {p1, p2}
  Ranks = {0, 1, 2}
  Place <- MCPlace
  StepSizes = {1, 2}
  Stages = 2
  EndTime = 4
  MaxKills = 1
INVARIANTS TypeOK Accounted VectorsFit ResetAgreed
PROPERTY LaterPreStepIsBefore
