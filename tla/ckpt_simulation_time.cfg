SPECIFICATION Spec
CONSTANTS
  Ranks = 2
  Every = 2
  Rank <- MCRank
  Root = 0
  NObjects = 2
  Serial <- MCSerial
  Peers <- AllPeers
  Schedules <- SimulationTimeSchedules
  BackupCanFail = FALSE
  MaxStep = 4
  MaxCrashes = 2
  NoFile = NoFile
  Torn = Torn
  Down = Down
INVARIANTS RestoreConsistent
