SPECIFICATION Spec
CONSTANTS
  Ranks = 3
  Every = 2
  Rank <- MCRank
  Root = 0
  NObjects = 2
  Serial <- MCSerial
  Peers <- LinePeers
  Schedules <- FixedSchedules
  BackupCanFail = TRUE
  MaxStep = 4
  MaxCrashes = 2
  NoFile = NoFile
  Torn = Torn
  Down = Down
INVARIANTS TypeOK CollectivesMatch RestoreConsistent SequencesIncrease
