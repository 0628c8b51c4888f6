SPECIFICATION FairSpec
CONSTANTS
  Ranks = 3
  Every = 2
  Rank <- MCRank
  Root = 0
  NObjects = 3
  Serial <- MCSerial
  Peers <- AllPeers
  Schedules <- FixedSchedules
  BackupCanFail = FALSE
  MaxStep = 4
  MaxCrashes = 2
  NoFile = NoFile
  Torn = Torn
  Down = Down
  Interval = 2
INVARIANTS BackupComplete Recoverable RestoreConsistent SequencesIncrease IInv
PROPERTY ImplementsStore SavedNeverLost EventuallyAllSaved
