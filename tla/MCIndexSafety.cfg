CONSTANTS
  u1 = u1
  u2 = u2
  Updaters <- OneUpdater
  NoUpdater = NoUpdater
  CommitInterval = 1
  QueueCap = 2
  HeightLimit = 8
  MaxSavepoints = 2
  Interval = 3
  TipDistance = 3
  MaxBlocks = 8
  MaxReorgs = 2
  MaxReorgDepth = 4
  MaxErrors = 1
  MaxCrashes = 1
SPECIFICATION FairSpec
INVARIANTS
  TypeOK
  ConnectedIndex
PROPERTIES
  RollbackOnlyOnFork
  FirstReorgIsRecoverable
  IndexCatchesUp
CHECK_DEADLOCK FALSE
