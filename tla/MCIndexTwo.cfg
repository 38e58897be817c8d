CONSTANTS
  u1 = u1
  u2 = u2
  Updaters <- TwoUpdaters
  NoUpdater = NoUpdater
  CommitInterval = 1
  QueueCap = 2
  HeightLimit = 99
  MaxSavepoints = 2
  Interval = 3
  TipDistance = 7
  MaxBlocks = 5
  MaxReorgs = 1
  MaxReorgDepth = 2
  MaxErrors = 0
  MaxCrashes = 0
SYMMETRY Symmetry
SPECIFICATION Spec
INVARIANTS
  ConnectedIndex
CHECK_DEADLOCK FALSE
