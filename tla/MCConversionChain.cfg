CONSTANTS
  Pool <- Others
  Supply <- Supplies
  Rewards <- Issues
  Commands <- EveryCommand
  U128Max = 16383
  TestSize = 200
  OwnSize = 250
  CountLimit = 3
  MaxEvicted = 1
SPECIFICATION Spec
INVARIANTS
  ReportedIsConverted
  ReplacementIsTaken
  SpenderIsFound
  WholeChainIsFound
PROPERTIES
  LookupEnds
CHECK_DEADLOCK FALSE
