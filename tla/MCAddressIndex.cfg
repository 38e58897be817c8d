CONSTANTS
  Chain <- FourBlocks
  FirstRuneHeight = 1
  CommitInterval = 2
  BatchSize = 3
  ParallelRequests = 2
  RequestCap = 3
  MaxRestarts = 3
  MaxErrors = 2
SPECIFICATION Spec
INVARIANTS
  AddressesAreUnspent
  AnswerIsSpent
  NothingIsLeftOver
PROPERTIES
  AddressesCatchUp
CHECK_DEADLOCK FALSE
