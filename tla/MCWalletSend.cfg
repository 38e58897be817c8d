CONSTANTS
  Seeds <- TwoSeeds
  Crowd <- Others
  Commands <- EveryCommand
  LateBlocks = FALSE
  Templates <- Templates_
  MaxInputs = 4
  MaxTxs = 1
  MaxHeight = 2
  FirstRuneHeight = 0
  InitialReward = 24
  HalvingInterval = 1
  MaxHalvings = 3
  LotModulus = 16384
  U128Max = 16383
  CoinbaseMaturity = 1
SPECIFICATION WalletSpec
INVARIANTS
  SendLeavesOther
CHECK_DEADLOCK FALSE
