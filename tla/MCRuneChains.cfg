CONSTANTS
  Templates <- ChainTemplates
  MaxInputs = 2
  MaxTxs = 7
  MaxHeight = 2
  FirstRuneHeight = 0
  InitialReward = 5
  HalvingInterval = 2
  MaxHalvings = 3
  LotModulus = 1024
  CoinbaseMaturity = 2
SPECIFICATION Spec
INVARIANTS
  ChainEndUnspent
  OneMintPerBlock
PROPERTIES
  ConversionsDescend
