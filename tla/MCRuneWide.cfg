CONSTANTS
  Templates <- WideTemplates
  MaxInputs = 2
  MaxTxs = 3
  MaxHeight = 0
  FirstRuneHeight = 0
  InitialReward = 40
  HalvingInterval = 2
  MaxHalvings = 3
  LotModulus = 4096
  CoinbaseMaturity = 2
SPECIFICATION Spec
INVARIANTS
  OutstandingIsSupplyMinusBurned
