CONSTANTS
  Templates <- EdictTemplates
  MaxInputs = 2
  MaxTxs = 4
  MaxHeight = 0
  FirstRuneHeight = 0
  InitialReward = 5
  HalvingInterval = 2
  MaxHalvings = 3
  LotModulus = 1024
  CoinbaseMaturity = 2
SPECIFICATION Spec
INVARIANTS
  TypeOK
  Conservation
  ConvertedIsAllocated
  BalancesUnspent
  InputReturned
PROPERTIES
  SupplyFollowsCurve
