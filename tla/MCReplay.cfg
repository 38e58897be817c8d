CONSTANTS
  Scenarios <- AllScenarios
  Templates <- AllTemplates
  MaxInputs = 4
  MaxTxs = 16
  MaxHeight = 20
  FirstRuneHeight = 2
  InitialReward = 200
  HalvingInterval = 210000
  MaxHalvings = 128
  LotModulus = 4194304
  CoinbaseMaturity = 1
SPECIFICATION ReplaySpec
INVARIANTS
  TestsHold
  SimulationForetells
PROPERTIES
  SimulationIndexes
