CONSTANTS
  Rewards = {4, 8}
  MaxSupply = 6
  Slots = 3
  BaseValue = 3
  BlocksPerYear = 2
  MaxRates = 5
  MaxBonds = 7
SPECIFICATION BlockSpec
INVARIANTS
  RoundTripNoGain
  SplitNoGain
  ExactOutputIsCheapest
  RingHoldsLastRates
  InterestRateIsMedian
  UtilsAreDefined
PROPERTIES
  ConvertLosesLessThanOne
  IssueTracksReward
CHECK_DEADLOCK FALSE
