SPECIFICATION Spec
CONSTANTS
  Customers <- TwoCustomers
  Valuation <- Valuations
  Balance <- Balances
  Populations <- OnlyLearning
  Flows = {0}
  EgressPorts <- OnePort
  Capacity = 4
  Traffic <- Loads
  Tried = {1, 5}
  MaxAuctions = 2
  MaxRuns = 2
  MaxFaults = 1
  ReservationPrice = 2
  Multiplier = 2
  Alpha <- Halves
  Epsilon = 1
  CheapPercent = 80
  HighDemand = 3
  Window = 2
INVARIANT
  RewardIsPreviousRound
CHECK_DEADLOCK FALSE
