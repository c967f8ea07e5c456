SPECIFICATION Spec
CONSTANTS
  Coordinators = {a, b}
  Long = 1
  Runs = {1, 2}
  ChainOf <- MCChainOf
  Gated = {1}
  MaxStages = 2
  MaxAttempts = 2
  MaxQueued = 2
  MaxRunning = 1
  MaxAborts = 1
  OperatorsRace = TRUE
PROPERTY EndedForGood
