SPECIFICATION FairSpec
CONSTANTS
  Coordinators = {a, b}
  Long = 3
  Runs = {1, 2, 3}
  ChainOf <- MCChainOf
  Gated = {3}
  MaxStages = 2
  MaxAttempts = 2
  MaxQueued = 2
  MaxRunning = 1
  MaxAborts = 1
  OperatorsRace = FALSE
INVARIANTS TypeOK QueueQuota
PROPERTIES OneLeaseAtATime ImplementsLifecycle RunsAdvance
