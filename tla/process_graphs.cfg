SPECIFICATION OneOfBoth
CONSTANTS
  Instances = {"t", "p", "c"}
  Graph <- BothGraphs
  NodesOf <- BothNodes
  StartOf <- BothStart
  ForkOf <- BothFork
  ChildOf <- BothChild
  Compensated = {"hotel", "ticket", "book", "pay"}
  Timed = {"reply", "await"}
  Contracted = {"write"}
  Fragile = {"ticket", "report", "order", "tell"}
  MaxAttempts = 2
  MaxIterations = 2
  MaxMoves = 18
  MaxCalls = 24
  LapseTogether = FALSE
INVARIANTS TypeOK StoppedForGood TokensAtWork JoinsWillWake QueuedIsFound
INVARIANTS EndedIsQuiet SagaSettled FamilyTied
PROPERTIES JoinNeedsAll ImplementsSaga InstancesEnd
CHECK_DEADLOCK FALSE
