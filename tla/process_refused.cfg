SPECIFICATION Spec
CONSTANTS
  Instances = {"p"}
  Graph <- PairGraph
  NodesOf <- PairNodes
  StartOf <- PairStart
  ForkOf <- PairFork
  ChildOf <- None
  Compensated = {}
  Timed = {}
  Contracted = {}
  Fragile = {"book"}
  MaxAttempts = 2
  MaxIterations = 0
  MaxMoves = 20
  MaxCalls = 24
  LapseTogether = FALSE
INVARIANTS StoppedForGood
CHECK_DEADLOCK FALSE
