SPECIFICATION Spec
CONSTANTS
  Instances = {"p", "c"}
  Graph <- LaterGraph
  NodesOf <- LaterNodes
  StartOf <- LaterStart
  ForkOf <- None
  ChildOf <- LaterChild
  Compensated = {}
  Timed = {}
  Contracted = {}
  Fragile = {"order"}
  MaxAttempts = 2
  MaxIterations = 0
  MaxMoves = 20
  MaxCalls = 24
  LapseTogether = FALSE
INVARIANTS ChildAwaited
CHECK_DEADLOCK FALSE
