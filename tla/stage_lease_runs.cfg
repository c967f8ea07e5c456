SPECIFICATION Spec
CONSTANTS
  Runs = {r1, r2, r3}
  Apart = {r3}
  MaxStages = 3
  MaxAttempts = 2
  Nodes = {n1, n2}
  NoNode = NoNode
  EdgeNodes = {n2}
  Main = main
  Side = side
  Projects <- MCProjects
  ProjectOf <- MCProjectOf
  NodeSlots = 1
  NodeMax <- MCNodeMax
  RunningLimit = 1
  MaxRunning <- MCMaxRunning
  QueueLimit = 2
  MaxQueued <- MCMaxQueued
  Modes = {"sequential", "parallel"}
  GlobalCaps = {1}
  LeaseTtl = 1
  ToolCrashes = TRUE
  Console = TRUE
SYMMETRY RunSymmetry
CONSTRAINT AloneOrShort
INVARIANTS TypeOK ChainOrder WipedHoldsNothing
PROPERTIES RevokedStandsStill ApprovalGate ImplementsLifecycle CapsRespected
CHECK_DEADLOCK FALSE
