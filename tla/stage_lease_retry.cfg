SPECIFICATION FairSpec
CONSTANTS
  Runs = {r1}
  Apart = {}
  MaxStages = 2
  MaxAttempts = 3
  Nodes = {n1, n2}
  NoNode = NoNode
  EdgeNodes = {n2}
  Main = main
  Side = side
  Projects <- MCProjects
  ProjectOf <- MCProjectOf
  NodeSlots = 1
  NodeMax <- MCNodeMax
  RunningLimit = 1
  MaxRunning <- MCMaxRunning
  QueueLimit = 2
  MaxQueued <- MCMaxQueued
  Modes = {"sequential"}
  GlobalCaps = {1}
  LeaseTtl = 2
  ToolCrashes = FALSE
  Console = FALSE
INVARIANTS LeaseLedger RiskyCallNotRetried
PROPERTIES LeaseSettledOnce RunsAdvance
CHECK_DEADLOCK FALSE
