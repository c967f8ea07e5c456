SPECIFICATION Spec
CONSTANTS
  Runs = {r1}
  Apart = {}
  MaxStages = 1
  MaxAttempts = 2
  Nodes = {n1}
  NoNode = NoNode
  EdgeNodes = {}
  Main = main
  Side = side
  Projects <- MCProjects
  ProjectOf <- MCProjectOf
  NodeSlots = 1
  NodeMax <- MCNodeMax
  RunningLimit = 1
  MaxRunning <- MCMaxRunning
  QueueLimit = 2
  MaxQueued <- MCMaxQueued
  Modes = {"sequential"}
  GlobalCaps = {1}
  LeaseTtl = 1
  ToolCrashes = FALSE
  Console = TRUE
INVARIANTS RiskyCallNotRetried
CHECK_DEADLOCK FALSE
