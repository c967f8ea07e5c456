SPECIFICATION Spec
CONSTANTS
  Exporters = {a}
  MaxEvents = 2
  BatchSize = 2
  MaxAttempts = 2
  MaxReplays = 1
  MaxFaults = 1
PROPERTIES PurgedForGood
CHECK_DEADLOCK FALSE
