SPECIFICATION Spec
CONSTANTS
  Direct = {d}
  Scheduled = {s}
  Branches = {"x", "y"}
  Working = {"x"}
  MaxStarted = 1
  MaxSends = 2
  TemporalFaults = 4
  Coordinators = {a, b}
  MaxAttempts = 2
  MaxEvents = 2
  BatchSize = 2
  MaxReplays = 1
  SinkFaults = 1
  Artifacts = {x}
  LockModes = {TRUE, FALSE}
  StoreFaults = 3
INVARIANTS TypeOK ClosedIsSettled CancellationStands SleepsOnNews LettersMatch RowsTellTheTruth
PROPERTIES InstancesEnd EventsSettle DeletionsSettle
CHECK_DEADLOCK FALSE
