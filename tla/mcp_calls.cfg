SPECIFICATION FairSpec
CONSTANTS
  Ids = {c1}
  MaxAttempts = 2
  Actors = {a1, a2}
  Web = web
  Job = job
  Targets = {web, job}
  Sandboxed = {job}
  NoTarget = NoTarget
  Annotated <- MCAnnotated
  Rules = {"allow", "critical"}
  Overrides = {"none", "allow"}
  LeaseTtl = 2
  ApprovalTtl = 0
  Window = 0
  MaxChanges = 2
INVARIANTS TypeOK FourEyes NothingWaitsUnderDeny
PROPERTIES ImplementsLedger
CHECK_DEADLOCK FALSE
