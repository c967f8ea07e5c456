SPECIFICATION Spec
CONSTANTS
  Ids = {c1}
  MaxAttempts = 2
  Actors = {a1, a2}
  Web = web
  Job = job
  Targets = {job}
  Sandboxed = {job}
  NoTarget = NoTarget
  Annotated <- MCAnnotated
  Rules = {"allow", "critical"}
  Overrides = {"none"}
  LeaseTtl = 1
  ApprovalTtl = 1
  Window = 1
  MaxChanges = 2
INVARIANT EffectNotRepeated
CHECK_DEADLOCK FALSE
