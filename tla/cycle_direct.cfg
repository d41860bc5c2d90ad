\* A dry-run venue whose parties also create contracts without a choice.
SPECIFICATION Spec
CONSTANTS
  TicksPerSecond = 2
  Player = {p1}
  Auditor = {a1}
  NoAuditor = NoAuditor
  Mode = "DryRun"
  Custody = "TimeLockedHolding"
  Policies <- DirectPolicies
  Amount = {1}
  Fee = {0}
  CycleTag = {t1}
  LockId = {}
  NoRef = NoRef
  MaxConcurrency = 1
  Copies = 1
  MaxTime = 6
  FreshCycleIds = FALSE
  DirectCreation = TRUE
  Claims = {0, 2}
  Legacy = {}
INVARIANT CreatedRateBounded
CHECK_DEADLOCK FALSE
