\* One player, one slot, two cycles long: policies, locks, proofs, timing and exits.
SPECIFICATION FairSpec
CONSTANTS
  TicksPerSecond = 2
  Player = {p1}
  Auditor = {}
  NoAuditor = NoAuditor
  Mode = "Live"
  Custody = "TimeLockedHolding"
  Policies <- OneSlotPolicies
  Amount = {1}
  Fee = {0}
  CycleTag = {t1, t2}
  LockId = {l1}
  NoRef = NoRef
  MaxConcurrency = 1
  Copies = 2
  MaxTime = 9
  FreshCycleIds = TRUE
  DirectCreation = FALSE
  Claims = {}
  Legacy = {}
INVARIANTS TypeOK MinimumRunByExpiry CycleRateBounded
PROPERTIES LiveCyclesAreProved StakesAlwaysClose
CHECK_DEADLOCK FALSE
