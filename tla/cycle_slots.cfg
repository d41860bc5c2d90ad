\* One player with two slots under a policy the operator keeps changing.
SPECIFICATION Spec
CONSTANTS
  TicksPerSecond = 2
  Player = {p1}
  Auditor = {}
  NoAuditor = NoAuditor
  Mode = "Live"
  Custody = "TimeLockedHolding"
  Policies <- ChangingPolicies
  Amount = {1}
  Fee = {0}
  CycleTag = {t1, t2}
  LockId = {l1}
  NoRef = NoRef
  MaxConcurrency = 2
  Copies = 2
  MaxTime = 5
  FreshCycleIds = TRUE
  DirectCreation = FALSE
  Claims = {}
  Legacy = {}
SYMMETRY Symmetry
INVARIANTS SlotUniqueness ConcurrencyLimitHeld EveryStakeRecycles ProofUsedOnce
PROPERTY ImplementsSlotLifecycle
CHECK_DEADLOCK FALSE
