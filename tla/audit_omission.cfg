SPECIFICATION AuditSpec
CONSTANTS
  s1 = s1
  s2 = s2
  s3 = s3
  Stake = {s1, s2}
  CycleIdOf <- MCCycleIdOf
  UnitsOf <- MCUnitsOf
  Outcome <- MCOutcome
  NoOutcome = NoOutcome
  Times = {1, 2}
  MaxHalves = 2
  MaxReads = 4
  Bounds <- MCBounds
  Invented = {}
  Explored <- MCExplored
  MaxInt = 4
INVARIANT EveryHalfAccountedFor
CHECK_DEADLOCK FALSE
