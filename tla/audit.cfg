SPECIFICATION AuditSpec
CONSTANTS
  s1 = s1
  s2 = s2
  s3 = s3
  Stake = {s1, s2, s3}
  CycleIdOf <- MCCycleIdOf
  UnitsOf <- MCUnitsOf
  Outcome <- MCOutcome
  NoOutcome = NoOutcome
  Times = {1, 2}
  MaxHalves = 1
  MaxReads = 4
  Bounds <- MCBounds
  Invented <- MCInvented
  Explored <- MCExplored
  MaxInt = 4
INVARIANTS EveryHalfAccountedFor RowsTellTheLedger DeliveryDoesNotMatter AcceptedReportMisstatesNothing
  AcceptedReportIsTheLedger HonestArchiveAccepted MissingPeriodBreaksChain RewrittenReportIsAFinding
CHECK_DEADLOCK FALSE
