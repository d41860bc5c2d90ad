\* The client's pure parts over small sets of inputs, and the quota of two processes.
SPECIFICATION ClientSpec
CONSTANTS
  Jobs <- ClientJobs
  TicksPerSecond = 2
  MaxInt = 7
  Absent = Absent
  Process = {w1, w2}
  Cost = {1, 2}
  windowMs = 2
  maxWrites = 2
  MaxNow = 5
  MaxRestarts = 1
INVARIANTS DocumentsDistinct PeriodProofsExact TenantsSeparated ChecksAgreeWithLedger SubmissionsFitLedger RetriesKeepTheirId QuotaBurstBounded QuotaRateBounded GreenRunIsEvidence SuiteVouchesForClient
SYMMETRY Processes
CHECK_DEADLOCK FALSE
