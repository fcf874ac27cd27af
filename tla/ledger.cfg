SPECIFICATION StartedSpec
CONSTANTS
  Tasks = {t1}
  Dependencies <- NoDependencies
  MaxRepairs <- NoRepairs
  Revisions = {r1, r2}
  NoRevision = NoRevision
  EvidenceIds = {v1, v2, v3}
  ApprovalIds = {a1}
  Signatures = {s1}
  Executions = {e1, e2, e3}
  NoTask = NoTask
  Second = NoTask
  Budget <- LedgerBudget
  Timeouts = {1, 2}
  Reports <- LedgerReports
SYMMETRY LedgerSymmetry
INVARIANTS
  LedgerMatchesExecutions
  QualityReserveKept
  ConcurrencyBounded
  UncertaintyIsolates
  ElapsedMatchesExecutions
PROPERTIES
  ClosedIsFinal
  StaleStaysStale
  CallsAreAccounted
CHECK_DEADLOCK FALSE
