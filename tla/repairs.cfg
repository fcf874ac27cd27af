SPECIFICATION WaitingSpec
CONSTANTS
  Tasks = {t1, t2}
  Dependencies <- Chain
  MaxRepairs <- OneRepair
  Revisions = {r1}
  NoRevision = NoRevision
  EvidenceIds = {v1, v2, v3}
  ApprovalIds = {}
  Signatures = {f1, f2}
  Executions = {e1}
  NoTask = NoTask
  Second = t2
  Budget <- LedgerBudget
  Timeouts = {1}
  Reports <- TaskReports
SYMMETRY TaskSymmetry
INVARIANTS
  EveryStageEvidenced
  RepeatedFailureIsFinal
  RepairsPaidFor
  DependenciesStayReviewed
CHECK_DEADLOCK FALSE
