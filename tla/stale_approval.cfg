SPECIFICATION StartedSpec
CONSTANTS
  Tasks = {t1}
  Dependencies <- NoDependencies
  MaxRepairs <- OneRepair
  Revisions = {r1, r2}
  NoRevision = NoRevision
  EvidenceIds = {v1, v2, v3}
  ApprovalIds = {a1}
  Signatures = {}
  Executions = {}
  NoTask = NoTask
  Second = NoTask
  Budget <- LedgerBudget
  Timeouts = {1}
  Reports <- TaskReports
INVARIANTS
  ApprovalsNameHead
CHECK_DEADLOCK FALSE
