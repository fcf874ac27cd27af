SPECIFICATION OrderedSpec
CONSTANTS
  Tasks = {t1}
  Dependencies <- NoDependencies
  MaxRepairs <- OneRepair
  Revisions = {0, 1, 2}
  NoRevision = NoRevision
  EvidenceIds <- WorkflowEvidence
  ApprovalIds = {}
  Signatures = {f1}
  Executions = {1, 2, 3, 4}
  NoTask = NoTask
  Budget <- WorkflowBudget
  Timeouts = {1}
  Reports <- PlainReports
  Contexts = {c1}
  NoContext = NoContext
  Sessions = {1}
  NoSession = NoSession
  NoExec = NoExec
  Subtasks <- Single
  Processes = {1, 2}
  BaseRevision = 0
INVARIANTS
  PackagedWasVerified
CHECK_DEADLOCK FALSE
