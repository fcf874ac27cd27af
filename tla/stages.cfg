SPECIFICATION SequentialSpec
CONSTANTS
  Tasks = {t1}
  Dependencies <- NoDependencies
  MaxRepairs <- OneRepair
  Revisions = {0, 1, 2}
  NoRevision = NoRevision
  EvidenceIds <- WorkflowEvidence
  ApprovalIds = {}
  Signatures = {f1}
  Executions = {1, 2, 3, 4, 5, 6}
  NoTask = NoTask
  Budget <- WorkflowBudget
  Timeouts = {1}
  Reports <- AllReports
  Contexts = {c1}
  NoContext = NoContext
  Sessions = {1, 2}
  NoSession = NoSession
  NoExec = NoExec
  Subtasks <- Single
  Processes = {1, 2, 3}
  BaseRevision = 0
INVARIANTS
  WorkflowTypeOK
  StagesFollowNodes
  CheckpointNamesNode
PROPERTIES
  CandidateIsDelivered
CHECK_DEADLOCK FALSE
