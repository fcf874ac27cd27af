SPECIFICATION OrderedSpec
CONSTANTS
  Tasks = {t1}
  Dependencies <- NoDependencies
  MaxRepairs <- OneRepair
  Revisions = {0, 1, 2}
  NoRevision = NoRevision
  EvidenceIds <- WorkflowEvidence
  ApprovalIds = {}
  Signatures = {f1}
  Executions = {1, 2, 3}
  NoTask = NoTask
  Budget <- WorkflowBudget
  Timeouts = {1}
  Reports <- LoginReports
  Contexts = {c1}
  NoContext = NoContext
  Sessions = {1}
  NoSession = NoSession
  NoExec = NoExec
  Subtasks <- Pair
  Processes = {1, 2}
  BaseRevision = 0
INVARIANTS
  AtMostOneLateStart
  NodeHasOneDriver
PROPERTIES
  CommandsEnd
CHECK_DEADLOCK FALSE
