SPECIFICATION ImplementingSpec
CONSTANTS
  Tasks = {t1, t2}
  Dependencies <- NoDependencies
  MaxRepairs <- NoRepairs
  Revisions = {r1}
  NoRevision = NoRevision
  EvidenceIds = {}
  ApprovalIds = {}
  Signatures = {}
  Executions = {e1, e2}
  NoTask = NoTask
  Budget <- AuthBudget
  Timeouts = {1}
  Reports <- LoginFailures
  Contexts = {c1}
  NoContext = NoContext
  Sessions = {s1, s2}
  NoSession = NoSession
  NoExec = NoExec
PROPERTIES
  LoginIsShared
CHECK_DEADLOCK FALSE
