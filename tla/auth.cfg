SPECIFICATION ImplementingSpec
CONSTANTS
  Tasks = {t1, t2}
  Dependencies <- NoDependencies
  MaxRepairs <- NoRepairs
  Revisions = {r1, r2}
  NoRevision = NoRevision
  EvidenceIds = {}
  ApprovalIds = {}
  Signatures = {}
  Executions = {e1, e2}
  NoTask = NoTask
  Budget <- AuthBudget
  Timeouts = {1}
  Reports <- LoginFailures
  Contexts = {c1}
  NoContext = NoContext
  Sessions = {s1, s2, s3}
  NoSession = NoSession
  NoExec = NoExec
SYMMETRY AuthSymmetry
INVARIANTS
  OneInteractiveLogin
  OneOpenSession
  ParkedTaskIsIdle
  CheckpointMatchesSession
PROPERTIES
  ResumeRestoresStage
CONSTRAINT AtInterruptedStage
CHECK_DEADLOCK FALSE
