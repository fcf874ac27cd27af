SPECIFICATION StoreSpec
CONSTANTS
  Tasks = {t1}
  Dependencies <- NoDependencies
  MaxRepairs <- OneRepair
  Revisions = {r1}
  NoRevision = NoRevision
  EvidenceIds = {v1}
  ApprovalIds = {}
  Signatures = {}
  Executions = {e1}
  NoTask = NoTask
  Second = NoTask
  Budget <- LedgerBudget
  Timeouts = {1}
  Reports <- TaskReports
PROPERTIES
  TerminalStaysTerminal
CHECK_DEADLOCK FALSE
