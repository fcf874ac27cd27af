SPECIFICATION OrderedSpec
CONSTANTS
  Tasks = {t1}
  Dependencies <- NoDependencies
  MaxRepairs <- TwoRepairs
  Revisions = {0, 1, 2, 3}
  NoRevision = NoRevision
  EvidenceIds <- DeliveryEvidence
  ApprovalIds = {}
  Signatures = {1, 2, 3}
  Executions = {1, 2, 3, 4, 5, 6, 7, 8, 9}
  NoTask = NoTask
  Budget <- DeliveryBudget
  Timeouts = {1}
  Reports <- DeliveryReports
  Contexts = {c1}
  NoContext = NoContext
  Sessions = {1, 2}
  NoSession = NoSession
  NoExec = NoExec
  Processes = {1, 2, 3, 4}
  BaseRevision = 0
INVARIANTS
  NamesAreFresh
  RepairAddressesHead
  BudgetCoversPath
  NoFindingOverridden
PROPERTIES
  CandidateIsDelivered
  DriveDescends
  DrivesEnd
CHECK_DEADLOCK FALSE
