--------------------------- MODULE MCAuthRecovery ---------------------------
(***************************************************************************)
(* Small instances of AuthRecovery for TLC: tasks being implemented, whose *)
(* next call may fail for want of a login.                                 *)
(***************************************************************************)
EXTENDS AuthRecovery, TLC

NoDependencies == [t \in Tasks |-> {}]
NoRepairs == [t \in Tasks |-> 0]

AuthBudget == [t \in Tasks |->
  [max_calls |-> 3, max_elapsed |-> 3, max_concurrency |-> 1, max_timeout |-> 1,
   verification_reserve |-> 1, review_reserve |-> 0]]

LoginFailures == {[status |-> "failed", elapsed |-> 1, result |-> "authentication"]}

ImplementingInit ==
  /\ task = [t \in Tasks |->
       [state |-> "implementing", contract |-> TRUE, workspace |-> TRUE,
        head |-> CHOOSE r \in Revisions : TRUE, repairs |-> 0,
        moved |-> <<"workspace_ready", "implementing">>]]
  /\ failures = [t \in Tasks |-> [s \in Signatures |-> 0]]
  /\ evidence = {} /\ approvals = {} /\ approving = {}
  /\ LedgerInit
  /\ AuthTablesInit

ImplementingSpec == ImplementingInit /\ [][AuthNext]_allVars

\* What follows the interrupted stage is left to the other runs.
AtInterruptedStage ==
  \A t \in Tasks :
    task[t].state \in Stages \cup {"authentication_required", "blocked", "cancelled"}

AuthSymmetry ==
  Permutations(Tasks) \cup Permutations(Sessions) \cup Permutations(Executions)
=============================================================================
