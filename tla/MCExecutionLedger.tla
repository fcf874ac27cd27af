-------------------------- MODULE MCExecutionLedger --------------------------
(***************************************************************************)
(* Small instances of ExecutionLedger for TLC.                             *)
(***************************************************************************)
EXTENDS ExecutionLedger, TLC

CONSTANT Second  \* the task that depends on the other, or NoTask

\* Four calls, one kept for verification and one for review; two may be
\* outstanding at once; the elapsed limit is reached before the call limit
\* when calls overrun.
LedgerBudget == [t \in Tasks |->
  [max_calls |-> 4, max_elapsed |-> 5, max_concurrency |-> 2, max_timeout |-> 2,
   verification_reserve |-> 1, review_reserve |-> 1]]

NoDependencies == [t \in Tasks |-> {}]
\* t2 needs t1, where there are two tasks.
Chain == [t \in Tasks |-> IF t = Second THEN Tasks \ {t} ELSE {}]
NoRepairs == [t \in Tasks |-> 0]
OneRepair == [t \in Tasks |-> 1]

\* A call within its allocation, one that overran it, and a malformed review.
LedgerReports ==
  {[status |-> "succeeded", elapsed |-> 1, result |-> "other"],
   [status |-> "failed",    elapsed |-> 3, result |-> "format"]}

\* A task that is about to be implemented and already has passing checks of its
\* head recorded (add_evidence asks for the head, not for a state), or one that
\* has the evidence of every stage and waits for its approval.
Begun ==
  {[moved |-> <<"contracted", "workspace_ready">>, kinds |-> {"independent-check"}],
   [moved |-> <<"packaging", "awaiting_pr_approval">>, kinds |-> EvidenceKinds]}

StartedInit ==
  \E begun \in Begun, kinds \in [EvidenceIds -> EvidenceKinds] :
    /\ {kinds[v] : v \in EvidenceIds} = begun.kinds
    /\ task = [t \in Tasks |->
         [state |-> begun.moved[2], contract |-> TRUE, workspace |-> TRUE,
          head |-> CHOOSE r \in Revisions : TRUE, repairs |-> 0, moved |-> begun.moved]]
    /\ failures = [t \in Tasks |-> [s \in Signatures |-> 0]]
    /\ evidence = {[id |-> v, task |-> t, revision |-> task[t].head, kind |-> kinds[v],
                    status |-> "passed", stale |-> FALSE] : v \in EvidenceIds, t \in Tasks}
    /\ approvals = {} /\ approving = {}
    /\ LedgerInit

StartedSpec == StartedInit /\ [][StoreNext]_storeVars

\* One call at a time: the outcomes the task half tells apart.
TaskReports == {[status |-> "succeeded", elapsed |-> 1, result |-> "other"],
                [status |-> "failed",    elapsed |-> 1, result |-> "format"]}

TaskSymmetry == Permutations(EvidenceIds) \cup Permutations(Signatures)

\* Second waits, contracted and with its workspace, for a task under review.
WaitingInit ==
  /\ task = [t \in Tasks |->
       [state     |-> IF t = Second THEN "contracted" ELSE "reviewing",
        contract  |-> TRUE, workspace |-> TRUE,
        head      |-> CHOOSE r \in Revisions : TRUE, repairs |-> 0,
        moved     |-> IF t = Second THEN <<"received", "contracted">>
                                    ELSE <<"verified", "reviewing">>]]
  /\ failures = [t \in Tasks |-> [s \in Signatures |-> 0]]
  /\ \E id \in EvidenceIds :
       evidence = {[id |-> id, task |-> t, revision |-> task[t].head,
                    kind |-> "independent-check", status |-> "passed",
                    stale |-> FALSE] : t \in Tasks \ {Second}}
  /\ approvals = {} /\ approving = {}
  /\ LedgerInit

WaitingSpec == WaitingInit /\ [][StoreNext]_storeVars

LedgerSymmetry == Permutations(EvidenceIds) \cup Permutations(Executions)
=============================================================================
