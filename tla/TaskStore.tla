------------------------------ MODULE TaskStore ------------------------------
(***************************************************************************)
(* The task half of the controller store (agentkit/controller.py): task    *)
(* rows and their transition table, evidence, approvals and the failure    *)
(* signatures that bound repairs.  Every operation is one BEGIN IMMEDIATE  *)
(* transaction, so each is one action; record_user_approval alone reads    *)
(* the task before its transaction starts and is two.                      *)
(*                                                                         *)
(* A row of a table that only grows is a record in a set (evidence,        *)
(* approvals).  Objectives, timestamps, next_action, version and the event *)
(* log are not state any operation decides on, with one exception: the     *)
(* last 'transition' event of a task, kept here as task[t].moved.          *)
(***************************************************************************)
EXTENDS Integers, FiniteSets

CONSTANTS
  Tasks,         \* task ids
  Dependencies,  \* Dependencies[t]: the task ids t was created with
  MaxRepairs,    \* MaxRepairs[t]: max_repairs given to create_task
  Revisions,     \* Git revisions of candidates
  NoRevision,    \* head_revision IS NULL
  EvidenceIds,   \* evidence ids callers may use
  ApprovalIds,   \* approval ids
  Signatures     \* failure signatures

ASSUME DependenciesAssumption == Dependencies \in [Tasks -> SUBSET Tasks]
ASSUME MaxRepairsAssumption == MaxRepairs \in [Tasks -> 0..2]
ASSUME NoRevisionAssumption == NoRevision \notin Revisions

VARIABLES
  task,       \* task[t]: the task's row, "absent" until it is created
  failures,   \* failures[t][s]: how often signature s was recorded for t
  evidence,   \* rows of the evidence table
  approvals,  \* rows of the approvals table
  approving   \* record_user_approval calls between their read and their insert

taskVars == <<task, failures, evidence, approvals, approving>>

-----------------------------------------------------------------------------
(* The first eleven rows of TRANSITIONS, without the two targets each of   *)
(* them also allows.                                                       *)
Onward ==
  {<<"received", "contracted">>, <<"contracted", "workspace_ready">>,
   <<"workspace_ready", "implementing">>, <<"implementing", "implemented">>,
   <<"implemented", "verifying">>, <<"verifying", "verified">>,
   <<"verifying", "repairing">>, <<"verified", "reviewing">>,
   <<"reviewing", "review_complete">>, <<"reviewing", "repairing">>,
   <<"review_complete", "packaging">>, <<"review_complete", "repairing">>,
   <<"repairing", "implemented">>, <<"packaging", "awaiting_pr_approval">>}

Working ==
  {"received", "contracted", "workspace_ready", "implementing", "implemented",
   "verifying", "verified", "reviewing", "review_complete", "repairing",
   "packaging"}

States == Working \cup {"absent", "authentication_required",
                        "awaiting_pr_approval", "blocked", "cancelled"}

Transitions ==
  Onward \cup (Working \X {"blocked", "cancelled"})
         \cup {<<"authentication_required", "cancelled">>}

\* Evidence kind a transition into a state demands.
GateKind == [verified             |-> "independent-check",
             review_complete      |-> "independent-review",
             awaiting_pr_approval |-> "approval-package"]

EvidenceKinds == {"independent-check", "independent-review", "approval-package"}

\* "failed" stands for failed, blocked and unverified: no operation tells them apart.
EvidenceStatuses == {"passed", "failed"}

TaskRow == [state     : States,
            contract  : BOOLEAN,                      \* contract_json IS NOT NULL
            workspace : BOOLEAN,                      \* branch, worktree, base set
            head      : Revisions \cup {NoRevision},  \* head_revision
            repairs   : 0..2,                         \* repair_count
            moved     : States \X States]             \* last 'transition' event

EvidenceRow == [id : EvidenceIds, task : Tasks, revision : Revisions,
                kind : EvidenceKinds, status : EvidenceStatuses, stale : BOOLEAN]

ApprovalRow == [id : ApprovalIds, task : Tasks, head : Revisions, stale : BOOLEAN]

TaskTypeOK ==
  /\ task \in [Tasks -> TaskRow]
  /\ failures \in [Tasks -> [Signatures -> Nat]]
  /\ evidence \subseteq EvidenceRow
  /\ approvals \subseteq ApprovalRow
  /\ approving \subseteq [task : Tasks, head : Revisions]

AbsentTask == [state |-> "absent", contract |-> FALSE, workspace |-> FALSE,
               head |-> NoRevision, repairs |-> 0, moved |-> <<"absent", "absent">>]

TaskInit ==
  /\ task = [t \in Tasks |-> AbsentTask]
  /\ failures = [t \in Tasks |-> [s \in Signatures |-> 0]]
  /\ evidence = {}
  /\ approvals = {}
  /\ approving = {}

Exists(t) == task[t].state # "absent"

\* A passing, non-stale evidence row of this kind for exactly the current head.
CurrentEvidence(t, kind) ==
  \E v \in evidence : /\ v.task = t /\ v.kind = kind /\ v.status = "passed"
                      /\ v.revision = task[t].head /\ ~v.stale

MoveTo(t, state) == task' = [task EXCEPT ![t].state = state]

-----------------------------------------------------------------------------
CreateTask(t) ==
  /\ ~Exists(t)
  /\ MoveTo(t, "received")
  /\ UNCHANGED <<failures, evidence, approvals, approving>>

\* Mutant: a dependency counts once its own review is complete.
ReviewedAtLeast(t) ==
  \A d \in Dependencies[t] :
    task[d].state \in {"review_complete", "packaging", "awaiting_pr_approval"}

DependenciesReady(t) ==
  \A d \in Dependencies[t] : task[d].state = "awaiting_pr_approval"

Transition(t, expected, target) ==
  /\ task[t].state = expected
  /\ <<expected, target>> \in Transitions
  /\ target = "contracted" => task[t].contract
  /\ target = "workspace_ready" => task[t].workspace /\ DependenciesReady(t)
  /\ target \in DOMAIN GateKind => CurrentEvidence(t, GateKind[target])
  /\ task' = [task EXCEPT ![t].state = target, ![t].moved = <<expected, target>>]
  /\ UNCHANGED <<failures, evidence, approvals, approving>>

SetContract(t) ==
  /\ task[t].state = "received"
  /\ task' = [task EXCEPT ![t].contract = TRUE]
  /\ UNCHANGED <<failures, evidence, approvals, approving>>

\* base_revision and head_revision are both set to the base; nothing is marked stale.
SetWorkspace(t, base) ==
  /\ task[t].state = "contracted"
  /\ task' = [task EXCEPT ![t].workspace = TRUE, ![t].head = base]
  /\ UNCHANGED <<failures, evidence, approvals, approving>>

\* Mutant: staleness is recomputed from the new head.
StaleExactlyIf(row, outdated) == [row EXCEPT !.stale = outdated]

StaleIf(row, outdated) == IF outdated THEN [row EXCEPT !.stale = TRUE] ELSE row

SetHead(t, revision) ==
  /\ Exists(t)
  /\ task' = [task EXCEPT ![t].head = revision]
  /\ IF task[t].head = revision
     THEN UNCHANGED <<evidence, approvals>>
     ELSE /\ evidence' = {StaleIf(v, v.task = t /\ v.revision # revision) : v \in evidence}
          /\ approvals' = {StaleIf(a, a.task = t /\ a.head # revision) : a \in approvals}
  /\ UNCHANGED <<failures, approving>>

\* evidence_id is the primary key of the whole store, not of the task.
AddEvidence(t, id, revision, kind, status) ==
  /\ Exists(t)
  /\ revision = task[t].head
  /\ \A v \in evidence : v.id # id
  /\ evidence' = evidence \cup
       {[id |-> id, task |-> t, revision |-> revision, kind |-> kind,
         status |-> status, stale |-> FALSE]}
  /\ UNCHANGED <<task, failures, approvals, approving>>

-----------------------------------------------------------------------------
(* record_failure: count the signature, then block on a repetition, block  *)
(* on an exhausted repair count, or allow one repair more.                 *)

CountFailure(t, s) == failures' = [failures EXCEPT ![t][s] = @ + 1]

\* Mutant: one repair too many.
MayRepairOnceMore(t) == task[t].repairs <= MaxRepairs[t]

MayRepair(t) == task[t].repairs < MaxRepairs[t]

\* Mutant: a repair that is allowed is not counted.
RecordFailureUncounted(t, s) ==
  /\ task[t].state \in {"verifying", "reviewing"}
  /\ CountFailure(t, s)
  /\ IF failures[t][s] >= 1 \/ ~MayRepair(t) THEN MoveTo(t, "blocked") ELSE UNCHANGED task
  /\ UNCHANGED <<evidence, approvals, approving>>

RecordFailure(t, s) ==
  /\ task[t].state \in {"verifying", "reviewing"}
  /\ CountFailure(t, s)
  /\ \/ /\ failures[t][s] >= 1                                  \* repeated_failure
        /\ MoveTo(t, "blocked")
     \/ /\ failures[t][s] = 0                                   \* repair_exhausted
        /\ ~MayRepair(t)
        /\ MoveTo(t, "blocked")
     \/ /\ failures[t][s] = 0                                   \* repair_allowed
        /\ MayRepair(t)
        /\ task' = [task EXCEPT ![t].repairs = @ + 1]
  /\ UNCHANGED <<evidence, approvals, approving>>

-----------------------------------------------------------------------------
(* record_user_approval reads the task in one connection and inserts in a  *)
(* later transaction that does not look at the task again.                 *)

ReadForApproval(t) ==
  /\ task[t].state = "awaiting_pr_approval"
  /\ task[t].head # NoRevision
  /\ approving' = approving \cup {[task |-> t, head |-> task[t].head]}
  /\ UNCHANGED <<task, failures, evidence, approvals>>

InsertApproval(call, id) ==
  /\ call \in approving
  /\ \A a \in approvals : a.id # id
  /\ approvals' = approvals \cup
       {[id |-> id, task |-> call.task, head |-> call.head, stale |-> FALSE]}
  /\ approving' = approving \ {call}
  /\ UNCHANGED <<task, failures, evidence>>

-----------------------------------------------------------------------------
TaskNext ==
  \/ \E t \in Tasks :
       \/ CreateTask(t)
       \/ \E expected, target \in States : Transition(t, expected, target)
       \/ SetContract(t)
       \/ \E r \in Revisions : SetWorkspace(t, r) \/ SetHead(t, r)
       \/ \E id \in EvidenceIds, r \in Revisions, kind \in EvidenceKinds,
             status \in EvidenceStatuses : AddEvidence(t, id, r, kind, status)
       \/ \E s \in Signatures : RecordFailure(t, s)
       \/ ReadForApproval(t)
  \/ \E call \in approving, id \in ApprovalIds : InsertApproval(call, id)

TaskSpec == TaskInit /\ [][TaskNext]_taskVars

-----------------------------------------------------------------------------
(* Properties.  ExecutionLedger extends this module: they are checked with *)
(* its operations taking steps too.                                        *)

\* A task that saw a failure signature twice stays blocked, whatever recovery
\* of a review format, reconciliation or transition is tried afterwards.
RepeatedFailureIsFinal ==
  \A t \in Tasks :
    (\E s \in Signatures : failures[t][s] >= 2) => task[t].state = "blocked"

\* Each repair was granted for a failure signature of its own, and never more
\* than max_repairs of them.
RepairsPaidFor ==
  \A t \in Tasks :
    /\ task[t].repairs <= MaxRepairs[t]
    /\ task[t].repairs <= Cardinality({s \in Signatures : failures[t][s] >= 1})

\* Once a head moved on, what was recorded for the old one stays stale, even
\* if the head moves back: a candidate is always checked and approved afresh.
StaleStaysStale ==
  [][/\ \A v \in evidence : v.stale => v \in evidence'
     /\ \A a \in approvals : a.stale => a \in approvals']_taskVars

\* An approval that is not stale is of its task's present head, whenever the head
\* moves: controller-contracts.md:43 says that set_head invalidates the others.
ApprovalsNameHead == \A a \in approvals : a.stale \/ a.head = task[a.task].head

Reviewed == {"review_complete", "packaging", "awaiting_pr_approval"}

\* No sequence of calls, recoveries and head changes brings a task to a state
\* without the passing evidence of every stage before it.
EveryStageEvidenced ==
  LET Passed(t, kind) == \E v \in evidence : v.task = t /\ v.kind = kind /\ v.status = "passed"
  IN \A t \in Tasks :
       /\ task[t].state \in Reviewed \cup {"verified", "reviewing"} => Passed(t, "independent-check")
       /\ task[t].state \in Reviewed => Passed(t, "independent-review")
       /\ task[t].state = "awaiting_pr_approval" => Passed(t, "approval-package")

\* A task at work rests on dependencies that were all brought to
\* awaiting_pr_approval and never taken back for rework: afterwards one can
\* only be blocked, by a lost call.
DependenciesStayReviewed ==
  \A t \in Tasks :
    task[t].state \in Working \ {"received", "contracted"} =>
      \A d \in Dependencies[t] : task[d].state \in {"awaiting_pr_approval", "blocked"}
=============================================================================
