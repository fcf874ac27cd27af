--------------------------- MODULE ExecutionLedger ---------------------------
(***************************************************************************)
(* The execution half of the controller store: execution rows and the call *)
(* and time budget of each task.  A provider or verifier call is reserved  *)
(* before it is launched, started, perhaps asked to stop, and finished; a  *)
(* restarted controller turns what it finds outstanding into uncertainty,  *)
(* which an operator resolves.  Extends the task half, whose states the    *)
(* operations read and sometimes write.                                    *)
(***************************************************************************)
EXTENDS TaskStore, Functions

CONSTANTS
  Executions,  \* execution ids (uuid4: never reused)
  NoTask,      \* task of an execution id that is not in use
  Budget,      \* Budget[t]: the limits t was created with
  Timeouts,    \* timeouts callers ask for, in seconds
  Reports      \* what callers report of a finished call

Limits == [max_calls : Nat, max_elapsed : Nat, max_concurrency : Nat,
           max_timeout : Nat, verification_reserve : Nat, review_reserve : Nat]

\* What create_task accepts as a budget.
ValidLimits(b) ==
  /\ b.max_calls >= 1 /\ b.max_concurrency >= 1
  /\ b.max_elapsed > 0 /\ b.max_timeout > 0
  /\ b.verification_reserve >= 1
  /\ b.verification_reserve + b.review_reserve < b.max_calls

ASSUME BudgetAssumption ==
  Budget \in [Tasks -> Limits] /\ \A t \in Tasks : ValidLimits(Budget[t])
ASSUME ExecutionsAssumption == IsFiniteSet(Executions)
ASSUME NoTaskAssumption == NoTask \notin Tasks
ASSUME TimeoutsAssumption == Timeouts \subseteq Nat \ {0}

VARIABLES
  exec,      \* exec[e]: the execution's row
  budget,    \* budget[t]: the counters of the task's budget row
  recovered  \* executions with a review_format_recovered event (its id is unique)

ledgerVars == <<exec, budget, recovered>>
storeVars == <<taskVars, ledgerVars>>

-----------------------------------------------------------------------------
\* ROLE_STATES: the task state each role runs in.
RoleState == [implementer |-> "implementing", repair |-> "repairing",
              verification |-> "verifying", reviewer |-> "reviewing"]

Roles == DOMAIN RoleState

Active      == {"reserved", "running", "cancel_requested"}
Outstanding == Active \cup {"reconciliation_required"}
Outcomes    == {"succeeded", "failed", "cancelled", "blocked"}
Resolutions == {"reconciled_not_started", "reconciled_terminated"}
Closed      == Outcomes \cup Resolutions

\* What result_json tells the operations apart: an error_class of
\* "authentication", the narrow reviewer parse_error, anything else.
Results == {"authentication", "format", "other"}

ASSUME ReportsAssumption ==
  Reports \subseteq [status : Outcomes, elapsed : Nat, result : Results]

Unused == [status |-> "unused", task |-> NoTask, role |-> "none",
           alloc |-> 0, elapsed |-> 0, result |-> "none"]

ExecRow == [status  : Outstanding \cup Closed,
            task    : Tasks,
            role    : Roles,
            alloc   : Nat,                   \* allocation_seconds
            elapsed : Nat,                   \* elapsed_seconds, 0 while NULL
            result  : Results \cup {"none"}]

BudgetRow == [reserved : Nat, active : Nat, completed : Nat,
              elapsed : Nat, reserved_elapsed : Int]

LedgerTypeOK ==
  /\ exec \in [Executions -> ExecRow \cup {Unused}]
  /\ budget \in [Tasks -> BudgetRow]
  /\ recovered \subseteq Executions

StoreTypeOK == TaskTypeOK /\ LedgerTypeOK

LedgerInit ==
  /\ exec = [e \in Executions |-> Unused]
  /\ budget = [t \in Tasks |-> [reserved |-> 0, active |-> 0, completed |-> 0,
                                elapsed |-> 0, reserved_elapsed |-> 0]]
  /\ recovered = {}

StoreInit == TaskInit /\ LedgerInit

\* Executions of t whose status is in S.
In(t, S) == {e \in Executions : exec[e].task = t /\ exec[e].status \in S}

Uncertain(t) == In(t, {"reconciliation_required"}) # {}

\* Mutant: implementers and repairs leave no call for the review.
ProtectedWithoutReview(t, role) ==
  CASE role \in {"implementer", "repair"} -> Budget[t].verification_reserve
    [] role = "verification" -> Budget[t].review_reserve
    [] OTHER -> 0

\* Mutant: every role leaves the reserves alone, those they are for included.
ProtectedFromAll(t, role) ==
  Budget[t].verification_reserve + Budget[t].review_reserve

\* The calls a role must leave for the stages after it.
Protected(t, role) ==
  CASE role \in {"implementer", "repair"} ->
         Budget[t].verification_reserve + Budget[t].review_reserve
    [] role = "verification" -> Budget[t].review_reserve
    [] OTHER -> 0

-----------------------------------------------------------------------------
\* What reserve_execution demands but for the time.
CallAllowed(t, role) ==
  LET left == Budget[t].max_calls - (budget[t].completed + budget[t].reserved) - 1
  IN /\ ~Uncertain(t)
     /\ task[t].state = RoleState[role]
     /\ budget[t].active < Budget[t].max_concurrency
     /\ left >= 0
     /\ left >= Protected(t, role)

\* The timeout within the task's, and within a limit of elapsed time.
TimeAllowed(t, timeout, limit) ==
  /\ timeout <= Budget[t].max_timeout
  /\ budget[t].elapsed + budget[t].reserved_elapsed + timeout <= limit

ReserveExecution(t, e, role, timeout) ==
  /\ exec[e] = Unused
  /\ CallAllowed(t, role)
  /\ TimeAllowed(t, timeout, Budget[t].max_elapsed)
  /\ exec' = [exec EXCEPT ![e] =
       [status |-> "reserved", task |-> t, role |-> role, alloc |-> timeout,
        elapsed |-> 0, result |-> "none"]]
  /\ budget' = [budget EXCEPT ![t].reserved = @ + 1, ![t].active = @ + 1,
                              ![t].reserved_elapsed = @ + timeout]
  /\ UNCHANGED <<taskVars, recovered>>

StartExecution(e) ==
  /\ exec[e].status = "reserved"
  /\ task[exec[e].task].state = RoleState[exec[e].role]
  /\ ~Uncertain(exec[e].task)
  /\ exec' = [exec EXCEPT ![e].status = "running"]
  /\ UNCHANGED <<taskVars, budget, recovered>>

\* Mutant: the time held back is never given back.
ReleaseKeepingTime(e, elapsed) ==
  LET t == exec[e].task
  IN budget' = [budget EXCEPT ![t].reserved = @ - 1, ![t].active = @ - 1,
                              ![t].completed = @ + 1, ![t].elapsed = @ + elapsed]

\* Give the reservation back and count the call, charging the measured time.
Release(e, elapsed) ==
  LET t == exec[e].task
  IN budget' = [budget EXCEPT ![t].reserved = @ - 1, ![t].active = @ - 1,
                              ![t].completed = @ + 1, ![t].elapsed = @ + elapsed,
                              ![t].reserved_elapsed = @ - exec[e].alloc]

\* Mutant: a call that is closed already may be reported again.
FinishAgain(e, report) ==
  /\ exec[e].status \in Active \cup Closed
  /\ exec' = [exec EXCEPT ![e].status = report.status, ![e].elapsed = report.elapsed,
                          ![e].result = report.result]
  /\ Release(e, report.elapsed)
  /\ UNCHANGED <<taskVars, recovered>>

\* The task's state is not consulted, and elapsed may exceed the allocation.
FinishExecution(e, report) ==
  /\ exec[e].status \in Active
  /\ exec' = [exec EXCEPT ![e].status = report.status, ![e].elapsed = report.elapsed,
                          ![e].result = report.result]
  /\ Release(e, report.elapsed)
  /\ UNCHANGED <<taskVars, recovered>>

\* Mutant: asking a call to stop frees its slot.
CancellationFreesSlot(e) ==
  /\ exec[e].status = "running"
  /\ exec' = [exec EXCEPT ![e].status = "cancel_requested"]
  /\ budget' = [budget EXCEPT ![exec[e].task].active = @ - 1]
  /\ UNCHANGED <<taskVars, recovered>>

RequestCancellation(e) ==
  /\ exec[e].status = "running"
  /\ exec' = [exec EXCEPT ![e].status = "cancel_requested"]
  /\ UNCHANGED <<taskVars, budget, recovered>>

\* Mutant: a call that was reserved and never started is taken for harmless.
LaunchedCalls == {e \in Executions : exec[e].status \in {"running", "cancel_requested"}}

LostCalls == {e \in Executions : exec[e].status \in Active}

\* One transaction over every task of the store: whatever state its task is
\* in, an outstanding execution becomes uncertain and its task blocked.
ReconcileActive ==
  LET lost == LostCalls
  IN /\ lost # {}
     /\ exec' = [e \in Executions |->
          IF e \in lost THEN [exec[e] EXCEPT !.status = "reconciliation_required"]
                        ELSE exec[e]]
     /\ task' = [t \in Tasks |->
          IF \E e \in lost : exec[e].task = t
          THEN [task[t] EXCEPT !.state = "blocked"] ELSE task[t]]
     /\ UNCHANGED <<failures, evidence, approvals, approving, budget, recovered>>

\* Mutant: the uncertainty is settled and its reservation kept.
ResolveKeepingReservation(e, resolution) ==
  /\ exec[e].status = "reconciliation_required"
  /\ exec' = [exec EXCEPT ![e].status = resolution]
  /\ UNCHANGED <<taskVars, budget, recovered>>

\* The call is counted, no time is charged, and the task stays blocked.
ResolveUncertainty(e, resolution) ==
  /\ exec[e].status = "reconciliation_required"
  /\ exec' = [exec EXCEPT ![e].status = resolution]
  /\ Release(e, 0)
  /\ UNCHANGED <<taskVars, recovered>>

\* Mutant: any passing evidence of the head will do.
AnyPassing(t, v) == v \in evidence /\ v.task = t /\ v.status = "passed" /\ ~v.stale

PassingReview(t, v) ==
  /\ v \in evidence /\ v.task = t /\ v.kind = "independent-review"
  /\ v.status = "passed" /\ ~v.stale

\* Mutant: whatever blocked the task.
BlockedAnyhow(t) == task[t].state = "blocked"

BlockedByReview(t) ==
  task[t].state = "blocked" /\ task[t].moved = <<"reviewing", "blocked">>

\* Mutant: whatever the review was rejected for.
RejectedReview(t, e) ==
  exec[e].task = t /\ exec[e].role = "reviewer" /\ exec[e].status = "failed"

\* A review that was rejected only for its presentation.
RejectedForFormat(t, e) ==
  /\ exec[e].task = t /\ exec[e].role = "reviewer"
  /\ exec[e].status = "failed" /\ exec[e].result = "format"

\* recover_review_format_failure: a review that was rejected only for its
\* presentation, re-validated as evidence v, unblocks its task.
RecoverReviewFormat(t, e, v) ==
  /\ BlockedByReview(t)
  /\ PassingReview(t, v)
  /\ task[t].head = v.revision
  /\ RejectedForFormat(t, e)
  /\ In(t, Outstanding) = {}
  /\ e \notin recovered
  /\ recovered' = recovered \cup {e}
  /\ MoveTo(t, "review_complete")
  /\ UNCHANGED <<failures, evidence, approvals, approving, exec, budget>>

-----------------------------------------------------------------------------
LedgerNext ==
  \/ \E t \in Tasks, e \in Executions, role \in Roles, timeout \in Timeouts :
       ReserveExecution(t, e, role, timeout)
  \/ \E e \in Executions :
       \/ StartExecution(e)
       \/ \E report \in Reports : FinishExecution(e, report)
       \/ RequestCancellation(e)
       \/ \E resolution \in Resolutions : ResolveUncertainty(e, resolution)
  \/ ReconcileActive
  \/ \E t \in Tasks, e \in Executions, v \in evidence : RecoverReviewFormat(t, e, v)

StoreNext == (TaskNext /\ UNCHANGED ledgerVars) \/ LedgerNext

StoreSpec == StoreInit /\ [][StoreNext]_storeVars

-----------------------------------------------------------------------------
(* The store implements CallLedger: a call is what an execution row stands *)
(* for, and it is out, lost or spent by the status of that row.            *)

Account == INSTANCE CallLedger WITH
  Calls          <- Executions,
  MaxCalls       <- [t \in Tasks |-> Budget[t].max_calls],
  MaxConcurrency <- [t \in Tasks |-> Budget[t].max_concurrency],
  out            <- [t \in Tasks |-> In(t, Outstanding)],
  lost           <- [t \in Tasks |-> In(t, {"reconciliation_required"})],
  spent          <- [t \in Tasks |-> In(t, Closed)]

-----------------------------------------------------------------------------
(* Properties. *)

\* The counters of a budget row say exactly what the execution rows say: every
\* outstanding call is reserved and active, every closed call is completed.
\* Six operations and a crash have to keep the two tables in step.
LedgerMatchesExecutions ==
  \A t \in Tasks :
    /\ budget[t].reserved  = Cardinality(In(t, Outstanding))
    /\ budget[t].active    = budget[t].reserved
    /\ budget[t].completed = Cardinality(In(t, Closed))

Calls(t, roles) == {e \in Executions : exec[e].task = t /\ exec[e].role \in roles}

\* However calls are mixed, cancelled, lost and resolved, implementers and
\* repairs never eat the calls kept for verification and review, and
\* verification never eats those kept for review (Protected calls in
\* reserve_execution): what is left covers what is still owed.
QualityReserveKept ==
  \A t \in Tasks :
    LET left == Budget[t].max_calls - (budget[t].completed + budget[t].reserved)
    IN /\ left >= 0
       /\ left >= Budget[t].verification_reserve + Budget[t].review_reserve
                    - Cardinality(Calls(t, {"verification", "reviewer"}))
       /\ left >= Budget[t].review_reserve - Cardinality(Calls(t, {"reviewer"}))

\* No task ever has more calls outstanding than max_concurrency, uncertain
\* ones included: a lost call keeps its slot until it is resolved.
ConcurrencyBounded ==
  \A t \in Tasks : Cardinality(In(t, Outstanding)) <= Budget[t].max_concurrency

Elapsed == [e \in Executions |-> exec[e].elapsed]
Alloc   == [e \in Executions |-> exec[e].alloc]
Overrun == [e \in Executions |->
  IF exec[e].elapsed > exec[e].alloc THEN exec[e].elapsed - exec[e].alloc ELSE 0]

\* The time charged to a task is the time its finished calls took, the time
\* held back is the allocation of those outstanding, and the limit is passed
\* only by what calls ran over their own allocation (finish_execution charges
\* the measured time; a resolved uncertainty charges none).
ElapsedMatchesExecutions ==
  \A t \in Tasks :
    /\ budget[t].elapsed = SumFunctionOnSet(Elapsed, In(t, Closed))
    /\ budget[t].reserved_elapsed = SumFunctionOnSet(Alloc, In(t, Outstanding))
    /\ budget[t].elapsed + budget[t].reserved_elapsed
         <= Budget[t].max_elapsed + SumFunctionOnSet(Overrun, In(t, Closed))

\* A lost call isolates its task: until it is resolved the task is blocked and
\* no other call of it is reserved, running or being cancelled.
UncertaintyIsolates ==
  \A t \in Tasks : Uncertain(t) => task[t].state = "blocked" /\ In(t, Active) = {}

\* A closed call is closed for good: a late finish, a cancellation or a
\* reconciliation after it neither rewrites its outcome nor charges it again.
ClosedIsFinal ==
  [][\A e \in Executions : exec[e].status \in Closed => exec'[e] = exec[e]]_storeVars

\* The limits are decided on counters, the isolation on statuses, and six
\* operations write both: together they keep the promise of CallLedger on every
\* step, that a call is launched within the limits, accounted for once, and
\* lost only by a restart that loses all that are out.
CallsAreAccounted == Account!Spec

\* docs/controller-contracts.md, Task states: "`blocked` and `cancelled`
\* remain terminal."  reconcile_active and recover_review_format_failure write
\* the state without consulting the transition table.
TerminalStaysTerminal ==
  [][\A t \in Tasks : task[t].state \in {"blocked", "cancelled"}
                        => task'[t].state = task[t].state]_storeVars
=============================================================================
