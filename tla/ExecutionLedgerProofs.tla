------------------------ MODULE ExecutionLedgerProofs ------------------------
(***************************************************************************)
(* Proofs about ExecutionLedger, for any tasks, budgets, executions and    *)
(* evidence: type correctness, the agreement of the two tables, and what   *)
(* that buys.  A lost call isolates its task, closed calls stay closed,    *)
(* slots are bounded, the reserves for verification and review are never   *)
(* eaten, the time of every call is charged as it was taken, and the store *)
(* as a whole implements CallLedger.                                       *)
(*                                                                         *)
(* Then what a task's state says of its past: a repeated failure was       *)
(* final, every stage left its evidence, and the dependencies of a task at *)
(* work were settled and stay so.  What makes them delicate is             *)
(* recover_review_format_failure, which takes a task out of blocked: all   *)
(* three rest on what the last transition event (moved) can be when a task *)
(* is blocked.  Last, that each repair was paid for by a failure, and that *)
(* what is stale stays stale.                                              *)
(***************************************************************************)
EXTENDS ExecutionLedger, FiniteSetTheorems, TLAPS

-----------------------------------------------------------------------------
(* Type correctness of the task half. *)

\* Writing a state, or other fields of the right type, keeps a row a row.
LEMMA MoveToType ==
  ASSUME task \in [Tasks -> TaskRow], NEW t \in Tasks, NEW state \in States,
         MoveTo(t, state)
  PROVE  task' \in [Tasks -> TaskRow]
BY DEF MoveTo, TaskRow

\* Marking rows stale keeps the two tables well-formed.
LEMMA StaleType ==
  ASSUME NEW v \in EvidenceRow \cup ApprovalRow, NEW outdated \in BOOLEAN
  PROVE  /\ v \in EvidenceRow => StaleIf(v, outdated) \in EvidenceRow
         /\ v \in ApprovalRow => StaleIf(v, outdated) \in ApprovalRow
BY DEF StaleIf, EvidenceRow, ApprovalRow

\* Every operation of the task half keeps its tables well-formed.
LEMMA TaskStepType ==
  ASSUME TaskTypeOK, TaskNext
  PROVE  TaskTypeOK'
<1> USE DEF TaskTypeOK
<1>1. ASSUME NEW t \in Tasks, CreateTask(t) PROVE TaskTypeOK'
  BY <1>1, MoveToType DEF CreateTask, States, Working
<1>2. ASSUME NEW t \in Tasks, NEW expected \in States, NEW target \in States,
             Transition(t, expected, target)
      PROVE  TaskTypeOK'
  <2> DEFINE row == [task[t] EXCEPT !.state = target, !.moved = <<expected, target>>]
  <2>1. row \in TaskRow
    <3>1. task[t] \in TaskRow /\ <<expected, target>> \in States \X States
      OBVIOUS
    <3> QED BY <3>1 DEF TaskRow
  <2>2. task' = [task EXCEPT ![t] = row]
    BY <1>2 DEF Transition
  <2>3. task' \in [Tasks -> TaskRow]
    BY <2>1, <2>2
  <2> QED BY <1>2, <2>3 DEF Transition
<1>3. ASSUME NEW t \in Tasks, SetContract(t) PROVE TaskTypeOK'
  <2> DEFINE row == [task[t] EXCEPT !.contract = TRUE]
  <2>1. task' \in [Tasks -> TaskRow]
    <3>1. task[t] \in TaskRow
      OBVIOUS
    <3>2. row \in TaskRow
      BY <3>1 DEF TaskRow
    <3>3. task' = [task EXCEPT ![t] = row]
      BY <1>3 DEF SetContract
    <3> QED BY <3>2, <3>3
  <2> QED BY <1>3, <2>1 DEF SetContract
<1>4. ASSUME NEW t \in Tasks, NEW r \in Revisions, SetWorkspace(t, r) PROVE TaskTypeOK'
  <2> DEFINE row == [task[t] EXCEPT !.workspace = TRUE, !.head = r]
  <2>1. task' \in [Tasks -> TaskRow]
    <3>1. task[t] \in TaskRow
      OBVIOUS
    <3>2. row \in TaskRow
      BY <3>1 DEF TaskRow
    <3>3. task' = [task EXCEPT ![t] = row]
      BY <1>4 DEF SetWorkspace
    <3> QED BY <3>2, <3>3
  <2> QED BY <1>4, <2>1 DEF SetWorkspace
<1>5. ASSUME NEW t \in Tasks, NEW r \in Revisions, SetHead(t, r) PROVE TaskTypeOK'
  <2> DEFINE row == [task[t] EXCEPT !.head = r]
  <2>1. task' \in [Tasks -> TaskRow]
    <3>1. task[t] \in TaskRow
      OBVIOUS
    <3>2. row \in TaskRow
      BY <3>1 DEF TaskRow
    <3>3. task' = [task EXCEPT ![t] = row]
      BY <1>5 DEF SetHead
    <3> QED BY <3>2, <3>3
  <2>2. CASE task[t].head = r
    BY <1>5, <2>1, <2>2 DEF SetHead
  <2>3. CASE task[t].head # r
    <3>1. evidence' = {StaleIf(v, v.task = t /\ v.revision # r) : v \in evidence}
      BY <1>5, <2>3 DEF SetHead
    <3>2. evidence' \subseteq EvidenceRow
      BY <3>1, StaleType
    <3>3. approvals' = {StaleIf(a, a.task = t /\ a.head # r) : a \in approvals}
      BY <1>5, <2>3 DEF SetHead
    <3>4. approvals' \subseteq ApprovalRow
      BY <3>3, StaleType
    <3> QED BY <1>5, <2>1, <3>2, <3>4 DEF SetHead
  <2> QED BY <2>2, <2>3
<1>6. ASSUME NEW t \in Tasks, NEW id \in EvidenceIds, NEW r \in Revisions,
             NEW kind \in EvidenceKinds, NEW status \in EvidenceStatuses,
             AddEvidence(t, id, r, kind, status)
      PROVE  TaskTypeOK'
  <2> DEFINE row == [id |-> id, task |-> t, revision |-> r, kind |-> kind,
                     status |-> status, stale |-> FALSE]
  <2>1. row \in EvidenceRow
    BY DEF EvidenceRow
  <2>2. evidence' \subseteq EvidenceRow
    BY <1>6, <2>1 DEF AddEvidence
  <2> QED BY <1>6, <2>2 DEF AddEvidence
<1>7. ASSUME NEW t \in Tasks, NEW s \in Signatures, RecordFailure(t, s) PROVE TaskTypeOK'
  <2>1. failures' \in [Tasks -> [Signatures -> Nat]]
    BY <1>7 DEF RecordFailure, CountFailure
  <2>2. CASE MoveTo(t, "blocked")
    <3>1. task' \in [Tasks -> TaskRow]
      BY <2>2, MoveToType DEF States
    <3> QED BY <1>7, <2>1, <3>1 DEF RecordFailure
  <2>3. CASE MayRepair(t) /\ task' = [task EXCEPT ![t].repairs = @ + 1]
    <3>1. task[t].repairs + 1 \in 0..2
      <4>1. task[t].repairs \in 0..2
        BY DEF TaskRow
      <4>2. MaxRepairs[t] \in 0..2
        BY MaxRepairsAssumption
      <4>3. task[t].repairs < MaxRepairs[t]
        BY <2>3 DEF MayRepair
      <4> QED BY <4>1, <4>2, <4>3
    <3> DEFINE row == [task[t] EXCEPT !.repairs = @ + 1]
    <3>2. task' \in [Tasks -> TaskRow]
      <4>1. task[t] \in TaskRow
        OBVIOUS
      <4>2. row \in TaskRow
        BY <3>1, <4>1 DEF TaskRow
      <4>3. task' = [task EXCEPT ![t] = row]
        BY <2>3
      <4> QED BY <4>2, <4>3
    <3> QED BY <1>7, <2>1, <3>2 DEF RecordFailure
  <2> QED BY <1>7, <2>2, <2>3 DEF RecordFailure
<1>8. ASSUME NEW t \in Tasks, ReadForApproval(t) PROVE TaskTypeOK'
  <2>1. task[t].head \in Revisions
    BY <1>8 DEF ReadForApproval, TaskRow
  <2>2. approving' \subseteq [task : Tasks, head : Revisions]
    BY <1>8, <2>1 DEF ReadForApproval
  <2> QED BY <1>8, <2>2 DEF ReadForApproval
<1>9. ASSUME NEW call \in approving, NEW id \in ApprovalIds, InsertApproval(call, id)
      PROVE  TaskTypeOK'
  <2> DEFINE row == [id |-> id, task |-> call.task, head |-> call.head, stale |-> FALSE]
  <2>1. row \in ApprovalRow
    BY <1>9 DEF InsertApproval, ApprovalRow
  <2>2. approvals' \subseteq ApprovalRow
    BY <1>9, <2>1 DEF InsertApproval
  <2> QED BY <1>9, <2>2 DEF InsertApproval
<1> QED BY <1>1, <1>2, <1>3, <1>4, <1>5, <1>6, <1>7, <1>8, <1>9 DEF TaskNext

-----------------------------------------------------------------------------
(* Counting executions.  Every operation but reconcile_active rewrites one *)
(* execution row; how that changes the sets In(u, S) is said once.         *)

\* A row in use belongs to a task.
LEMMA UsedRow ==
  ASSUME LedgerTypeOK, NEW e \in Executions, exec[e].status # "unused"
  PROVE  exec[e] \in ExecRow
BY DEF LedgerTypeOK, Unused

\* In(u, S) when the rows are x.
Rows(x, u, S) == {e \in Executions : x[e].task = u /\ x[e].status \in S}

\* The rows of a task are finitely many.
LEMMA RowsFinite ==
  ASSUME NEW x, NEW u, NEW S
  PROVE  IsFiniteSet(Rows(x, u, S)) /\ Cardinality(Rows(x, u, S)) \in Nat
<1>1. Rows(x, u, S) \in SUBSET Executions
  BY DEF Rows
<1> QED BY <1>1, ExecutionsAssumption, FS_Subset, FS_CardinalityType

Within(row, u, S) == row.task = u /\ row.status \in S

\* Rewriting row e puts e into the set or takes it out.
LEMMA RowsAfter ==
  ASSUME NEW x, NEW y, NEW e \in Executions, NEW u, NEW S,
         \A f \in Executions \ {e} : y[f] = x[f]
  PROVE  /\ Within(x[e], u, S) <=> e \in Rows(x, u, S)
         /\ Within(y[e], u, S) => Rows(y, u, S) = Rows(x, u, S) \cup {e}
         /\ ~Within(y[e], u, S) => Rows(y, u, S) = Rows(x, u, S) \ {e}
BY DEF Within, Rows

\* A row that stays in, or out, changes no count.
LEMMA CountSame ==
  ASSUME NEW x, NEW y, NEW e \in Executions, NEW u, NEW S,
         \A f \in Executions \ {e} : y[f] = x[f],
         Within(x[e], u, S) <=> Within(y[e], u, S)
  PROVE  Cardinality(Rows(y, u, S)) = Cardinality(Rows(x, u, S))
<1>1. Rows(y, u, S) = Rows(x, u, S)
  BY DEF Within, Rows
<1> QED BY <1>1

\* A row that comes in is counted.
LEMMA CountIn ==
  ASSUME NEW x, NEW y, NEW e \in Executions, NEW u, NEW S,
         \A f \in Executions \ {e} : y[f] = x[f],
         ~Within(x[e], u, S), Within(y[e], u, S)
  PROVE  Cardinality(Rows(y, u, S)) = Cardinality(Rows(x, u, S)) + 1
<1>1. e \notin Rows(x, u, S) /\ Rows(y, u, S) = Rows(x, u, S) \cup {e}
  BY RowsAfter
<1>2. IsFiniteSet(Rows(x, u, S))
  BY RowsFinite
<1> QED BY <1>1, <1>2, FS_AddElement

\* A row that goes out is counted off.
LEMMA CountOut ==
  ASSUME NEW x, NEW y, NEW e \in Executions, NEW u, NEW S,
         \A f \in Executions \ {e} : y[f] = x[f],
         Within(x[e], u, S), ~Within(y[e], u, S)
  PROVE  Cardinality(Rows(y, u, S)) = Cardinality(Rows(x, u, S)) - 1
<1>1. e \in Rows(x, u, S) /\ Rows(y, u, S) = Rows(x, u, S) \ {e}
  BY RowsAfter
<1>2. IsFiniteSet(Rows(x, u, S))
  BY RowsFinite
<1> QED BY <1>1, <1>2, FS_RemoveElement

\* The agreement of the two tables, in terms of Rows.
Agree(x, b) ==
  \A u \in Tasks : /\ b[u].reserved  = Cardinality(Rows(x, u, Outstanding))
                   /\ b[u].active    = b[u].reserved
                   /\ b[u].completed = Cardinality(Rows(x, u, Closed))

\* LedgerMatchesExecutions is Agree, before a step and after it.
LEMMA AgreeIsMatch ==
  /\ LedgerMatchesExecutions  <=> Agree(exec, budget)
  /\ LedgerMatchesExecutions' <=> Agree(exec', budget')
BY DEF LedgerMatchesExecutions, Agree, In, Rows

\* A call is outstanding or closed, not both.
LEMMA StatusesDisjoint == Outstanding \cap Closed = {}
BY DEF Outstanding, Active, Closed, Outcomes, Resolutions

\* A task with an outstanding call has one reserved.
LEMMA OutstandingIsCounted ==
  ASSUME NEW x, NEW e \in Executions, NEW S, x[e].status \in S
  PROVE  Cardinality(Rows(x, x[e].task, S)) >= 1
<1>1. e \in Rows(x, x[e].task, S)
  BY DEF Rows
<1>2. IsFiniteSet(Rows(x, x[e].task, S)) /\ Cardinality(Rows(x, x[e].task, S)) \in Nat
  BY RowsFinite
<1>3. Cardinality(Rows(x, x[e].task, S)) # 0
  BY <1>1, <1>2, FS_EmptySet
<1> QED BY <1>2, <1>3

-----------------------------------------------------------------------------
(* The agreement of executions and budgets, one step at a time.            *)

Ledger == LedgerTypeOK /\ LedgerMatchesExecutions

\* A reserved call is counted as reserved and as active.
LEMMA ReserveStep ==
  ASSUME Ledger, NEW t \in Tasks, NEW e \in Executions, NEW role \in Roles,
         NEW timeout \in Timeouts, ReserveExecution(t, e, role, timeout)
  PROVE  Ledger'
<1> DEFINE row == [status |-> "reserved", task |-> t, role |-> role,
                   alloc |-> timeout, elapsed |-> 0, result |-> "none"]
           count == [budget[t] EXCEPT !.reserved = @ + 1, !.active = @ + 1,
                                      !.reserved_elapsed = @ + timeout]
<1>1. /\ exec \in [Executions -> ExecRow \cup {Unused}]
      /\ exec' = [exec EXCEPT ![e] = row] /\ exec[e].status = "unused"
      /\ recovered' = recovered /\ recovered \subseteq Executions
  BY DEF ReserveExecution, Unused, Ledger, LedgerTypeOK
<1>2. row \in ExecRow /\ row.status \in Outstanding /\ row.task = t
  BY TimeoutsAssumption DEF ExecRow, Outstanding, Active
<1>3. exec[e].status \notin Outstanding /\ exec[e].status \notin Closed
  BY <1>1 DEF Outstanding, Active, Closed, Outcomes, Resolutions
<1>4. /\ budget \in [Tasks -> BudgetRow] /\ timeout \in Nat
      /\ budget' = [budget EXCEPT ![t] = count]
  BY TimeoutsAssumption DEF Ledger, LedgerTypeOK, ReserveExecution
<1>5. count \in BudgetRow
  <2>1. budget[t] \in BudgetRow
    BY <1>4
  <2>2. /\ budget[t].reserved + 1 \in Nat /\ budget[t].active + 1 \in Nat
        /\ budget[t].reserved_elapsed + timeout \in Int
    BY <1>4, <2>1 DEF BudgetRow
  <2> QED BY <2>1, <2>2 DEF BudgetRow
<1>6. /\ count.reserved = budget[t].reserved + 1
      /\ count.active = budget[t].active + 1
      /\ count.completed = budget[t].completed
  BY <1>4 DEF BudgetRow
<1> HIDE DEF row, count
<1>7. Agree(exec, budget)
  BY AgreeIsMatch DEF Ledger
<1>8. ASSUME NEW u \in Tasks
      PROVE  /\ budget'[u].reserved  = Cardinality(Rows(exec', u, Outstanding))
             /\ budget'[u].active    = budget'[u].reserved
             /\ budget'[u].completed = Cardinality(Rows(exec', u, Closed))
  <2>1. exec'[e] = row /\ \A f \in Executions \ {e} : exec'[f] = exec[f]
    BY <1>1
  <2>2. /\ ~Within(exec[e], u, Outstanding) /\ ~Within(exec[e], u, Closed)
        /\ Within(exec'[e], u, Outstanding) <=> t = u
        /\ ~Within(exec'[e], u, Closed)
    BY <1>2, <1>3, <2>1, StatusesDisjoint DEF Within
  <2>3. Cardinality(Rows(exec', u, Outstanding)) =
          IF t = u THEN Cardinality(Rows(exec, u, Outstanding)) + 1
                   ELSE Cardinality(Rows(exec, u, Outstanding))
    <3>1. ASSUME Within(exec'[e], u, Outstanding)
          PROVE  Cardinality(Rows(exec', u, Outstanding)) = Cardinality(Rows(exec, u, Outstanding)) + 1
      BY <2>1, <2>2, <3>1, CountIn
    <3>2. ASSUME ~Within(exec'[e], u, Outstanding)
          PROVE  Cardinality(Rows(exec', u, Outstanding)) = Cardinality(Rows(exec, u, Outstanding))
      BY <2>1, <2>2, <3>2, CountSame
    <3> QED BY <2>2, <3>1, <3>2
  <2>4. Cardinality(Rows(exec', u, Closed)) = Cardinality(Rows(exec, u, Closed))
    BY <2>1, <2>2, CountSame
  <2>5. budget'[u] = IF t = u THEN count ELSE budget[u]
    BY <1>4
  <2> QED BY <1>6, <1>7, <2>3, <2>4, <2>5 DEF Agree
<1>9. LedgerMatchesExecutions'
  BY <1>8, AgreeIsMatch DEF Agree
<1> QED BY <1>1, <1>2, <1>4, <1>5, <1>9 DEF Ledger, LedgerTypeOK

\* The only row that changes is e's.
Rewrites(e, row) == exec' = [exec EXCEPT ![e] = row]

\* A call that stays outstanding changes no count.
LEMMA OutstandingStep ==
  ASSUME Ledger, NEW e \in Executions, NEW row \in ExecRow,
         Rewrites(e, row), row.task = exec[e].task,
         exec[e].status \in Outstanding, row.status \in Outstanding,
         UNCHANGED <<budget, recovered>>
  PROVE  Ledger'
<1>1. LedgerTypeOK'
  BY DEF Ledger, LedgerTypeOK, Rewrites
<1>2. exec \in [Executions -> ExecRow \cup {Unused}] /\ Agree(exec, budget)
  BY AgreeIsMatch DEF Ledger, LedgerTypeOK
<1>3. ASSUME NEW u \in Tasks
      PROVE  /\ Cardinality(Rows(exec', u, Outstanding)) = Cardinality(Rows(exec, u, Outstanding))
             /\ Cardinality(Rows(exec', u, Closed)) = Cardinality(Rows(exec, u, Closed))
  <2>1. exec'[e] = row /\ \A f \in Executions \ {e} : exec'[f] = exec[f]
    BY <1>2 DEF Rewrites
  <2>2. exec[e].status \notin Closed /\ row.status \notin Closed
    BY StatusesDisjoint
  <2>3. /\ Within(exec[e], u, Outstanding) <=> Within(exec'[e], u, Outstanding)
        /\ ~Within(exec[e], u, Closed) /\ ~Within(exec'[e], u, Closed)
    BY <2>1, <2>2 DEF Within
  <2>4. Cardinality(Rows(exec', u, Outstanding)) = Cardinality(Rows(exec, u, Outstanding))
    BY <2>1, <2>3, CountSame
  <2>5. Cardinality(Rows(exec', u, Closed)) = Cardinality(Rows(exec, u, Closed))
    BY <2>1, <2>3, CountSame
  <2> QED BY <2>4, <2>5
<1>4. LedgerMatchesExecutions'
  BY <1>2, <1>3, AgreeIsMatch DEF Agree
<1> QED BY <1>1, <1>4 DEF Ledger

\* A call that closes moves from one count to the other.
LEMMA ReleaseStep ==
  ASSUME Ledger, NEW e \in Executions, NEW row \in ExecRow, NEW elapsed \in Nat,
         Rewrites(e, row), row.task = exec[e].task,
         exec[e].status \in Outstanding, row.status \in Closed,
         Release(e, elapsed), UNCHANGED recovered
  PROVE  Ledger'
<1> DEFINE t == exec[e].task
           count == [budget[t] EXCEPT !.reserved = @ - 1, !.active = @ - 1,
                                      !.completed = @ + 1, !.elapsed = @ + elapsed,
                                      !.reserved_elapsed = @ - exec[e].alloc]
<1>1. t \in Tasks /\ exec[e].alloc \in Nat
  BY UsedRow DEF Ledger, ExecRow, Outstanding, Active
<1>2. /\ exec \in [Executions -> ExecRow \cup {Unused}] /\ Agree(exec, budget)
      /\ exec' \in [Executions -> ExecRow \cup {Unused}]
      /\ recovered' \subseteq Executions
  BY AgreeIsMatch DEF Ledger, LedgerTypeOK, Rewrites
<1>3. budget \in [Tasks -> BudgetRow] /\ budget' = [budget EXCEPT ![t] = count]
  BY DEF Ledger, LedgerTypeOK, Release
<1>4. budget[t].reserved >= 1 /\ budget[t].active >= 1
  BY <1>1, <1>2, OutstandingIsCounted DEF Agree
<1>5. budget[t] \in BudgetRow
  BY <1>1, <1>3
<1>6. /\ budget[t].reserved - 1 \in Nat /\ budget[t].active - 1 \in Nat
      /\ budget[t].completed + 1 \in Nat /\ budget[t].elapsed + elapsed \in Nat
      /\ budget[t].reserved_elapsed - exec[e].alloc \in Int
  BY <1>1, <1>4, <1>5 DEF BudgetRow
<1>7. /\ count \in BudgetRow
      /\ count.reserved = budget[t].reserved - 1
      /\ count.active = budget[t].active - 1
      /\ count.completed = budget[t].completed + 1
  BY <1>5, <1>6 DEF BudgetRow
<1> HIDE DEF count
<1>8. ASSUME NEW u \in Tasks
      PROVE  /\ budget'[u].reserved  = Cardinality(Rows(exec', u, Outstanding))
             /\ budget'[u].active    = budget'[u].reserved
             /\ budget'[u].completed = Cardinality(Rows(exec', u, Closed))
  <2>1. exec'[e] = row /\ \A f \in Executions \ {e} : exec'[f] = exec[f]
    BY <1>2 DEF Rewrites
  <2>2. /\ Within(exec[e], u, Outstanding) <=> t = u
        /\ Within(exec'[e], u, Closed) <=> t = u
        /\ ~Within(exec'[e], u, Outstanding) /\ ~Within(exec[e], u, Closed)
    BY <2>1, StatusesDisjoint DEF Within
  <2>3. Cardinality(Rows(exec', u, Outstanding)) =
          IF t = u THEN Cardinality(Rows(exec, u, Outstanding)) - 1
                   ELSE Cardinality(Rows(exec, u, Outstanding))
    <3>1. ASSUME Within(exec[e], u, Outstanding)
          PROVE  Cardinality(Rows(exec', u, Outstanding)) = Cardinality(Rows(exec, u, Outstanding)) - 1
      <4>1. \A f \in Executions \ {e} : exec'[f] = exec[f]
        BY <2>1
      <4>2. ~Within(exec'[e], u, Outstanding)
        BY <2>2
      <4> QED BY <3>1, <4>1, <4>2, CountOut
    <3>2. ASSUME ~Within(exec[e], u, Outstanding)
          PROVE  Cardinality(Rows(exec', u, Outstanding)) = Cardinality(Rows(exec, u, Outstanding))
      <4>1. \A f \in Executions \ {e} : exec'[f] = exec[f]
        BY <2>1
      <4>2. Within(exec[e], u, Outstanding) <=> Within(exec'[e], u, Outstanding)
        BY <2>2, <3>2
      <4> QED BY <4>1, <4>2, CountSame
    <3> QED BY <2>2, <3>1, <3>2
  <2>4. Cardinality(Rows(exec', u, Closed)) =
          IF t = u THEN Cardinality(Rows(exec, u, Closed)) + 1
                   ELSE Cardinality(Rows(exec, u, Closed))
    <3>1. ASSUME Within(exec'[e], u, Closed)
          PROVE  Cardinality(Rows(exec', u, Closed)) = Cardinality(Rows(exec, u, Closed)) + 1
      <4>1. \A f \in Executions \ {e} : exec'[f] = exec[f]
        BY <2>1
      <4>2. ~Within(exec[e], u, Closed)
        BY <2>2
      <4> QED BY <3>1, <4>1, <4>2, CountIn
    <3>2. ASSUME ~Within(exec'[e], u, Closed)
          PROVE  Cardinality(Rows(exec', u, Closed)) = Cardinality(Rows(exec, u, Closed))
      <4>1. \A f \in Executions \ {e} : exec'[f] = exec[f]
        BY <2>1
      <4>2. Within(exec[e], u, Closed) <=> Within(exec'[e], u, Closed)
        BY <2>2, <3>2
      <4> QED BY <4>1, <4>2, CountSame
    <3> QED BY <2>2, <3>1, <3>2
  <2>5. budget'[u] = IF t = u THEN count ELSE budget[u]
    BY <1>3
  <2> QED BY <1>2, <1>7, <2>3, <2>4, <2>5 DEF Agree
<1>9. LedgerMatchesExecutions'
  BY <1>8, AgreeIsMatch DEF Agree
<1> QED BY <1>2, <1>3, <1>7, <1>9 DEF Ledger, LedgerTypeOK

\* A restart turns every active call into an uncertain one: still outstanding.
LEMMA ReconcileStep ==
  ASSUME Ledger, ReconcileActive
  PROVE  Ledger'
<1> DEFINE after(e) == IF e \in LostCalls
                       THEN [exec[e] EXCEPT !.status = "reconciliation_required"]
                       ELSE exec[e]
<1>1. /\ exec \in [Executions -> ExecRow \cup {Unused}] /\ Agree(exec, budget)
      /\ exec' = [e \in Executions |-> after(e)]
      /\ budget' = budget /\ recovered' = recovered
  BY AgreeIsMatch DEF Ledger, LedgerTypeOK, ReconcileActive
<1>2. ASSUME NEW e \in Executions
      PROVE  /\ after(e) \in ExecRow \cup {Unused} /\ after(e).task = exec[e].task
             /\ after(e).status \in Outstanding <=> exec[e].status \in Outstanding
             /\ after(e).status \in Closed <=> exec[e].status \in Closed
  <2>1. CASE e \in LostCalls
    <3>1. exec[e].status \in Active
      BY <2>1 DEF LostCalls
    <3>2. exec[e] \in ExecRow
      BY <3>1, UsedRow DEF Ledger, Active
    <3> QED BY <2>1, <3>1, <3>2 DEF ExecRow, Outstanding, Active, Closed, Outcomes, Resolutions
  <2>2. CASE e \notin LostCalls
    BY <1>1, <2>2
  <2> QED BY <2>1, <2>2
<1> HIDE DEF after
<1>3. exec' \in [Executions -> ExecRow \cup {Unused}]
  BY <1>1, <1>2
<1>4. ASSUME NEW u \in Tasks
      PROVE  /\ Rows(exec', u, Outstanding) = Rows(exec, u, Outstanding)
             /\ Rows(exec', u, Closed) = Rows(exec, u, Closed)
  BY <1>1, <1>2 DEF Rows
<1>5. LedgerMatchesExecutions'
  BY <1>1, <1>4, AgreeIsMatch DEF Agree
<1> QED BY <1>1, <1>3, <1>5 DEF Ledger, LedgerTypeOK

\* finish_execution gives the reservation back and counts the call, whatever is
\* reported.
AnyReport == [status : Outcomes, elapsed : Nat, result : Results]

LEMMA FinishStep ==
  ASSUME Ledger, NEW e \in Executions, NEW report \in AnyReport, FinishExecution(e, report)
  PROVE  Ledger'
<1> DEFINE row == [exec[e] EXCEPT !.status = report.status, !.elapsed = report.elapsed,
                                  !.result = report.result]
<1>1. exec[e].status \in Active
  BY DEF FinishExecution
<1>2. exec[e] \in ExecRow
  BY <1>1, UsedRow DEF Ledger, Active
<1>3. /\ report.status \in Outcomes /\ report.elapsed \in Nat /\ report.result \in Results
  BY DEF AnyReport
<1>4. row \in ExecRow /\ row.task = exec[e].task /\ row.status \in Closed
  BY <1>2, <1>3 DEF ExecRow, Closed
<1>5. Rewrites(e, row) /\ Release(e, report.elapsed) /\ UNCHANGED recovered
  BY DEF FinishExecution, Rewrites
<1> HIDE DEF row
<1> QED BY <1>1, <1>3, <1>4, <1>5, ReleaseStep DEF Outstanding

\* So does resolve_execution_uncertainty.
LEMMA ResolveStep ==
  ASSUME Ledger, NEW e \in Executions, NEW resolution \in Resolutions,
         ResolveUncertainty(e, resolution)
  PROVE  Ledger'
<1> DEFINE row == [exec[e] EXCEPT !.status = resolution]
<1>1. exec[e].status = "reconciliation_required"
  BY DEF ResolveUncertainty
<1>2. exec[e] \in ExecRow
  BY <1>1, UsedRow DEF Ledger
<1>3. row \in ExecRow /\ row.task = exec[e].task /\ row.status \in Closed
  BY <1>2 DEF ExecRow, Closed
<1>4. Rewrites(e, row) /\ Release(e, 0) /\ UNCHANGED recovered
  BY DEF ResolveUncertainty, Rewrites
<1> HIDE DEF row
<1> QED BY <1>1, <1>3, <1>4, ReleaseStep DEF Outstanding

\* start_execution and request_cancellation: one active status for another.
LEMMA RestatusStep ==
  ASSUME Ledger, NEW e \in Executions, NEW status \in Active,
         exec[e].status \in Active, exec' = [exec EXCEPT ![e].status = status],
         UNCHANGED <<budget, recovered>>
  PROVE  Ledger'
<1> DEFINE row == [exec[e] EXCEPT !.status = status]
<1>1. exec[e] \in ExecRow
  BY UsedRow DEF Ledger, Active
<1>2. row \in ExecRow /\ row.task = exec[e].task /\ row.status \in Outstanding
  BY <1>1 DEF ExecRow, Outstanding
<1>3. Rewrites(e, row)
  BY DEF Rewrites
<1> HIDE DEF row
<1> QED BY <1>2, <1>3, OutstandingStep DEF Outstanding

\* Every operation of the store keeps the two tables typed and in agreement.
LEMMA LedgerStep ==
  ASSUME Ledger, [StoreNext]_storeVars
  PROVE  Ledger'
<1>1. ASSUME UNCHANGED ledgerVars PROVE Ledger'
  <2>1. LedgerTypeOK'
    BY <1>1 DEF Ledger, LedgerTypeOK, ledgerVars
  <2> QED BY <1>1, <2>1, AgreeIsMatch DEF Ledger, ledgerVars
<1>2. ASSUME NEW t \in Tasks, NEW e \in Executions, NEW v \in evidence,
             RecoverReviewFormat(t, e, v)
      PROVE  Ledger'
  <2>1. UNCHANGED <<exec, budget>> /\ recovered' = recovered \cup {e}
    BY <1>2 DEF RecoverReviewFormat
  <2>2. LedgerTypeOK'
    BY <2>1 DEF Ledger, LedgerTypeOK
  <2> QED BY <2>1, <2>2, AgreeIsMatch DEF Ledger
<1>3. ASSUME NEW e \in Executions, StartExecution(e) PROVE Ledger'
  BY <1>3, RestatusStep DEF StartExecution, Active
<1>4. ASSUME NEW e \in Executions, RequestCancellation(e) PROVE Ledger'
  BY <1>4, RestatusStep DEF RequestCancellation, Active
<1>5. ASSUME LedgerNext PROVE Ledger'
  <2>1. Reports \subseteq AnyReport
    BY ReportsAssumption DEF AnyReport
  <2> QED BY <1>2, <1>3, <1>4, <1>5, <2>1, ReserveStep, FinishStep, ResolveStep, ReconcileStep
          DEF LedgerNext
<1>6. StoreNext => LedgerNext \/ UNCHANGED ledgerVars
  BY DEF StoreNext
<1>7. UNCHANGED storeVars => UNCHANGED ledgerVars
  BY DEF storeVars
<1> QED BY <1>1, <1>5, <1>6, <1>7

\* Only a restart and the review-format recovery write a task table, and of
\* those only the task rows.
LEMMA LedgerLeavesTasks ==
  ASSUME LedgerNext
  PROVE  /\ \/ UNCHANGED taskVars
            \/ ReconcileActive
            \/ \E t \in Tasks, e \in Executions, v \in evidence : RecoverReviewFormat(t, e, v)
         /\ UNCHANGED <<failures, evidence, approvals, approving>>
<1> DEFINE History == UNCHANGED <<failures, evidence, approvals, approving>>
<1>1. UNCHANGED taskVars => History
  BY DEF taskVars
<1>2. ASSUME NEW t \in Tasks, NEW e \in Executions, NEW role \in Roles,
             NEW timeout \in Timeouts, ReserveExecution(t, e, role, timeout)
      PROVE  UNCHANGED taskVars
  BY <1>2 DEF ReserveExecution
<1>3. ASSUME NEW e \in Executions, StartExecution(e) PROVE UNCHANGED taskVars
  BY <1>3 DEF StartExecution
<1>4. ASSUME NEW e \in Executions, NEW report \in Reports, FinishExecution(e, report)
      PROVE  UNCHANGED taskVars
  BY <1>4 DEF FinishExecution
<1>5. ASSUME NEW e \in Executions, RequestCancellation(e) PROVE UNCHANGED taskVars
  BY <1>5 DEF RequestCancellation
<1>6. ASSUME NEW e \in Executions, NEW resolution \in Resolutions,
             ResolveUncertainty(e, resolution)
      PROVE  UNCHANGED taskVars
  BY <1>6 DEF ResolveUncertainty
<1>7. ReconcileActive => History
  BY DEF ReconcileActive
<1>8. ASSUME NEW t \in Tasks, NEW e \in Executions, NEW v \in evidence,
             RecoverReviewFormat(t, e, v)
      PROVE  History
  BY <1>8 DEF RecoverReviewFormat
<1> HIDE DEF History
<1>9. \/ UNCHANGED taskVars
      \/ ReconcileActive
      \/ \E t \in Tasks, e \in Executions, v \in evidence : RecoverReviewFormat(t, e, v)
  BY <1>2, <1>3, <1>4, <1>5, <1>6 DEF LedgerNext
<1>10. History
  BY <1>1, <1>7, <1>8, <1>9
<1> QED BY <1>9, <1>10 DEF History

\* The ledger's operations write task rows only to block or unblock a task.
LEMMA LedgerTaskType ==
  ASSUME TaskTypeOK, LedgerNext
  PROVE  TaskTypeOK'
<1> USE DEF TaskTypeOK
<1>1. UNCHANGED taskVars => TaskTypeOK'
  BY DEF taskVars
<1>2. ASSUME ReconcileActive PROVE TaskTypeOK'
  <2>1. ASSUME NEW t \in Tasks
        PROVE  [task[t] EXCEPT !.state = "blocked"] \in TaskRow
    <3>1. task[t] \in TaskRow
      OBVIOUS
    <3> QED BY <3>1 DEF TaskRow, States
  <2>2. task' \in [Tasks -> TaskRow]
    BY <1>2, <2>1 DEF ReconcileActive
  <2> QED BY <1>2, <2>2 DEF ReconcileActive
<1>3. ASSUME NEW t \in Tasks, NEW e \in Executions, NEW v \in evidence,
             RecoverReviewFormat(t, e, v)
      PROVE  TaskTypeOK'
  <2>1. task' \in [Tasks -> TaskRow]
    BY <1>3, MoveToType DEF RecoverReviewFormat, States, Working
  <2> QED BY <1>3, <2>1 DEF RecoverReviewFormat
<1> QED BY <1>1, <1>2, <1>3, LedgerLeavesTasks

\* Every step of the store keeps the task tables typed.
LEMMA StoreStepType ==
  ASSUME TaskTypeOK, [StoreNext]_storeVars
  PROVE  TaskTypeOK'
<1>1. UNCHANGED taskVars => TaskTypeOK'
  BY DEF taskVars, TaskTypeOK
<1>2. UNCHANGED storeVars => UNCHANGED taskVars
  BY DEF storeVars
<1> QED BY <1>1, <1>2, TaskStepType, LedgerTaskType DEF StoreNext

\* The empty store is typed, and its tables agree.
LEMMA StoreInitOK == StoreInit => TaskTypeOK /\ Ledger
<1> SUFFICES ASSUME StoreInit PROVE TaskTypeOK /\ Ledger
  OBVIOUS
<1>1. TaskTypeOK
  <2>1. AbsentTask \in TaskRow
    BY DEF AbsentTask, TaskRow, States
  <2> QED BY <2>1 DEF StoreInit, TaskInit, TaskTypeOK
<1>2. LedgerTypeOK
  BY DEF StoreInit, LedgerInit, LedgerTypeOK, BudgetRow
<1>3. ASSUME NEW t \in Tasks PROVE In(t, Outstanding) = {} /\ In(t, Closed) = {}
  BY DEF StoreInit, LedgerInit, In, Unused, Outstanding, Active, Closed, Outcomes, Resolutions
<1>4. LedgerMatchesExecutions
  BY <1>3, FS_EmptySet DEF LedgerMatchesExecutions, StoreInit, LedgerInit
<1> QED BY <1>1, <1>2, <1>4 DEF Ledger

-----------------------------------------------------------------------------
\* The tables of the store hold rows of their types in every reachable state:
\* in particular no counter of a budget row ever goes below zero, however
\* reservations, late finishes, crashes and resolutions follow each other.
THEOREM StoreTypeCorrect == StoreSpec => []StoreTypeOK
<1>1. StoreInit => TaskTypeOK /\ Ledger
  BY StoreInitOK
<1>2. TaskTypeOK /\ Ledger /\ [StoreNext]_storeVars => (TaskTypeOK /\ Ledger)'
  BY LedgerStep, StoreStepType
<1>3. TaskTypeOK /\ Ledger => StoreTypeOK
  BY DEF Ledger, StoreTypeOK
<1> QED BY <1>1, <1>2, <1>3, PTL DEF StoreSpec

\* The counters of every budget row agree with the execution rows.
THEOREM LedgerAgrees == StoreSpec => []LedgerMatchesExecutions
<1>1. StoreInit => Ledger
  BY StoreInitOK
<1>2. Ledger /\ [StoreNext]_storeVars => Ledger'
  BY LedgerStep
<1>3. Ledger => LedgerMatchesExecutions
  BY DEF Ledger
<1> QED BY <1>1, <1>2, <1>3, PTL DEF StoreSpec

-----------------------------------------------------------------------------
(* A lost call isolates its task. *)

\* UncertaintyIsolates when the rows are x and the tasks tk.
Isolates(x, tk) ==
  \A e, f \in Executions :
    x[e].status = "reconciliation_required" /\ x[e].task \in Tasks =>
      /\ tk[x[e].task].state = "blocked"
      /\ x[f].task = x[e].task => x[f].status \notin Active

\* UncertaintyIsolates is Isolates, before a step and after it.
LEMMA IsolatesIsInvariant ==
  /\ UncertaintyIsolates <=> Isolates(exec, task)
  /\ UncertaintyIsolates' <=> Isolates(exec', task')
BY DEF UncertaintyIsolates, Isolates, Uncertain, In

\* No operation of the task half unblocks a task: "blocked" is the source of
\* no transition.
LEMMA BlockedStays ==
  ASSUME TaskTypeOK, TaskNext, NEW t \in Tasks, task[t].state = "blocked"
  PROVE  task'[t].state = "blocked"
<1> USE DEF TaskTypeOK, TaskRow
<1>1. ASSUME NEW u \in Tasks, CreateTask(u) PROVE task'[t].state = "blocked"
  BY <1>1 DEF CreateTask, Exists, MoveTo
<1>2. ASSUME NEW u \in Tasks, NEW expected \in States, NEW target \in States,
             Transition(u, expected, target)
      PROVE  task'[t].state = "blocked"
  <2>1. <<expected, target>> \in Transitions => expected # "blocked"
    BY DEF Transitions, Onward, Working
  <2> QED BY <1>2, <2>1 DEF Transition
<1>3. ASSUME NEW u \in Tasks, SetContract(u) PROVE task'[t].state = "blocked"
  BY <1>3 DEF SetContract
<1>4. ASSUME NEW u \in Tasks, NEW r \in Revisions, SetWorkspace(u, r) \/ SetHead(u, r)
      PROVE  task'[t].state = "blocked"
  BY <1>4 DEF SetWorkspace, SetHead
<1>5. ASSUME NEW u \in Tasks, NEW s \in Signatures, RecordFailure(u, s)
      PROVE  task'[t].state = "blocked"
  BY <1>5 DEF RecordFailure, MoveTo
<1>6. task' = task => task'[t].state = "blocked"
  OBVIOUS
<1> QED BY <1>1, <1>2, <1>3, <1>4, <1>5, <1>6
        DEF TaskNext, AddEvidence, ReadForApproval, InsertApproval

\* A row that was rewritten and is not uncertain leaves the others isolated,
\* provided it is not active beside an uncertain one.
LEMMA IsolatesRewrite ==
  ASSUME Isolates(exec, task), LedgerTypeOK, NEW e \in Executions, NEW row,
         exec' = [exec EXCEPT ![e] = row], task' = task,
         row.status # "reconciliation_required",
         row.status \in Active =>
           \A f \in Executions :
             exec[f].task = row.task => exec[f].status # "reconciliation_required"
  PROVE  Isolates(exec', task')
<1>1. exec'[e] = row /\ \A f \in Executions \ {e} : exec'[f] = exec[f]
  BY DEF LedgerTypeOK
<1> QED BY <1>1 DEF Isolates

\* Every step of the ledger keeps uncertain tasks isolated.
LEMMA LedgerIsolates ==
  ASSUME TaskTypeOK, LedgerTypeOK, Isolates(exec, task), LedgerNext
  PROVE  Isolates(exec', task')
<1>1. ASSUME NEW t \in Tasks, NEW e \in Executions, NEW role \in Roles,
             NEW timeout \in Timeouts, ReserveExecution(t, e, role, timeout)
      PROVE  Isolates(exec', task')
  <2> DEFINE row == [status |-> "reserved", task |-> t, role |-> role,
                     alloc |-> timeout, elapsed |-> 0, result |-> "none"]
  <2>1. /\ exec' = [exec EXCEPT ![e] = row] /\ task' = task
        /\ \A f \in Executions : exec[f].task = t => exec[f].status # "reconciliation_required"
    BY <1>1 DEF ReserveExecution, CallAllowed, Uncertain, In, taskVars
  <2>2. row.status = "reserved" /\ row.task = t
    OBVIOUS
  <2> HIDE DEF row
  <2> QED BY <2>1, <2>2, IsolatesRewrite
<1>2. ASSUME NEW e \in Executions, StartExecution(e) PROVE Isolates(exec', task')
  <2> DEFINE row == [exec[e] EXCEPT !.status = "running"]
  <2>1. /\ exec' = [exec EXCEPT ![e] = row] /\ task' = task
        /\ \A f \in Executions :
             exec[f].task = exec[e].task => exec[f].status # "reconciliation_required"
    BY <1>2 DEF StartExecution, Uncertain, In, taskVars
  <2>2. exec[e] \in ExecRow
    BY <1>2, UsedRow DEF StartExecution
  <2>3. row.status = "running" /\ row.task = exec[e].task
    BY <2>2 DEF ExecRow
  <2> HIDE DEF row
  <2> QED BY <2>1, <2>3, IsolatesRewrite
<1>3. ASSUME NEW e \in Executions, NEW report \in Reports, FinishExecution(e, report)
      PROVE  Isolates(exec', task')
  <2> DEFINE row == [exec[e] EXCEPT !.status = report.status, !.elapsed = report.elapsed,
                                    !.result = report.result]
  <2>1. exec' = [exec EXCEPT ![e] = row] /\ task' = task
    BY <1>3 DEF FinishExecution, taskVars
  <2>2. exec[e] \in ExecRow
    BY <1>3, UsedRow DEF FinishExecution, Active
  <2>3. row.status \in Outcomes
    BY <2>2, ReportsAssumption DEF ExecRow
  <2> HIDE DEF row
  <2> QED BY <2>1, <2>3, IsolatesRewrite DEF Outcomes, Active
<1>4. ASSUME NEW e \in Executions, RequestCancellation(e) PROVE Isolates(exec', task')
  <2> DEFINE row == [exec[e] EXCEPT !.status = "cancel_requested"]
  <2>1. exec' = [exec EXCEPT ![e] = row] /\ task' = task
    BY <1>4 DEF RequestCancellation, taskVars
  <2>2. exec[e] \in ExecRow /\ exec[e].status \in Active
    BY <1>4, UsedRow DEF RequestCancellation, Active
  <2>3. row.status = "cancel_requested" /\ row.task = exec[e].task /\ exec[e].task \in Tasks
    BY <2>2 DEF ExecRow
  <2>4. \A f \in Executions :
          exec[f].task = exec[e].task => exec[f].status # "reconciliation_required"
    BY <2>2, <2>3 DEF Isolates
  <2> HIDE DEF row
  <2> QED BY <2>1, <2>3, <2>4, IsolatesRewrite
<1>5. ASSUME NEW e \in Executions, NEW resolution \in Resolutions,
             ResolveUncertainty(e, resolution)
      PROVE  Isolates(exec', task')
  <2> DEFINE row == [exec[e] EXCEPT !.status = resolution]
  <2>1. exec' = [exec EXCEPT ![e] = row] /\ task' = task
    BY <1>5 DEF ResolveUncertainty, taskVars
  <2>2. exec[e] \in ExecRow
    BY <1>5, UsedRow DEF ResolveUncertainty
  <2>3. row.status \in Resolutions
    BY <2>2 DEF ExecRow
  <2> HIDE DEF row
  <2> QED BY <2>1, <2>3, IsolatesRewrite DEF Resolutions, Active
<1>6. ASSUME ReconcileActive PROVE Isolates(exec', task')
  <2>1. ASSUME NEW e \in Executions
        PROVE  /\ exec'[e].task = exec[e].task
               /\ exec'[e].status = IF e \in LostCalls THEN "reconciliation_required"
                                                       ELSE exec[e].status
               /\ exec'[e].status \notin Active
    <3>1. CASE e \in LostCalls
      <4>1. exec[e] \in ExecRow
        BY <3>1, UsedRow DEF LostCalls, Active
      <4>2. exec'[e] = [exec[e] EXCEPT !.status = "reconciliation_required"]
        BY <1>6, <3>1 DEF ReconcileActive
      <4> QED BY <3>1, <4>1, <4>2 DEF ExecRow, Active
    <3>2. CASE e \notin LostCalls
      <4>1. exec'[e] = exec[e]
        BY <1>6, <3>2 DEF ReconcileActive
      <4> QED BY <3>2, <4>1 DEF LostCalls
    <3> QED BY <3>1, <3>2
  <2>2. ASSUME NEW t \in Tasks, (\E e \in LostCalls : exec[e].task = t) \/ task[t].state = "blocked"
        PROVE  task'[t].state = "blocked"
    BY <1>6, <2>2 DEF ReconcileActive, TaskTypeOK, TaskRow
  <2> QED BY <2>1, <2>2 DEF Isolates
<1>7. ASSUME NEW t \in Tasks, NEW e \in Executions, NEW v \in evidence,
             RecoverReviewFormat(t, e, v)
      PROVE  Isolates(exec', task')
  <2>1. exec' = exec /\ \A u \in Tasks \ {t} : task'[u] = task[u]
    BY <1>7 DEF RecoverReviewFormat, MoveTo, TaskTypeOK
  <2>2. \A f \in Executions : exec[f].task = t => exec[f].status # "reconciliation_required"
    BY <1>7 DEF RecoverReviewFormat, In, Outstanding
  <2> QED BY <2>1, <2>2 DEF Isolates
<1> QED BY <1>1, <1>2, <1>3, <1>4, <1>5, <1>6, <1>7 DEF LedgerNext

\* A task with a lost call is blocked, and nothing else of it is in flight,
\* until an operator has resolved that call.
THEOREM UncertaintyIsolated == StoreSpec => []UncertaintyIsolates
<1> DEFINE Inv == TaskTypeOK /\ Ledger /\ UncertaintyIsolates
<1>1. StoreInit => Inv
  <2>1. StoreInit => UncertaintyIsolates
    BY DEF StoreInit, LedgerInit, UncertaintyIsolates, Uncertain, In, Unused
  <2> QED BY <2>1, StoreInitOK
<1>2. Inv /\ [StoreNext]_storeVars => Inv'
  <2> SUFFICES ASSUME Inv, [StoreNext]_storeVars PROVE Inv'
    OBVIOUS
  <2>1. TaskTypeOK' /\ Ledger'
    BY LedgerStep, StoreStepType
  <2>2. Isolates(exec, task) /\ LedgerTypeOK /\ TaskTypeOK
    BY IsolatesIsInvariant DEF Ledger
  <2>3. ASSUME TaskNext, UNCHANGED ledgerVars PROVE Isolates(exec', task')
    BY <2>2, <2>3, BlockedStays DEF Isolates, ledgerVars
  <2>4. ASSUME LedgerNext PROVE Isolates(exec', task')
    BY <2>2, <2>4, LedgerIsolates
  <2>5. ASSUME UNCHANGED storeVars PROVE Isolates(exec', task')
    BY <2>2, <2>5 DEF Isolates, storeVars, taskVars, ledgerVars
  <2>6. Isolates(exec', task')
    BY <2>3, <2>4, <2>5 DEF StoreNext
  <2> QED BY <2>1, <2>6, IsolatesIsInvariant
<1>3. Inv => UncertaintyIsolates
  OBVIOUS
<1> QED BY <1>1, <1>2, <1>3, PTL DEF StoreSpec

-----------------------------------------------------------------------------
(* Closed calls stay closed. *)

\* No operation rewrites the row of a closed call.
LEMMA ClosedStep ==
  ASSUME LedgerTypeOK, [StoreNext]_storeVars, NEW e \in Executions, exec[e].status \in Closed
  PROVE  exec'[e] = exec[e]
<1> USE DEF Closed, Outcomes, Resolutions
<1>1. exec' = exec => exec'[e] = exec[e]
  OBVIOUS
<1>2. ASSUME NEW t \in Tasks, NEW f \in Executions, NEW role \in Roles,
             NEW timeout \in Timeouts, ReserveExecution(t, f, role, timeout)
      PROVE  exec'[e] = exec[e]
  <2>1. f # e
    BY <1>2 DEF ReserveExecution, Unused
  <2> QED BY <1>2, <2>1 DEF ReserveExecution, LedgerTypeOK
<1>3. ASSUME NEW f \in Executions, StartExecution(f) \/ RequestCancellation(f)
      PROVE  exec'[e] = exec[e]
  <2>1. f # e
    BY <1>3 DEF StartExecution, RequestCancellation
  <2> QED BY <1>3, <2>1 DEF StartExecution, RequestCancellation, LedgerTypeOK
<1>4. ASSUME NEW f \in Executions, NEW report \in Reports, FinishExecution(f, report)
      PROVE  exec'[e] = exec[e]
  <2>1. f # e
    BY <1>4 DEF FinishExecution, Active
  <2> QED BY <1>4, <2>1 DEF FinishExecution, LedgerTypeOK
<1>5. ASSUME NEW f \in Executions, NEW resolution \in Resolutions,
             ResolveUncertainty(f, resolution)
      PROVE  exec'[e] = exec[e]
  <2>1. f # e
    BY <1>5 DEF ResolveUncertainty
  <2> QED BY <1>5, <2>1 DEF ResolveUncertainty, LedgerTypeOK
<1>6. ASSUME ReconcileActive PROVE exec'[e] = exec[e]
  BY <1>6 DEF ReconcileActive, LostCalls, Active
<1>7. UNCHANGED ledgerVars => exec' = exec
  BY DEF ledgerVars
<1>8. UNCHANGED storeVars => exec' = exec
  BY DEF storeVars, ledgerVars
<1>9. ASSUME NEW t \in Tasks, NEW f \in Executions, NEW v \in evidence,
             RecoverReviewFormat(t, f, v)
      PROVE  exec' = exec
  BY <1>9 DEF RecoverReviewFormat
<1> HIDE DEF Closed, Outcomes, Resolutions
<1> QED BY <1>1, <1>2, <1>3, <1>4, <1>5, <1>6, <1>7, <1>8, <1>9 DEF StoreNext, LedgerNext

\* A closed call is never reopened, rewritten or charged again.
THEOREM ClosedCallsAreFinal == StoreSpec => ClosedIsFinal
<1>1. StoreInit => Ledger
  BY StoreInitOK
<1>2. Ledger /\ [StoreNext]_storeVars => Ledger'
  BY LedgerStep
<1>3. Ledger /\ [StoreNext]_storeVars
        => [\A e \in Executions : exec[e].status \in Closed => exec'[e] = exec[e]]_storeVars
  BY ClosedStep DEF Ledger
<1> QED BY <1>1, <1>2, <1>3, PTL DEF StoreSpec, ClosedIsFinal

-----------------------------------------------------------------------------
(* Slots and reserves.  Reserving a call is the one step that moves a      *)
(* counter against its limit; every other step leaves as many calls and    *)
(* slots as there were, or frees some.                                     *)

\* Calls(t, roles) when the rows are x.
CallRows(x, t, roles) == {e \in Executions : x[e].task = t /\ x[e].role \in roles}

\* What is left of t's calls when the budget rows are b.
Left(b, t) == Budget[t].max_calls - (b[t].completed + b[t].reserved)

\* What the steps may assume of the limits and the counters.
LEMMA LimitsType ==
  ASSUME LedgerTypeOK, NEW t \in Tasks
  PROVE  /\ Budget[t] \in Limits /\ ValidLimits(Budget[t])
         /\ budget[t] \in BudgetRow
BY BudgetAssumption DEF LedgerTypeOK

\* A step that reserves nothing leaves the calls left and their roles alone
\* and takes no slot.
Spares ==
  \A t \in Tasks :
    /\ Left(budget', t) = Left(budget, t)
    /\ budget'[t].active <= budget[t].active
    /\ \A roles : CallRows(exec', t, roles) = CallRows(exec, t, roles)

\* Rewriting a row without changing whose call it is, and releasing it, spares.
LEMMA ReleaseSpares ==
  ASSUME LedgerTypeOK, NEW e \in Executions, NEW row, NEW elapsed \in Nat,
         exec' = [exec EXCEPT ![e] = row],
         row.task = exec[e].task, row.role = exec[e].role,
         exec[e].task \in Tasks, Release(e, elapsed)
  PROVE  Spares
<1> DEFINE t == exec[e].task
           count == [budget[t] EXCEPT !.reserved = @ - 1, !.active = @ - 1,
                                      !.completed = @ + 1, !.elapsed = @ + elapsed,
                                      !.reserved_elapsed = @ - exec[e].alloc]
<1>1. exec'[e] = row /\ \A f \in Executions \ {e} : exec'[f] = exec[f]
  BY DEF LedgerTypeOK
<1>2. budget' = [budget EXCEPT ![t] = count] /\ budget \in [Tasks -> BudgetRow]
  BY DEF Release, LedgerTypeOK
<1>3. budget[t] \in BudgetRow
  BY <1>2
<1>4. /\ count.reserved = budget[t].reserved - 1
      /\ count.active = budget[t].active - 1
      /\ count.completed = budget[t].completed + 1
  BY <1>3 DEF BudgetRow
<1> HIDE DEF count
<1>5. ASSUME NEW u \in Tasks
      PROVE  Left(budget', u) = Left(budget, u) /\ budget'[u].active <= budget[u].active
  <2>1. CASE u = t
    <3>1. budget'[u] = count
      BY <1>2, <2>1
    <3>2. Budget[u] \in Limits
      BY LimitsType
    <3>3. /\ budget[u].reserved \in Nat /\ budget[u].active \in Nat
          /\ budget[u].completed \in Nat /\ Budget[u].max_calls \in Nat
      BY <1>3, <2>1, <3>2 DEF BudgetRow, Limits
    <3> QED BY <1>4, <2>1, <3>1, <3>3 DEF Left
  <2>2. CASE u # t
    <3>1. budget'[u] = budget[u] /\ budget[u] \in BudgetRow
      BY <1>2, <2>2
    <3> QED BY <3>1 DEF Left, BudgetRow
  <2> QED BY <2>1, <2>2
<1>6. ASSUME NEW u \in Tasks, NEW roles
      PROVE  CallRows(exec', u, roles) = CallRows(exec, u, roles)
  BY <1>1 DEF CallRows
<1> QED BY <1>5, <1>6 DEF Spares

\* A step that leaves every row to its task and role, and the counters alone.
LEMMA SameCountsSpare ==
  ASSUME LedgerTypeOK, budget' = budget,
         \A e \in Executions : exec'[e].task = exec[e].task /\ exec'[e].role = exec[e].role
  PROVE  Spares
<1>1. ASSUME NEW t \in Tasks
      PROVE  Left(budget', t) = Left(budget, t) /\ budget'[t].active <= budget[t].active
  BY LimitsType DEF Left, BudgetRow
<1>2. ASSUME NEW t \in Tasks, NEW roles
      PROVE  CallRows(exec', t, roles) = CallRows(exec, t, roles)
  BY DEF CallRows
<1> QED BY <1>1, <1>2 DEF Spares

\* Every step but a reservation spares calls and slots.
LEMMA OthersSpare ==
  ASSUME LedgerTypeOK, [StoreNext]_storeVars,
         \A t \in Tasks, e \in Executions, role \in Roles, timeout \in Timeouts :
           ~ReserveExecution(t, e, role, timeout)
  PROVE  Spares
<1>1. ASSUME UNCHANGED <<exec, budget>> PROVE Spares
  BY <1>1, SameCountsSpare
<1>2. ASSUME NEW e \in Executions, StartExecution(e) \/ RequestCancellation(e) PROVE Spares
  <2>1. exec[e] \in ExecRow
    BY <1>2, UsedRow DEF StartExecution, RequestCancellation
  <2>2. \A f \in Executions : exec'[f].task = exec[f].task /\ exec'[f].role = exec[f].role
    BY <1>2, <2>1 DEF StartExecution, RequestCancellation, LedgerTypeOK, ExecRow
  <2>3. budget' = budget
    BY <1>2 DEF StartExecution, RequestCancellation
  <2> QED BY <2>2, <2>3, SameCountsSpare
<1>3. ASSUME NEW e \in Executions, NEW report \in Reports, FinishExecution(e, report)
      PROVE  Spares
  <2> DEFINE row == [exec[e] EXCEPT !.status = report.status, !.elapsed = report.elapsed,
                                    !.result = report.result]
  <2>1. exec[e] \in ExecRow
    BY <1>3, UsedRow DEF FinishExecution, Active
  <2>2. row.task = exec[e].task /\ row.role = exec[e].role /\ exec[e].task \in Tasks
    BY <2>1 DEF ExecRow
  <2>3. /\ exec' = [exec EXCEPT ![e] = row] /\ Release(e, report.elapsed)
        /\ report.elapsed \in Nat
    BY <1>3, ReportsAssumption DEF FinishExecution
  <2> HIDE DEF row
  <2> QED BY <2>2, <2>3, ReleaseSpares
<1>4. ASSUME NEW e \in Executions, NEW resolution \in Resolutions,
             ResolveUncertainty(e, resolution)
      PROVE  Spares
  <2> DEFINE row == [exec[e] EXCEPT !.status = resolution]
  <2>1. exec[e] \in ExecRow
    BY <1>4, UsedRow DEF ResolveUncertainty
  <2>2. row.task = exec[e].task /\ row.role = exec[e].role /\ exec[e].task \in Tasks
    BY <2>1 DEF ExecRow
  <2>3. exec' = [exec EXCEPT ![e] = row] /\ Release(e, 0)
    BY <1>4 DEF ResolveUncertainty
  <2> HIDE DEF row
  <2> QED BY <2>2, <2>3, ReleaseSpares
<1>5. ASSUME ReconcileActive PROVE Spares
  <2>1. ASSUME NEW e \in Executions
        PROVE  exec'[e].task = exec[e].task /\ exec'[e].role = exec[e].role
    <3>1. CASE e \in LostCalls
      <4>1. exec[e] \in ExecRow
        BY <3>1, UsedRow DEF LostCalls, Active
      <4>2. exec'[e] = [exec[e] EXCEPT !.status = "reconciliation_required"]
        BY <1>5, <3>1 DEF ReconcileActive
      <4> QED BY <4>1, <4>2 DEF ExecRow
    <3>2. CASE e \notin LostCalls
      BY <1>5, <3>2 DEF ReconcileActive
    <3> QED BY <3>1, <3>2
  <2> QED BY <1>5, <2>1, SameCountsSpare DEF ReconcileActive
<1>6. ASSUME NEW t \in Tasks, NEW e \in Executions, NEW v \in evidence,
             RecoverReviewFormat(t, e, v)
      PROVE  Spares
  BY <1>1, <1>6 DEF RecoverReviewFormat
<1>7. UNCHANGED ledgerVars => UNCHANGED <<exec, budget>>
  BY DEF ledgerVars
<1>8. UNCHANGED storeVars => UNCHANGED ledgerVars
  BY DEF storeVars
<1> QED BY <1>1, <1>2, <1>3, <1>4, <1>5, <1>6, <1>7, <1>8 DEF StoreNext, LedgerNext

\* What a reservation changes: one call and one slot fewer, for a call of a
\* role that leaves its successors theirs.
LEMMA ReserveSpends ==
  ASSUME LedgerTypeOK, NEW t \in Tasks, NEW e \in Executions, NEW role \in Roles,
         NEW timeout \in Timeouts, ReserveExecution(t, e, role, timeout)
  PROVE  /\ Left(budget', t) = Left(budget, t) - 1
         /\ Left(budget', t) >= 0 /\ Left(budget', t) >= Protected(t, role)
         /\ budget'[t].active <= Budget[t].max_concurrency
         /\ \A u \in Tasks \ {t} : budget'[u] = budget[u]
         /\ exec[e] = Unused /\ exec'[e].task = t /\ exec'[e].role = role
         /\ \A f \in Executions \ {e} : exec'[f] = exec[f]
<1> DEFINE row == [status |-> "reserved", task |-> t, role |-> role,
                   alloc |-> timeout, elapsed |-> 0, result |-> "none"]
           count == [budget[t] EXCEPT !.reserved = @ + 1, !.active = @ + 1,
                                      !.reserved_elapsed = @ + timeout]
<1>1. /\ exec' = [exec EXCEPT ![e] = row] /\ exec \in [Executions -> ExecRow \cup {Unused}]
      /\ budget' = [budget EXCEPT ![t] = count] /\ budget \in [Tasks -> BudgetRow]
      /\ exec[e] = Unused
  BY DEF ReserveExecution, LedgerTypeOK
<1>2. row.task = t /\ row.role = role
  OBVIOUS
<1>3. budget[t] \in BudgetRow /\ Budget[t] \in Limits
  BY LimitsType
<1>4. /\ count.reserved = budget[t].reserved + 1
      /\ count.active = budget[t].active + 1
      /\ count.completed = budget[t].completed
  BY <1>3 DEF BudgetRow
<1> HIDE DEF row, count
<1>5. /\ budget'[t] = count /\ \A u \in Tasks \ {t} : budget'[u] = budget[u]
      /\ exec'[e] = row /\ \A f \in Executions \ {e} : exec'[f] = exec[f]
  BY <1>1
<1>6. /\ budget[t].reserved \in Nat /\ budget[t].active \in Nat /\ budget[t].completed \in Nat
      /\ Budget[t].max_calls \in Nat /\ Budget[t].max_concurrency \in Nat
  BY <1>3 DEF BudgetRow, Limits
<1>7. /\ budget[t].active < Budget[t].max_concurrency
      /\ Left(budget, t) - 1 >= 0 /\ Left(budget, t) - 1 >= Protected(t, role)
  BY DEF ReserveExecution, CallAllowed, Left
<1>8. Left(budget', t) = Left(budget, t) - 1
  BY <1>4, <1>5, <1>6 DEF Left
<1>9. budget'[t].active <= Budget[t].max_concurrency
  BY <1>4, <1>5, <1>6, <1>7
<1> QED BY <1>1, <1>2, <1>5, <1>7, <1>8, <1>9

-----------------------------------------------------------------------------
\* No task's counter of active calls passes its limit.
Slots == \A t \in Tasks : budget[t].active <= Budget[t].max_concurrency

\* Every step keeps the slots bounded.
LEMMA SlotsStep ==
  ASSUME LedgerTypeOK, LedgerTypeOK', Slots, [StoreNext]_storeVars
  PROVE  Slots'
<1>1. ASSUME NEW t \in Tasks, NEW e \in Executions, NEW role \in Roles,
             NEW timeout \in Timeouts, ReserveExecution(t, e, role, timeout)
      PROVE  Slots'
  <2>1. /\ budget'[t].active <= Budget[t].max_concurrency
        /\ \A u \in Tasks \ {t} : budget'[u] = budget[u]
    BY <1>1, ReserveSpends
  <2> QED BY <2>1 DEF Slots
<1>2. ASSUME Spares PROVE Slots'
  <2> SUFFICES ASSUME NEW t \in Tasks
               PROVE  budget'[t].active <= Budget[t].max_concurrency
    BY DEF Slots
  <2>1. budget[t].active \in Nat /\ budget'[t].active \in Nat /\ Budget[t].max_concurrency \in Nat
    BY LimitsType DEF LedgerTypeOK, BudgetRow, Limits
  <2>2. budget'[t].active <= budget[t].active /\ budget[t].active <= Budget[t].max_concurrency
    BY <1>2 DEF Spares, Slots
  <2> QED BY <2>1, <2>2
<1> QED BY <1>1, <1>2, OthersSpare

\* However calls are reserved, lost, resolved and finished, a task never has
\* more of them outstanding than max_concurrency.
THEOREM ConcurrencyIsBounded == StoreSpec => []ConcurrencyBounded
<1> DEFINE Inv == Ledger /\ Slots
<1>1. StoreInit => Inv
  <2>1. StoreInit => Slots
    <3> SUFFICES ASSUME StoreInit, NEW t \in Tasks
                 PROVE  budget[t].active <= Budget[t].max_concurrency
      BY DEF Slots
    <3>1. Budget[t].max_concurrency \in Nat
      BY BudgetAssumption DEF Limits
    <3> QED BY <3>1 DEF StoreInit, LedgerInit
  <2> QED BY <2>1, StoreInitOK
<1>2. Inv /\ [StoreNext]_storeVars => Inv'
  BY LedgerStep, SlotsStep DEF Ledger
<1>3. Inv => ConcurrencyBounded
  BY DEF Ledger, Slots, LedgerMatchesExecutions, ConcurrencyBounded
<1> QED BY <1>1, <1>2, <1>3, PTL DEF StoreSpec

-----------------------------------------------------------------------------
\* QualityReserveKept when the rows are x and the counters b.
ReserveKept(x, b) ==
  \A t \in Tasks :
    /\ Left(b, t) >= 0
    /\ Left(b, t) >= Budget[t].verification_reserve + Budget[t].review_reserve
                       - Cardinality(CallRows(x, t, {"verification", "reviewer"}))
    /\ Left(b, t) >= Budget[t].review_reserve - Cardinality(CallRows(x, t, {"reviewer"}))

\* QualityReserveKept is ReserveKept, before a step and after it.
LEMMA ReserveIsInvariant ==
  /\ QualityReserveKept <=> ReserveKept(exec, budget)
  /\ QualityReserveKept' <=> ReserveKept(exec', budget')
BY DEF QualityReserveKept, ReserveKept, Left, Calls, CallRows

\* The calls of a task are finitely many.
LEMMA CallRowsFinite ==
  ASSUME NEW x, NEW t, NEW roles
  PROVE  IsFiniteSet(CallRows(x, t, roles)) /\ Cardinality(CallRows(x, t, roles)) \in Nat
<1>1. CallRows(x, t, roles) \in SUBSET Executions
  BY DEF CallRows
<1> QED BY <1>1, ExecutionsAssumption, FS_Subset, FS_CardinalityType

\* A row taken into use is a call more for its own task and role, and no
\* change for any other.
LEMMA CallRowsAdd ==
  ASSUME NEW x, NEW y, NEW e \in Executions, NEW u \in Tasks, NEW roles,
         \A f \in Executions \ {e} : y[f] = x[f], x[e] = Unused
  PROVE  Cardinality(CallRows(y, u, roles)) =
           IF y[e].task = u /\ y[e].role \in roles
           THEN Cardinality(CallRows(x, u, roles)) + 1
           ELSE Cardinality(CallRows(x, u, roles))
<1>1. e \notin CallRows(x, u, roles)
  BY NoTaskAssumption DEF CallRows, Unused
<1>2. CASE y[e].task = u /\ y[e].role \in roles
  <2>1. CallRows(y, u, roles) = CallRows(x, u, roles) \cup {e}
    BY <1>2 DEF CallRows
  <2>2. IsFiniteSet(CallRows(x, u, roles))
    BY CallRowsFinite
  <2>3. Cardinality(CallRows(x, u, roles) \cup {e}) = Cardinality(CallRows(x, u, roles)) + 1
    BY <1>1, <2>2, FS_AddElement
  <2> QED BY <1>2, <2>1, <2>3
<1>3. CASE ~(y[e].task = u /\ y[e].role \in roles)
  <2>1. CallRows(y, u, roles) = CallRows(x, u, roles)
    BY <1>1, <1>3 DEF CallRows
  <2> QED BY <1>3, <2>1
<1> QED BY <1>2, <1>3

\* Every step keeps the reserves.
LEMMA ReserveKeptStep ==
  ASSUME LedgerTypeOK, ReserveKept(exec, budget), [StoreNext]_storeVars
  PROVE  ReserveKept(exec', budget')
<1>1. ASSUME NEW t \in Tasks, NEW e \in Executions, NEW role \in Roles,
             NEW timeout \in Timeouts, ReserveExecution(t, e, role, timeout)
      PROVE  ReserveKept(exec', budget')
  <2> SUFFICES ASSUME NEW u \in Tasks
               PROVE  /\ Left(budget', u) >= 0
                      /\ Left(budget', u) >=
                           Budget[u].verification_reserve + Budget[u].review_reserve
                             - Cardinality(CallRows(exec', u, {"verification", "reviewer"}))
                      /\ Left(budget', u) >=
                           Budget[u].review_reserve
                             - Cardinality(CallRows(exec', u, {"reviewer"}))
    BY DEF ReserveKept
  <2> DEFINE V == Budget[u].verification_reserve
             R == Budget[u].review_reserve
             both == Cardinality(CallRows(exec, u, {"verification", "reviewer"}))
             reviews == Cardinality(CallRows(exec, u, {"reviewer"}))
             both2 == Cardinality(CallRows(exec', u, {"verification", "reviewer"}))
             reviews2 == Cardinality(CallRows(exec', u, {"reviewer"}))
             left == Left(budget, u)
             left2 == Left(budget', u)
  <2>1. V \in Nat /\ R \in Nat
    BY LimitsType DEF Limits
  <2>2. both \in Nat /\ reviews \in Nat
    BY CallRowsFinite
  <2>3. left \in Int
    BY LimitsType DEF Left, BudgetRow, Limits
  <2>4. left >= 0 /\ left >= V + R - both /\ left >= R - reviews
    BY DEF ReserveKept
  <2>5. /\ \A f \in Executions \ {e} : exec'[f] = exec[f]
        /\ exec[e] = Unused /\ exec'[e].task = t /\ exec'[e].role = role
        /\ Left(budget', t) = Left(budget, t) - 1 /\ Left(budget', t) >= 0
        /\ Left(budget', t) >= Protected(t, role)
        /\ \A v \in Tasks \ {t} : budget'[v] = budget[v]
    BY <1>1, ReserveSpends
  <2>6. both2 = IF t = u /\ role \in {"verification", "reviewer"} THEN both + 1 ELSE both
    BY <2>5, CallRowsAdd
  <2>7. reviews2 = IF t = u /\ role \in {"reviewer"} THEN reviews + 1 ELSE reviews
    BY <2>5, CallRowsAdd
  <2>8. CASE t # u
    <3>1. left2 = left
      BY <2>5, <2>8 DEF Left
    <3> QED BY <2>4, <2>6, <2>7, <2>8, <3>1
  <2>9. CASE t = u
    <3>1. /\ left2 = left - 1 /\ left2 >= 0
          /\ role \in {"implementer", "repair"} => left2 >= V + R
          /\ role = "verification" => left2 >= R
      BY <2>5, <2>9 DEF Protected
    <3>2. role \in {"implementer", "repair"} \/ role = "verification" \/ role = "reviewer"
      BY DEF Roles, RoleState
    <3> HIDE DEF V, R, both, reviews, both2, reviews2, left, left2
    <3>3. left2 >= 0 /\ left2 >= V + R - both2 /\ left2 >= R - reviews2
      BY <2>1, <2>2, <2>3, <2>4, <2>6, <2>7, <2>9, <3>1, <3>2
    <3> QED BY <3>3 DEF V, R, both2, reviews2, left2
  <2> QED BY <2>8, <2>9
<1>2. ASSUME Spares PROVE ReserveKept(exec', budget')
  BY <1>2 DEF Spares, ReserveKept
<1> QED BY <1>1, <1>2, OthersSpare

\* Implementers and repairs never eat the calls kept for verification and
\* review, and verification never eats those kept for review.
THEOREM ReservesAreKept == StoreSpec => []QualityReserveKept
<1> DEFINE Inv == Ledger /\ QualityReserveKept
<1>1. StoreInit => Inv
  <2> SUFFICES ASSUME StoreInit PROVE QualityReserveKept
    BY StoreInitOK
  <2>1. ASSUME NEW t \in Tasks, NEW roles PROVE Cardinality(CallRows(exec, t, roles)) = 0
    <3>1. CallRows(exec, t, roles) = {}
      BY NoTaskAssumption DEF StoreInit, LedgerInit, CallRows, Unused
    <3> QED BY <3>1, FS_EmptySet
  <2>2. ASSUME NEW t \in Tasks
        PROVE  /\ Left(budget, t) = Budget[t].max_calls
               /\ Budget[t].verification_reserve \in Nat /\ Budget[t].review_reserve \in Nat
               /\ Budget[t].max_calls \in Nat
               /\ Budget[t].verification_reserve + Budget[t].review_reserve < Budget[t].max_calls
    <3>1. Budget[t] \in Limits /\ ValidLimits(Budget[t])
      BY BudgetAssumption
    <3>2. budget[t].completed = 0 /\ budget[t].reserved = 0
      BY DEF StoreInit, LedgerInit
    <3> QED BY <3>1, <3>2 DEF Limits, ValidLimits, Left
  <2>3. ReserveKept(exec, budget)
    BY <2>1, <2>2 DEF ReserveKept
  <2> QED BY <2>3, ReserveIsInvariant
<1>2. Inv /\ [StoreNext]_storeVars => Inv'
  BY LedgerStep, ReserveKeptStep, ReserveIsInvariant DEF Ledger
<1>3. Inv => QualityReserveKept
  OBVIOUS
<1> QED BY <1>1, <1>2, <1>3, PTL DEF StoreSpec

-----------------------------------------------------------------------------
(* Sums.  The library sums by a recursion over sets, of which no induction *)
(* theorem can be instantiated here; a least counterexample in the order   *)
(* of finite sets says once what every sum below is, a cardinality.        *)

\* What f sums to over S, as the size of a set: one unit for each that is summed.
Units(f, S) == {u \in S \X Nat : u[2] < f[u[1]]}

\* The summands of S are numbers.
Natural(f, S) == \A x \in S : f[x] \in Nat

\* One summand has as many units as it counts.
LEMMA UnitsOfOne ==
  ASSUME NEW f, NEW x, f[x] \in Nat
  PROVE  IsFiniteSet(Units(f, {x})) /\ Cardinality(Units(f, {x})) = f[x]
<1> DEFINE n == f[x]
           upto == 0 .. n - 1
           unit == [k \in upto |-> <<x, k>>]
<1>1. IsFiniteSet(upto) /\ Cardinality(upto) = n
  BY FS_Interval
<1>2. unit \in Bijection(upto, Units(f, {x}))
  <2>1. \A u \in Units(f, {x}) : u[2] \in upto /\ u = <<x, u[2]>>
    BY DEF Units
  <2>2. \A k \in upto : <<x, k>> \in Units(f, {x})
    BY DEF Units
  <2>3. unit \in [upto -> Units(f, {x})]
    BY <2>2
  <2>4. \A a, b \in upto : unit[a] = unit[b] => a = b
    OBVIOUS
  <2>5. \A u \in Units(f, {x}) : \E a \in upto : unit[a] = u
    BY <2>1
  <2> HIDE DEF unit, upto
  <2> QED BY <2>3, <2>4, <2>5 DEF Bijection, Injection, Surjection, IsInjective
<1>3. ExistsBijection(upto, Units(f, {x}))
  BY <1>2 DEF ExistsBijection
<1> HIDE DEF upto
<1> QED BY <1>1, <1>3, FS_Bijection

\* Finitely many summands have finitely many units.
LEMMA UnitsFinite ==
  ASSUME NEW f, NEW S, IsFiniteSet(S), Natural(f, S)
  PROVE  IsFiniteSet(Units(f, S)) /\ Cardinality(Units(f, S)) \in Nat
<1> DEFINE ones == {Units(f, {x}) : x \in S}
           one == [x \in S |-> Units(f, {x})]
<1>1. one \in Surjection(S, ones)
  BY DEF Surjection
<1>2. IsFiniteSet(ones)
  <2> HIDE DEF ones, one
  <2> QED BY <1>1, FS_Surjection
<1>3. \A o \in ones : IsFiniteSet(o)
  BY UnitsOfOne DEF Natural
<1>4. IsFiniteSet(UNION ones)
  <2> HIDE DEF ones
  <2> QED BY <1>2, <1>3, FS_UNION
<1>5. Units(f, S) = UNION ones
  BY DEF Units
<1> QED BY <1>4, <1>5, FS_CardinalityType

\* One summand more.
LEMMA UnitsAdd ==
  ASSUME NEW f, NEW S, NEW x, x \notin S, f[x] \in Nat, IsFiniteSet(S), Natural(f, S)
  PROVE  Cardinality(Units(f, S \cup {x})) = Cardinality(Units(f, S)) + f[x]
<1> DEFINE A == Units(f, S)
           B == Units(f, {x})
<1>1. Units(f, S \cup {x}) = A \cup B
  BY DEF Units
<1>2. A \cap B = {}
  BY DEF Units
<1>3. IsFiniteSet(B) /\ Cardinality(B) = f[x]
  BY UnitsOfOne
<1>4. IsFiniteSet(A) /\ Cardinality(A) \in Nat
  BY UnitsFinite
<1> HIDE DEF A, B
<1>5. Cardinality(A \cup B) = Cardinality(A) + Cardinality(B) - Cardinality(A \cap B)
  BY <1>3, <1>4, FS_Union
<1>6. Cardinality(A \cap B) = 0
  BY <1>2, FS_EmptySet
<1>7. PICK n \in Nat : n = f[x]
  OBVIOUS
<1>8. Cardinality(A \cup B) = Cardinality(A) + n
  BY <1>3, <1>4, <1>5, <1>6, <1>7
<1> QED BY <1>1, <1>7, <1>8 DEF A

\* No summand has no units.
LEMMA UnitsOfNone ==
  ASSUME NEW f
  PROVE  Cardinality(Units(f, {})) = 0
<1>1. Units(f, {}) = {}
  BY DEF Units
<1> QED BY <1>1, FS_EmptySet

\* The summand the library takes next.
Pick(s) == CHOOSE x \in s : TRUE

\* g sums f over each part of S, in the order the library does.
Sums(f, S, g) ==
  g = [s \in SUBSET S |-> IF s = {} THEN 0 ELSE f[Pick(s)] + g[s \ {Pick(s)}]]

\* A part of S without the summand picked from it.
LEMMA PickOne ==
  ASSUME NEW f, NEW S, IsFiniteSet(S), Natural(f, S), NEW s \in SUBSET S, s # {}
  PROVE  /\ Pick(s) \in s
         /\ Cardinality(Units(f, s)) = f[Pick(s)] + Cardinality(Units(f, s \ {Pick(s)}))
<1> DEFINE r == s \ {Pick(s)}
<1>1. Pick(s) \in s
  BY DEF Pick
<1>2. IsFiniteSet(r)
  BY FS_Subset
<1>3. s = r \cup {Pick(s)} /\ Pick(s) \notin r
  BY <1>1
<1>4. f[Pick(s)] \in Nat /\ Natural(f, r)
  BY <1>1 DEF Natural
<1> HIDE DEF r
<1>5. Cardinality(Units(f, r)) \in Nat
  BY <1>2, <1>4, UnitsFinite
<1>6. Cardinality(Units(f, s)) = Cardinality(Units(f, r)) + f[Pick(s)]
  BY <1>2, <1>3, <1>4, UnitsAdd
<1>7. PICK n \in Nat : n = f[Pick(s)]
  BY <1>4
<1>8. Cardinality(Units(f, s)) = n + Cardinality(Units(f, r))
  BY <1>5, <1>6, <1>7
<1> QED BY <1>1, <1>7, <1>8 DEF r

\* The number of units is such a sum,
LEMMA UnitsSum ==
  ASSUME NEW f, NEW S, IsFiniteSet(S), Natural(f, S)
  PROVE  Sums(f, S, [s \in SUBSET S |-> Cardinality(Units(f, s))])
<1> DEFINE g == [s \in SUBSET S |-> Cardinality(Units(f, s))]
<1>1. ASSUME NEW s \in SUBSET S
      PROVE  g[s] = IF s = {} THEN 0 ELSE f[Pick(s)] + g[s \ {Pick(s)}]
  <2>1. CASE s = {}
    BY <2>1, UnitsOfNone
  <2>2. CASE s # {}
    BY <2>2, PickOne
  <2> QED BY <2>1, <2>2
<1> QED BY <1>1 DEF Sums

\* and there is no other.
LEMMA OneSum ==
  ASSUME NEW f, NEW S, IsFiniteSet(S), Natural(f, S), NEW g, Sums(f, S, g)
  PROVE  g[S] = Cardinality(Units(f, S))
<1> DEFINE bad == {s \in SUBSET S : g[s] # Cardinality(Units(f, s))}
           Less == StrictSubsetOrdering(S)
<1>1. ASSUME NEW s \in SUBSET S
      PROVE  g[s] = IF s = {} THEN 0 ELSE f[Pick(s)] + g[s \ {Pick(s)}]
  BY DEF Sums
<1>2. bad = {}
  <2> SUFFICES ASSUME bad # {} PROVE FALSE
    OBVIOUS
  <2>1. IsWellFoundedOn(Less, SUBSET S)
    BY FS_StrictSubsetOrderingWellFounded, FS_FiniteSubsetsOfFinite
  <2>2. PICK s \in bad : \A r \in bad : <<r, s>> \notin Less
    <3>1. bad \subseteq SUBSET S
      OBVIOUS
    <3> HIDE DEF bad, Less
    <3> QED BY <2>1, <3>1, WFMin
  <2>3. s # {}
    BY <1>1, UnitsOfNone
  <2> DEFINE r == s \ {Pick(s)}
  <2>4. Pick(s) \in s /\ Cardinality(Units(f, s)) = f[Pick(s)] + Cardinality(Units(f, r))
    BY <2>3, PickOne
  <2>5. r \notin bad
    <3>1. r \in SUBSET S /\ s \in SUBSET S /\ r \subseteq s /\ r # s
      BY <2>4
    <3> HIDE DEF r, bad
    <3>2. <<r, s>> \in Less
      BY <3>1 DEF StrictSubsetOrdering
    <3> QED BY <2>2, <3>2
  <2>6. g[s] = f[Pick(s)] + g[r]
    BY <1>1, <2>3
  <2> QED BY <2>4, <2>5, <2>6
<1> QED BY <1>2

\* The library's sum is the number of units.
LEMMA SumIsUnits ==
  ASSUME NEW f, NEW S, IsFiniteSet(S), Natural(f, S)
  PROVE  SumFunctionOnSet(f, S) = Cardinality(Units(f, S))
<1>1. SumFunctionOnSet(f, S) = (CHOOSE g : Sums(f, S, g))[S]
  BY DEF SumFunctionOnSet, FoldFunctionOnSet, MapThenFoldSet, Sums, Pick
<1>2. Sums(f, S, CHOOSE g : Sums(f, S, g))
  BY UnitsSum
<1> QED BY <1>1, <1>2, OneSum

\* Summands that are the same on S sum to the same.
LEMMA SumAlike ==
  ASSUME NEW f, NEW g, NEW S, IsFiniteSet(S), Natural(f, S), \A x \in S : g[x] = f[x]
  PROVE  SumFunctionOnSet(g, S) = SumFunctionOnSet(f, S)
<1>1. Natural(g, S)
  BY DEF Natural
<1>2. Units(g, S) = Units(f, S)
  BY DEF Units
<1> QED BY <1>1, <1>2, SumIsUnits

-----------------------------------------------------------------------------
(* Charging executions.  The rows are summed as they were counted. *)

Times == {"elapsed", "alloc", "overrun"}

\* The times of a row: what it took, what it was allotted, what it overran that by.
TimeOf(k, row) ==
  CASE k = "elapsed" -> row.elapsed
    [] k = "alloc"   -> row.alloc
    [] k = "overrun" -> IF row.elapsed > row.alloc THEN row.elapsed - row.alloc ELSE 0

TimesOf(k, x) == [e \in Executions |-> TimeOf(k, x[e])]

\* A time of the executions of u whose status is in S, in all.
Total(k, x, u, S) == SumFunctionOnSet(TimesOf(k, x), Rows(x, u, S))

\* The rows a well-typed store has.
ExecTable == [Executions -> ExecRow \cup {Unused}]

\* They are numbers, those of a row not in use included.
LEMMA TimesNatural ==
  ASSUME NEW k \in Times, NEW x \in ExecTable, NEW e \in Executions
  PROVE  TimeOf(k, x[e]) \in Nat /\ TimesOf(k, x)[e] = TimeOf(k, x[e])
<1>1. x[e].elapsed \in Nat /\ x[e].alloc \in Nat
  BY DEF ExecTable, ExecRow, Unused
<1>2. PICK a \in Nat, b \in Nat : a = x[e].elapsed /\ b = x[e].alloc
  BY <1>1
<1>3. (IF a > b THEN a - b ELSE 0) \in Nat
  BY <1>2
<1> QED BY <1>2, <1>3 DEF Times, TimeOf, TimesOf

\* The rows of a task can be summed.
LEMMA TotalNatural ==
  ASSUME NEW k \in Times, NEW x \in ExecTable, NEW u, NEW S
  PROVE  /\ IsFiniteSet(Rows(x, u, S)) /\ Rows(x, u, S) \subseteq Executions
         /\ Natural(TimesOf(k, x), Rows(x, u, S))
         /\ Total(k, x, u, S) \in Nat
<1>1. IsFiniteSet(Rows(x, u, S))
  BY RowsFinite
<1>2. Rows(x, u, S) \subseteq Executions
  BY DEF Rows
<1>3. Natural(TimesOf(k, x), Rows(x, u, S))
  BY <1>2, TimesNatural DEF Natural
<1> QED BY <1>1, <1>2, <1>3, SumIsUnits, UnitsFinite DEF Total

\* A row that stays out changes no total.
LEMMA TotalSame ==
  ASSUME NEW k \in Times, NEW x \in ExecTable, NEW y \in ExecTable,
         NEW e \in Executions, NEW u, NEW S, \A d \in Executions \ {e} : y[d] = x[d],
         ~Within(x[e], u, S), ~Within(y[e], u, S)
  PROVE  Total(k, y, u, S) = Total(k, x, u, S)
<1>1. Rows(y, u, S) = Rows(x, u, S) /\ e \notin Rows(x, u, S)
  BY DEF Within, Rows
<1>2. \A d \in Executions \ {e} : TimesOf(k, y)[d] = TimesOf(k, x)[d]
  BY DEF TimesOf
<1>3. \A d \in Rows(x, u, S) : TimesOf(k, y)[d] = TimesOf(k, x)[d]
  BY <1>1, <1>2, TotalNatural
<1> QED BY <1>1, <1>3, TotalNatural, SumAlike DEF Total

\* A row that comes in, or seen backwards one that goes out, is added.
LEMMA TotalIn ==
  ASSUME NEW k \in Times, NEW x \in ExecTable, NEW y \in ExecTable,
         NEW e \in Executions, NEW u, NEW S, \A d \in Executions \ {e} : y[d] = x[d],
         ~Within(x[e], u, S), Within(y[e], u, S)
  PROVE  Total(k, y, u, S) = Total(k, x, u, S) + TimeOf(k, y[e])
<1> DEFINE X == Rows(x, u, S)
           f == TimesOf(k, x)
           g == TimesOf(k, y)
<1>1. e \notin X /\ Rows(y, u, S) = X \cup {e}
  BY RowsAfter
<1>2. IsFiniteSet(X) /\ X \subseteq Executions /\ Natural(f, X)
  BY TotalNatural
<1>3. \A d \in Executions \ {e} : g[d] = f[d]
  BY DEF TimesOf
<1>4. g[e] = TimeOf(k, y[e]) /\ g[e] \in Nat
  BY TimesNatural
<1> HIDE DEF X, f, g
<1>5. \A d \in X : g[d] = f[d]
  BY <1>1, <1>2, <1>3
<1>6. IsFiniteSet(X \cup {e}) /\ Natural(g, X \cup {e}) /\ Natural(g, X)
  BY <1>2, <1>4, <1>5, FS_AddElement DEF Natural
<1>7. SumFunctionOnSet(g, X \cup {e}) = SumFunctionOnSet(g, X) + g[e]
  BY <1>1, <1>2, <1>4, <1>6, SumIsUnits, UnitsAdd
<1>8. SumFunctionOnSet(g, X) = SumFunctionOnSet(f, X)
  BY <1>2, <1>5, SumAlike
<1> QED BY <1>1, <1>4, <1>7, <1>8 DEF X, f, g, Total

-----------------------------------------------------------------------------
\* ElapsedMatchesExecutions when the rows are x and the counters b.
Charged(x, b) ==
  \A u \in Tasks :
    /\ b[u].elapsed = Total("elapsed", x, u, Closed)
    /\ b[u].reserved_elapsed = Total("alloc", x, u, Outstanding)
    /\ b[u].elapsed + b[u].reserved_elapsed
         <= Budget[u].max_elapsed + Total("overrun", x, u, Closed)

\* ElapsedMatchesExecutions is Charged, before a step and after it.
LEMMA ChargedIsMatch ==
  /\ ElapsedMatchesExecutions  <=> Charged(exec, budget)
  /\ ElapsedMatchesExecutions' <=> Charged(exec', budget')
<1>1. /\ Elapsed = TimesOf("elapsed", exec) /\ Alloc = TimesOf("alloc", exec)
      /\ Overrun = TimesOf("overrun", exec)
  BY DEF Elapsed, Alloc, Overrun, TimesOf, TimeOf
<1>2. /\ Elapsed' = TimesOf("elapsed", exec') /\ Alloc' = TimesOf("alloc", exec')
      /\ Overrun' = TimesOf("overrun", exec')
  BY DEF Elapsed, Alloc, Overrun, TimesOf, TimeOf
<1>3. \A u, S : In(u, S) = Rows(exec, u, S) /\ In(u, S)' = Rows(exec', u, S)
  BY DEF In, Rows
<1> QED BY <1>1, <1>2, <1>3 DEF ElapsedMatchesExecutions, Charged, Total

\* A call that is out has not been charged yet.
Untimed == \A e \in Executions : exec[e].status \in Outstanding => exec[e].elapsed = 0

\* What a step leaves of a row that it only moves among the outstanding.
Retimed(e) ==
  /\ exec'[e].task = exec[e].task
  /\ exec'[e].elapsed = exec[e].elapsed /\ exec'[e].alloc = exec[e].alloc
  /\ exec'[e].status \in Outstanding <=> exec[e].status \in Outstanding
  /\ exec'[e].status \in Closed <=> exec[e].status \in Closed

\* A step that does no more charges nothing.
LEMMA NothingCharged ==
  ASSUME Charged(exec, budget), Untimed, budget' = budget, \A e \in Executions : Retimed(e)
  PROVE  Charged(exec', budget') /\ Untimed'
<1>1. \A k \in Times : TimesOf(k, exec') = TimesOf(k, exec)
  BY DEF Retimed, TimesOf, TimeOf, Times
<1>2. ASSUME NEW u \in Tasks
      PROVE  /\ Rows(exec', u, Outstanding) = Rows(exec, u, Outstanding)
             /\ Rows(exec', u, Closed) = Rows(exec, u, Closed)
  BY DEF Retimed, Rows
<1>3. Untimed'
  BY DEF Retimed, Untimed
<1> QED BY <1>1, <1>2, <1>3 DEF Charged, Total, Times

\* A reservation holds its timeout back, and stays within the limit.
LEMMA ReserveCharges ==
  ASSUME Ledger, Ledger', Charged(exec, budget), Untimed,
         NEW t \in Tasks, NEW e \in Executions, NEW role \in Roles,
         NEW timeout \in Timeouts, ReserveExecution(t, e, role, timeout)
  PROVE  Charged(exec', budget') /\ Untimed'
<1> DEFINE row == [status |-> "reserved", task |-> t, role |-> role,
                   alloc |-> timeout, elapsed |-> 0, result |-> "none"]
           count == [budget[t] EXCEPT !.reserved = @ + 1, !.active = @ + 1,
                                      !.reserved_elapsed = @ + timeout]
<1>1. exec \in ExecTable /\ exec' \in ExecTable /\ budget \in [Tasks -> BudgetRow]
  BY DEF Ledger, LedgerTypeOK, ExecTable
<1>2. /\ exec' = [exec EXCEPT ![e] = row] /\ exec[e].status = "unused"
      /\ budget' = [budget EXCEPT ![t] = count]
  <2>1. exec' = [exec EXCEPT ![e] = row] /\ exec[e].status = "unused"
    BY DEF ReserveExecution, Unused
  <2>2. budget' = [budget EXCEPT ![t] = count]
    BY <1>1 DEF ReserveExecution
  <2> QED BY <2>1, <2>2
<1>3. budget[t].elapsed + budget[t].reserved_elapsed + timeout <= Budget[t].max_elapsed
  BY DEF ReserveExecution, TimeAllowed
<1>4. /\ row.status \in Outstanding /\ row.task = t /\ row.elapsed = 0
      /\ row.alloc = timeout /\ timeout \in Nat
  BY TimeoutsAssumption DEF Outstanding, Active
<1>5. exec[e].status \notin Outstanding /\ exec[e].status \notin Closed
  BY <1>2 DEF Outstanding, Active, Closed, Outcomes, Resolutions
<1>6. /\ count.elapsed = budget[t].elapsed
      /\ count.reserved_elapsed = budget[t].reserved_elapsed + timeout
      /\ budget[t].elapsed \in Nat /\ budget[t].reserved_elapsed \in Int
  BY <1>1 DEF BudgetRow
<1> HIDE DEF row, count
<1>7. exec'[e] = row /\ \A d \in Executions \ {e} : exec'[d] = exec[d]
  BY <1>1, <1>2 DEF ExecTable
<1>8. Untimed'
  BY <1>4, <1>7 DEF Untimed
<1>9. ASSUME NEW u \in Tasks
      PROVE  /\ budget'[u].elapsed = Total("elapsed", exec', u, Closed)
             /\ budget'[u].reserved_elapsed = Total("alloc", exec', u, Outstanding)
             /\ budget'[u].elapsed + budget'[u].reserved_elapsed
                  <= Budget[u].max_elapsed + Total("overrun", exec', u, Closed)
  <2>1. /\ ~Within(exec[e], u, Outstanding) /\ ~Within(exec[e], u, Closed)
        /\ Within(exec'[e], u, Outstanding) <=> t = u
        /\ ~Within(exec'[e], u, Closed)
    BY <1>4, <1>5, <1>7, StatusesDisjoint DEF Within
  <2>2. \A k \in Times : Total(k, exec', u, Closed) = Total(k, exec, u, Closed)
    BY <1>1, <1>7, <2>1, TotalSame
  <2>3. /\ budget[u].elapsed = Total("elapsed", exec, u, Closed)
        /\ budget[u].reserved_elapsed = Total("alloc", exec, u, Outstanding)
        /\ budget[u].elapsed + budget[u].reserved_elapsed
             <= Budget[u].max_elapsed + Total("overrun", exec, u, Closed)
    BY DEF Charged
  <2>4. budget'[u] = IF t = u THEN count ELSE budget[u]
    BY <1>1, <1>2
  <2>5. CASE t # u
    <3>1. Total("alloc", exec', u, Outstanding) = Total("alloc", exec, u, Outstanding)
      BY <1>1, <1>7, <2>1, <2>5, TotalSame DEF Times
    <3> QED BY <2>2, <2>3, <2>4, <2>5, <3>1 DEF Times
  <2>6. CASE t = u
    <3>1. Total("alloc", exec', u, Outstanding) = Total("alloc", exec, u, Outstanding) + timeout
      <4>1. TimeOf("alloc", exec'[e]) = timeout
        BY <1>4, <1>7 DEF TimeOf
      <4> QED BY <1>1, <1>7, <2>1, <2>6, <4>1, TotalIn DEF Times
    <3>2. Total("overrun", exec, u, Closed) \in Nat
      BY <1>1, TotalNatural DEF Times
    <3>3. Budget[u].max_elapsed \in Nat
      BY BudgetAssumption DEF Limits
    <3>4. /\ Total("overrun", exec', u, Closed) = Total("overrun", exec, u, Closed)
          /\ Total("elapsed", exec', u, Closed) = Total("elapsed", exec, u, Closed)
      BY <2>2 DEF Times
    <3> QED BY <1>3, <1>4, <1>6, <2>3, <2>4, <2>6, <3>1, <3>2, <3>3, <3>4
  <2> QED BY <2>5, <2>6
<1> QED BY <1>8, <1>9 DEF Charged

\* A call that closes is charged what it took, and gives back what it held.
LEMMA ReleaseCharges ==
  ASSUME Ledger, Ledger', Charged(exec, budget), Untimed,
         NEW e \in Executions, NEW row \in ExecRow,
         Rewrites(e, row), row.task = exec[e].task, row.alloc = exec[e].alloc,
         exec[e].status \in Outstanding, row.status \in Closed, Release(e, row.elapsed)
  PROVE  Charged(exec', budget') /\ Untimed'
<1> DEFINE t == exec[e].task
           count == [budget[t] EXCEPT !.reserved = @ - 1, !.active = @ - 1,
                                      !.completed = @ + 1, !.elapsed = @ + row.elapsed,
                                      !.reserved_elapsed = @ - exec[e].alloc]
<1>1. exec \in ExecTable /\ exec' \in ExecTable /\ budget \in [Tasks -> BudgetRow]
  BY DEF Ledger, LedgerTypeOK, ExecTable
<1>2. budget' = [budget EXCEPT ![t] = count] /\ t \in Tasks
  BY UsedRow DEF Release, Ledger, ExecRow, Outstanding, Active
<1>3. PICK a \in Nat, b \in Nat : a = row.elapsed /\ b = row.alloc
  BY DEF ExecRow
<1>4. /\ count.elapsed = budget[t].elapsed + a
      /\ count.reserved_elapsed = budget[t].reserved_elapsed - b
      /\ budget[t].elapsed \in Nat /\ budget[t].reserved_elapsed \in Int
  BY <1>1, <1>2, <1>3 DEF BudgetRow
<1> HIDE DEF count
<1>5. exec'[e] = row /\ \A d \in Executions \ {e} : exec'[d] = exec[d]
  BY <1>1 DEF Rewrites, ExecTable
<1>6. Untimed'
  BY <1>5, StatusesDisjoint DEF Untimed
<1>7. PICK c \in Nat : c = TimeOf("overrun", row) /\ a <= b + c
  <2>1. TimeOf("overrun", row) = IF a > b THEN a - b ELSE 0
    BY <1>3 DEF TimeOf
  <2> QED BY <1>3, <2>1
<1>8. /\ TimeOf("elapsed", exec'[e]) = a /\ TimeOf("overrun", exec'[e]) = c
      /\ TimeOf("alloc", exec[e]) = b
  BY <1>3, <1>5, <1>7 DEF TimeOf
<1>9. ASSUME NEW u \in Tasks
      PROVE  /\ budget'[u].elapsed = Total("elapsed", exec', u, Closed)
             /\ budget'[u].reserved_elapsed = Total("alloc", exec', u, Outstanding)
             /\ budget'[u].elapsed + budget'[u].reserved_elapsed
                  <= Budget[u].max_elapsed + Total("overrun", exec', u, Closed)
  <2>1. /\ Within(exec[e], u, Outstanding) <=> t = u
        /\ Within(exec'[e], u, Closed) <=> t = u
        /\ ~Within(exec'[e], u, Outstanding) /\ ~Within(exec[e], u, Closed)
    BY <1>5, StatusesDisjoint DEF Within
  <2>2. budget'[u] = IF t = u THEN count ELSE budget[u]
    BY <1>1, <1>2
  <2>3. /\ budget[u].elapsed = Total("elapsed", exec, u, Closed)
        /\ budget[u].reserved_elapsed = Total("alloc", exec, u, Outstanding)
        /\ budget[u].elapsed + budget[u].reserved_elapsed
             <= Budget[u].max_elapsed + Total("overrun", exec, u, Closed)
    BY DEF Charged
  <2>4. CASE t # u
    <3>1. \A k \in Times : /\ Total(k, exec', u, Closed) = Total(k, exec, u, Closed)
                           /\ Total(k, exec', u, Outstanding) = Total(k, exec, u, Outstanding)
      BY <1>1, <1>5, <2>1, <2>4, TotalSame
    <3> QED BY <2>2, <2>3, <2>4, <3>1 DEF Times
  <2>5. CASE t = u
    <3>1. /\ Total("elapsed", exec', u, Closed) = Total("elapsed", exec, u, Closed) + a
          /\ Total("overrun", exec', u, Closed) = Total("overrun", exec, u, Closed) + c
      BY <1>1, <1>5, <1>8, <2>1, <2>5, TotalIn DEF Times
    <3>2. Total("alloc", exec, u, Outstanding) = Total("alloc", exec', u, Outstanding) + b
      BY <1>1, <1>5, <1>8, <2>1, <2>5, TotalIn DEF Times
    <3>3. /\ Total("overrun", exec, u, Closed) \in Nat
          /\ Total("alloc", exec', u, Outstanding) \in Nat
      BY <1>1, TotalNatural DEF Times
    <3>4. Budget[u].max_elapsed \in Nat
      BY BudgetAssumption DEF Limits
    <3> QED BY <1>3, <1>4, <1>7, <2>2, <2>3, <2>5, <3>1, <3>2, <3>3, <3>4
  <2> QED BY <2>4, <2>5
<1> QED BY <1>6, <1>9 DEF Charged

\* Every operation of the store charges what the rows say.
LEMMA ChargedStep ==
  ASSUME Ledger, Ledger', Charged(exec, budget), Untimed, [StoreNext]_storeVars
  PROVE  Charged(exec', budget') /\ Untimed'
<1>1. ASSUME UNCHANGED <<exec, budget>> PROVE Charged(exec', budget') /\ Untimed'
  BY <1>1, NothingCharged DEF Retimed
<1>2. ASSUME NEW e \in Executions, NEW status \in Active, exec[e].status \in Active,
             exec' = [exec EXCEPT ![e].status = status], budget' = budget
      PROVE  Charged(exec', budget') /\ Untimed'
  <2>1. exec[e] \in ExecRow
    BY <1>2, UsedRow DEF Ledger, Active
  <2>2. \A d \in Executions : Retimed(d)
    BY <1>2, <2>1, StatusesDisjoint DEF Retimed, Ledger, LedgerTypeOK, ExecRow, Outstanding
  <2> QED BY <1>2, <2>2, NothingCharged
<1>3. ASSUME NEW e \in Executions, StartExecution(e) \/ RequestCancellation(e)
      PROVE  Charged(exec', budget') /\ Untimed'
  BY <1>2, <1>3 DEF StartExecution, RequestCancellation, Active
<1>4. ASSUME NEW e \in Executions, NEW report \in Reports, FinishExecution(e, report)
      PROVE  Charged(exec', budget') /\ Untimed'
  <2> DEFINE row == [exec[e] EXCEPT !.status = report.status, !.elapsed = report.elapsed,
                                    !.result = report.result]
  <2>1. exec[e].status \in Active /\ exec[e] \in ExecRow
    BY <1>4, UsedRow DEF FinishExecution, Ledger, Active
  <2>2. report.status \in Outcomes /\ report.elapsed \in Nat /\ report.result \in Results
    BY ReportsAssumption
  <2>3. /\ row \in ExecRow /\ row.task = exec[e].task /\ row.alloc = exec[e].alloc
        /\ row.elapsed = report.elapsed /\ row.status \in Closed
    BY <2>1, <2>2 DEF ExecRow, Closed
  <2>4. Rewrites(e, row) /\ Release(e, report.elapsed)
    BY <1>4 DEF FinishExecution, Rewrites
  <2> HIDE DEF row
  <2> QED BY <2>1, <2>3, <2>4, ReleaseCharges DEF Outstanding
<1>5. ASSUME NEW e \in Executions, NEW resolution \in Resolutions,
             ResolveUncertainty(e, resolution)
      PROVE  Charged(exec', budget') /\ Untimed'
  <2> DEFINE row == [exec[e] EXCEPT !.status = resolution]
  <2>1. exec[e].status \in Outstanding /\ exec[e] \in ExecRow
    BY <1>5, UsedRow DEF ResolveUncertainty, Ledger, Outstanding
  <2>2. /\ row \in ExecRow /\ row.task = exec[e].task /\ row.alloc = exec[e].alloc
        /\ row.elapsed = exec[e].elapsed /\ row.status \in Closed
    BY <2>1 DEF ExecRow, Closed
  <2>3. Rewrites(e, row) /\ Release(e, 0)
    BY <1>5 DEF ResolveUncertainty, Rewrites
  <2>4. exec[e].elapsed = 0
    BY <2>1 DEF Untimed
  <2> HIDE DEF row
  <2> QED BY <2>1, <2>2, <2>3, <2>4, ReleaseCharges
<1>6. ASSUME ReconcileActive PROVE Charged(exec', budget') /\ Untimed'
  <2>1. ASSUME NEW e \in Executions PROVE Retimed(e)
    <3>1. CASE e \in LostCalls
      <4>1. exec[e] \in ExecRow /\ exec[e].status \in Active
        BY <3>1, UsedRow DEF LostCalls, Ledger, Active
      <4>2. exec'[e] = [exec[e] EXCEPT !.status = "reconciliation_required"]
        BY <1>6, <3>1 DEF ReconcileActive
      <4> QED BY <4>1, <4>2, StatusesDisjoint DEF Retimed, ExecRow, Outstanding
    <3>2. CASE e \notin LostCalls
      BY <1>6, <3>2 DEF ReconcileActive, Retimed
    <3> QED BY <3>1, <3>2
  <2> QED BY <1>6, <2>1, NothingCharged DEF ReconcileActive
<1>7. ASSUME NEW t \in Tasks, NEW e \in Executions, NEW v \in evidence,
             RecoverReviewFormat(t, e, v)
      PROVE  Charged(exec', budget') /\ Untimed'
  BY <1>1, <1>7 DEF RecoverReviewFormat
<1>8. UNCHANGED storeVars \/ UNCHANGED ledgerVars => UNCHANGED <<exec, budget>>
  BY DEF storeVars, ledgerVars
<1> QED BY <1>1, <1>3, <1>4, <1>5, <1>6, <1>7, <1>8, ReserveCharges DEF StoreNext, LedgerNext

\* A fresh store has charged nothing.
LEMMA ChargedInit == StoreInit => Charged(exec, budget) /\ Untimed
<1> SUFFICES ASSUME StoreInit PROVE Charged(exec, budget) /\ Untimed
  OBVIOUS
<1>1. /\ exec = [e \in Executions |-> Unused]
      /\ \A u \in Tasks : budget[u].elapsed = 0 /\ budget[u].reserved_elapsed = 0
  BY DEF StoreInit, LedgerInit
<1>2. exec \in ExecTable
  BY <1>1 DEF ExecTable
<1>3. Unused.status \notin Outstanding /\ Unused.status \notin Closed
  BY DEF Unused, Outstanding, Active, Closed, Outcomes, Resolutions
<1>4. ASSUME NEW u \in Tasks, NEW k \in Times, NEW S \in {Outstanding, Closed}
      PROVE  Total(k, exec, u, S) = 0
  <2>1. Rows(exec, u, S) = {}
    BY <1>1, <1>3 DEF Rows
  <2>2. SumFunctionOnSet(TimesOf(k, exec), {}) = 0
    BY FS_EmptySet, SumIsUnits, UnitsOfNone DEF Natural
  <2> QED BY <2>1, <2>2 DEF Total
<1>5. \A u \in Tasks : Budget[u].max_elapsed \in Nat
  BY BudgetAssumption DEF Limits
<1>6. Charged(exec, budget)
  BY <1>1, <1>4, <1>5 DEF Charged, Times
<1>7. Untimed
  BY <1>1, <1>3 DEF Untimed
<1> QED BY <1>6, <1>7

\* The time charged to a task is the time its finished calls took, what is held
\* back is the allocation of its outstanding ones, and its limit is passed only
\* by what calls ran over: whatever is reserved, lost, resolved or finished late.
THEOREM TimeIsAccounted == StoreSpec => []ElapsedMatchesExecutions
<1> DEFINE Inv == Ledger /\ Charged(exec, budget) /\ Untimed
<1>1. StoreInit => Inv
  BY StoreInitOK, ChargedInit
<1>2. Inv /\ [StoreNext]_storeVars => Inv'
  BY LedgerStep, ChargedStep
<1>3. Inv => ElapsedMatchesExecutions
  BY ChargedIsMatch
<1> QED BY <1>1, <1>2, <1>3, PTL DEF StoreSpec

-----------------------------------------------------------------------------
(* The store implements CallLedger: its initial state maps to an initial   *)
(* state and every operation to a launch, a closing, a restart or no step. *)
(* The agreement of counters and rows is what turns the limits a           *)
(* reservation is checked against into limits on the calls themselves.     *)

Lost == {"reconciliation_required"}

\* The mapped variables, for the execution rows x.
Mapped(x, S) == [u \in Tasks |-> Rows(x, u, S)]

\* What CallLedger calls out, lost and spent, before a step and after it.
LEMMA Mapping ==
  /\ [u \in Tasks |-> In(u, Outstanding)] = Mapped(exec, Outstanding)
  /\ [u \in Tasks |-> In(u, {"reconciliation_required"})] = Mapped(exec, Lost)
  /\ [u \in Tasks |-> In(u, Closed)] = Mapped(exec, Closed)
  /\ [u \in Tasks |-> In(u, Outstanding)]' = Mapped(exec', Outstanding)
  /\ [u \in Tasks |-> In(u, {"reconciliation_required"})]' = Mapped(exec', Lost)
  /\ [u \in Tasks |-> In(u, Closed)]' = Mapped(exec', Closed)
BY DEF Mapped, In, Rows, Lost

\* A row that comes into S is added to its task's calls.
LEMMA MappedIn ==
  ASSUME NEW x, NEW y, NEW S, NEW t \in Tasks, NEW e \in Executions,
         \A f \in Executions \ {e} : y[f] = x[f],
         y[e].task = t, y[e].status \in S, x[e].status \in S => x[e].task = t
  PROVE  Mapped(y, S) = [Mapped(x, S) EXCEPT ![t] = @ \cup {e}]
<1>1. ASSUME NEW u \in Tasks
      PROVE  Rows(y, u, S) = IF u = t THEN Rows(x, u, S) \cup {e} ELSE Rows(x, u, S)
  BY DEF Rows
<1> QED BY <1>1 DEF Mapped

\* A row that stays where it was changes nothing.
LEMMA MappedSame ==
  ASSUME NEW x, NEW y, NEW S,
         \A e \in Executions, u \in Tasks : Within(y[e], u, S) <=> Within(x[e], u, S)
  PROVE  Mapped(y, S) = Mapped(x, S)
BY DEF Mapped, Rows, Within

\* CallLedger counts as the store does.
LEMMA SameCount == \A S : Account!Cardinality(S) = Cardinality(S)
BY Zenon DEF Account!Cardinality, Cardinality

-----------------------------------------------------------------------------
\* reserve_execution launches a call: what it reads in the budget row is what
\* CallLedger counts.
LEMMA ReserveLaunches ==
  ASSUME Ledger, NEW t \in Tasks, NEW e \in Executions, NEW role \in Roles,
         NEW timeout \in Timeouts, ReserveExecution(t, e, role, timeout)
  PROVE  Account!Launch(t, e)
<1> DEFINE row == [status |-> "reserved", task |-> t, role |-> role,
                   alloc |-> timeout, elapsed |-> 0, result |-> "none"]
<1>1. /\ exec' = [exec EXCEPT ![e] = row] /\ exec[e].status = "unused"
      /\ exec \in [Executions -> ExecRow \cup {Unused}]
  BY DEF ReserveExecution, Unused, Ledger, LedgerTypeOK
<1>2. exec'[e].task = t /\ exec'[e].status = "reserved"
  BY <1>1
<1>3. \A f \in Executions \ {e} : exec'[f] = exec[f]
  BY <1>1
<1>4. /\ "reserved" \in Outstanding /\ "reserved" \notin Lost /\ "reserved" \notin Closed
      /\ "unused" \notin Outstanding /\ "unused" \notin Lost /\ "unused" \notin Closed
  BY DEF Outstanding, Active, Closed, Outcomes, Resolutions, Lost
<1>5. \A u \in Tasks : e \notin Rows(exec, u, Outstanding) \cup Rows(exec, u, Closed)
  BY <1>1, <1>4 DEF Rows
<1>6. Rows(exec, t, Lost) = {}
  BY DEF ReserveExecution, CallAllowed, Uncertain, In, Rows, Lost
<1>7. /\ Cardinality(Rows(exec, t, Outstanding)) < Budget[t].max_concurrency
      /\ Cardinality(Rows(exec, t, Outstanding)) + Cardinality(Rows(exec, t, Closed))
           < Budget[t].max_calls
  <2>1. /\ budget[t].reserved = Cardinality(Rows(exec, t, Outstanding))
        /\ budget[t].active = budget[t].reserved
        /\ budget[t].completed = Cardinality(Rows(exec, t, Closed))
    BY AgreeIsMatch DEF Ledger, Agree
  <2>2. budget[t] \in BudgetRow /\ Budget[t] \in Limits
    BY BudgetAssumption DEF Ledger, LedgerTypeOK
  <2>3. /\ budget[t].active < Budget[t].max_concurrency
        /\ Budget[t].max_calls - (budget[t].completed + budget[t].reserved) - 1 >= 0
    BY DEF ReserveExecution, CallAllowed
  <2> QED BY <2>1, <2>2, <2>3 DEF BudgetRow, Limits
<1>8. Mapped(exec', Outstanding) = [Mapped(exec, Outstanding) EXCEPT ![t] = @ \cup {e}]
  <2>1. exec'[e].status \in Outstanding /\ exec[e].status \notin Outstanding
    BY <1>1, <1>2, <1>4
  <2> QED BY <1>2, <1>3, <2>1, MappedIn
<1>9. Mapped(exec', Lost) = Mapped(exec, Lost) /\ Mapped(exec', Closed) = Mapped(exec, Closed)
  <2>1. ASSUME NEW f \in Executions, NEW u \in Tasks
        PROVE  /\ Within(exec'[f], u, Lost) <=> Within(exec[f], u, Lost)
               /\ Within(exec'[f], u, Closed) <=> Within(exec[f], u, Closed)
    BY <1>1, <1>2, <1>3, <1>4 DEF Within
  <2> QED BY <2>1, MappedSame
<1>10. /\ \A u \in Tasks : Mapped(exec, Outstanding)[u] = Rows(exec, u, Outstanding)
       /\ \A u \in Tasks : Mapped(exec, Closed)[u] = Rows(exec, u, Closed)
       /\ Mapped(exec, Lost)[t] = Rows(exec, t, Lost)
  BY DEF Mapped
<1>11. ~Account!Launched(e)
  BY <1>5, <1>10, Mapping DEF Account!Launched
<1> QED BY <1>6, <1>7, <1>8, <1>9, <1>10, <1>11, Mapping, SameCount DEF Account!Launch

\* A row that is outstanding and becomes closed closes its call.
LEMMA ClosingCloses ==
  ASSUME Ledger, NEW e \in Executions, NEW row, exec' = [exec EXCEPT ![e] = row],
         exec[e].status \in Outstanding, row.task = exec[e].task, row.status \in Closed
  PROVE  exec[e].task \in Tasks /\ Account!Close(exec[e].task, e)
<1>1. PICK t \in Tasks : t = exec[e].task
  BY UsedRow DEF Ledger, ExecRow, Outstanding, Active
<1>2. exec'[e] = row /\ \A f \in Executions \ {e} : exec'[f] = exec[f]
  BY DEF Ledger, LedgerTypeOK
<1>3. row.status \notin Outstanding /\ row.status \notin Lost /\ exec[e].status \notin Closed
  BY StatusesDisjoint DEF Outstanding, Lost
<1>4. e \in Rows(exec, t, Outstanding)
  BY <1>1 DEF Rows
<1>5. Mapped(exec', Outstanding) = [Mapped(exec, Outstanding) EXCEPT ![t] = @ \ {e}]
  <2>1. ASSUME NEW u \in Tasks
        PROVE  Rows(exec', u, Outstanding) = IF u = t THEN Rows(exec, u, Outstanding) \ {e}
                                     ELSE Rows(exec, u, Outstanding)
    BY <1>1, <1>2, <1>3 DEF Rows
  <2> QED BY <1>1, <2>1 DEF Mapped
<1>6. Mapped(exec', Lost) = [Mapped(exec, Lost) EXCEPT ![t] = @ \ {e}]
  <2>1. ASSUME NEW u \in Tasks
        PROVE  Rows(exec', u, Lost) = IF u = t THEN Rows(exec, u, Lost) \ {e}
                                     ELSE Rows(exec, u, Lost)
    BY <1>1, <1>2, <1>3 DEF Rows
  <2> QED BY <1>1, <2>1 DEF Mapped
<1>7. Mapped(exec', Closed) = [Mapped(exec, Closed) EXCEPT ![t] = @ \cup {e}]
  <2>1. ASSUME NEW u \in Tasks
        PROVE  Rows(exec', u, Closed) = IF u = t THEN Rows(exec, u, Closed) \cup {e}
                                     ELSE Rows(exec, u, Closed)
    BY <1>1, <1>2, <1>3 DEF Rows
  <2> QED BY <1>1, <2>1 DEF Mapped
<1> QED BY <1>1, <1>4, <1>5, <1>6, <1>7, Mapping DEF Account!Close, Mapped

\* finish_execution closes a call.
LEMMA FinishCloses ==
  ASSUME Ledger, NEW e \in Executions, NEW report \in Reports, FinishExecution(e, report)
  PROVE  exec[e].task \in Tasks /\ Account!Close(exec[e].task, e)
<1> DEFINE row == [exec[e] EXCEPT !.status = report.status, !.elapsed = report.elapsed,
                                  !.result = report.result]
<1>1. exec[e].status \in Active /\ exec' = [exec EXCEPT ![e] = row]
  BY DEF FinishExecution
<1>2. exec[e] \in ExecRow
  BY <1>1, UsedRow DEF Ledger, Active
<1>3. row.task = exec[e].task /\ row.status \in Closed
  BY <1>2, ReportsAssumption DEF ExecRow, Closed
<1> HIDE DEF row
<1> QED BY <1>1, <1>3, ClosingCloses DEF Outstanding

\* So does resolve_execution_uncertainty, a lost one.
LEMMA ResolveCloses ==
  ASSUME Ledger, NEW e \in Executions, NEW resolution \in Resolutions,
         ResolveUncertainty(e, resolution)
  PROVE  exec[e].task \in Tasks /\ Account!Close(exec[e].task, e)
<1> DEFINE row == [exec[e] EXCEPT !.status = resolution]
<1>1. exec[e].status = "reconciliation_required" /\ exec' = [exec EXCEPT ![e] = row]
  BY DEF ResolveUncertainty
<1>2. exec[e] \in ExecRow
  BY <1>1, UsedRow DEF Ledger
<1>3. row.task = exec[e].task /\ row.status \in Closed
  BY <1>2 DEF ExecRow, Closed
<1> HIDE DEF row
<1> QED BY <1>1, <1>3, ClosingCloses DEF Outstanding

\* reconcile_active loses exactly the calls that are out.
LEMMA ReconcileRestarts ==
  ASSUME Ledger, ReconcileActive
  PROVE  Account!Restart
<1>1. ASSUME NEW e \in Executions
      PROVE  /\ exec'[e].task = exec[e].task
             /\ exec'[e].status \in Outstanding <=> exec[e].status \in Outstanding
             /\ exec'[e].status \in Lost <=> exec[e].status \in Outstanding
             /\ exec'[e].status \in Closed <=> exec[e].status \in Closed
  <2>1. CASE e \in LostCalls
    <3>1. exec[e].status \in Active
      BY <2>1 DEF LostCalls
    <3>2. exec[e] \in ExecRow
      BY <3>1, UsedRow DEF Ledger, Active
    <3>3. exec'[e] = [exec[e] EXCEPT !.status = "reconciliation_required"]
      BY <2>1 DEF ReconcileActive
    <3> QED BY <3>1, <3>2, <3>3
            DEF ExecRow, Outstanding, Active, Closed, Outcomes, Resolutions, Lost
  <2>2. CASE e \notin LostCalls
    <3>1. exec'[e] = exec[e]
      BY <2>2 DEF ReconcileActive
    <3> QED BY <2>2, <3>1 DEF LostCalls, Outstanding, Lost
  <2> QED BY <2>1, <2>2
<1>2. /\ Mapped(exec', Outstanding) = Mapped(exec, Outstanding)
      /\ Mapped(exec', Closed) = Mapped(exec, Closed)
  BY <1>1, MappedSame DEF Within
<1>3. Mapped(exec', Lost) = Mapped(exec, Outstanding)
  BY <1>1 DEF Mapped, Rows
<1> QED BY <1>2, <1>3, Mapping DEF Account!Restart

\* start_execution and request_cancellation leave every call where it is.
LEMMA RestatusStutters ==
  ASSUME Ledger, NEW e \in Executions, NEW status \in Active,
         exec[e].status \in Active, exec' = [exec EXCEPT ![e].status = status]
  PROVE  UNCHANGED Account!vars
<1>1. exec[e] \in ExecRow
  BY UsedRow DEF Ledger, Active
<1>2. /\ exec'[e].task = exec[e].task /\ exec'[e].status = status
      /\ \A f \in Executions \ {e} : exec'[f] = exec[f]
  BY <1>1 DEF Ledger, LedgerTypeOK, ExecRow
<1>3. ASSUME NEW s \in Active
      PROVE  s \in Outstanding /\ s \notin Lost /\ s \notin Closed
  BY DEF Outstanding, Active, Closed, Outcomes, Resolutions, Lost
<1>4. /\ Mapped(exec', Outstanding) = Mapped(exec, Outstanding)
      /\ Mapped(exec', Lost) = Mapped(exec, Lost)
      /\ Mapped(exec', Closed) = Mapped(exec, Closed)
  <2>1. ASSUME NEW f \in Executions, NEW u \in Tasks
        PROVE  /\ Within(exec'[f], u, Outstanding) <=> Within(exec[f], u, Outstanding)
               /\ Within(exec'[f], u, Lost) <=> Within(exec[f], u, Lost)
               /\ Within(exec'[f], u, Closed) <=> Within(exec[f], u, Closed)
    BY <1>2, <1>3 DEF Within
  <2> QED BY <2>1, MappedSame
<1> QED BY <1>4, Mapping DEF Account!vars

\* Every operation of the store is a step of CallLedger, or none.
LEMMA StoreStepIsAccounted ==
  ASSUME Ledger, [StoreNext]_storeVars
  PROVE  [Account!Next]_Account!vars
<1>1. ASSUME exec' = exec PROVE UNCHANGED Account!vars
  BY <1>1, Mapping DEF Account!vars
<1>2. ASSUME NEW t \in Tasks, NEW e \in Executions, NEW role \in Roles,
             NEW timeout \in Timeouts, ReserveExecution(t, e, role, timeout)
      PROVE  Account!Next
  BY <1>2, ReserveLaunches DEF Account!Next
<1>3. ASSUME NEW e \in Executions, NEW report \in Reports, FinishExecution(e, report)
      PROVE  Account!Next
  BY <1>3, FinishCloses DEF Account!Next
<1>4. ASSUME NEW e \in Executions, NEW resolution \in Resolutions,
             ResolveUncertainty(e, resolution)
      PROVE  Account!Next
  BY <1>4, ResolveCloses DEF Account!Next
<1>5. ASSUME ReconcileActive PROVE Account!Next
  BY <1>5, ReconcileRestarts DEF Account!Next
<1>6. ASSUME NEW e \in Executions, StartExecution(e) PROVE UNCHANGED Account!vars
  BY <1>6, RestatusStutters DEF StartExecution, Active
<1>7. ASSUME NEW e \in Executions, RequestCancellation(e) PROVE UNCHANGED Account!vars
  BY <1>7, RestatusStutters DEF RequestCancellation, Active
<1>8. ASSUME NEW t \in Tasks, NEW e \in Executions, NEW v \in evidence,
             RecoverReviewFormat(t, e, v)
      PROVE  exec' = exec
  BY <1>8 DEF RecoverReviewFormat
<1>9. UNCHANGED ledgerVars \/ UNCHANGED storeVars => exec' = exec
  BY DEF ledgerVars, storeVars
<1>10. LedgerNext => Account!Next \/ UNCHANGED Account!vars
  BY <1>1, <1>2, <1>3, <1>4, <1>5, <1>6, <1>7, <1>8 DEF LedgerNext
<1> QED BY <1>1, <1>9, <1>10 DEF StoreNext

\* The store implements CallLedger: whatever is cancelled, lost, resolved or
\* reported late, and whatever the counters go through, each call is launched
\* once and within the limits, is closed once, and is lost only by a restart
\* that loses all that are out.
THEOREM StoreAccountsForCalls == StoreSpec => CallsAreAccounted
<1>1. StoreInit => Ledger
  BY StoreInitOK
<1>2. StoreInit => Account!Init
  <2>1. ASSUME StoreInit, NEW S, "unused" \notin S PROVE Mapped(exec, S) = [u \in Tasks |-> {}]
    BY <2>1 DEF StoreInit, LedgerInit, Mapped, Rows, Unused
  <2>2. "unused" \notin Outstanding /\ "unused" \notin Lost /\ "unused" \notin Closed
    BY DEF Outstanding, Active, Closed, Outcomes, Resolutions, Lost
  <2> QED BY <2>1, <2>2, Mapping DEF Account!Init
<1>3. Ledger /\ [StoreNext]_storeVars => Ledger'
  BY LedgerStep
<1>4. Ledger /\ [StoreNext]_storeVars => [Account!Next]_Account!vars
  BY StoreStepIsAccounted
<1> QED BY <1>1, <1>2, <1>3, <1>4, PTL DEF StoreSpec, CallsAreAccounted, Account!Spec

-----------------------------------------------------------------------------
(* How a step of the store can move one task. *)

Kept(t) == task'[t].state = task[t].state /\ task'[t].moved = task[t].moved

\* A transition, with what the transition table and the gates demand.
Moved(t) ==
  LET target == task'[t].state
  IN /\ <<task[t].state, target>> \in Transitions
     /\ task'[t].moved = <<task[t].state, target>>
     /\ target = "workspace_ready" => DependenciesReady(t)
     /\ target \in DOMAIN GateKind => CurrentEvidence(t, GateKind[target])

Created(t) ==
  task[t].state = "absent" /\ task'[t].state = "received" /\ task'[t].moved = task[t].moved

Stopped(t) == task'[t].state = "blocked" /\ task'[t].moved = task[t].moved

Recovered(t) ==
  /\ task[t].state = "blocked" /\ task[t].moved = <<"reviewing", "blocked">>
  /\ task'[t].state = "review_complete" /\ task'[t].moved = task[t].moved
  /\ \E v \in evidence : v.task = t /\ v.kind = "independent-review" /\ v.status = "passed"

\* These are all the ways.
LEMMA HowTasksMove ==
  ASSUME TaskTypeOK, [StoreNext]_storeVars, NEW t \in Tasks
  PROVE  Kept(t) \/ Moved(t) \/ Created(t) \/ Stopped(t) \/ Recovered(t)
<1> DEFINE Goal == Kept(t) \/ Moved(t) \/ Created(t) \/ Stopped(t) \/ Recovered(t)
<1>1. task' = task => Kept(t)
  BY DEF Kept
<1>2. ASSUME NEW u \in Tasks, CreateTask(u) PROVE Kept(t) \/ Created(t)
  BY <1>2 DEF CreateTask, Exists, MoveTo, Kept, Created, TaskTypeOK, TaskRow
<1>3. ASSUME NEW u \in Tasks, NEW expected \in States, NEW target \in States,
             Transition(u, expected, target)
      PROVE  Kept(t) \/ Moved(t)
  <2>1. CASE u = t
    <3>1. task[t] \in TaskRow /\ task'[t] = [task[t] EXCEPT !.state = target,
                                                            !.moved = <<expected, target>>]
      BY <1>3, <2>1 DEF Transition, TaskTypeOK
    <3>2. task'[t].state = target /\ task'[t].moved = <<expected, target>>
      BY <3>1 DEF TaskRow
    <3> QED BY <1>3, <2>1, <3>2 DEF Transition, Moved
  <2>2. CASE u # t
    BY <1>3, <2>2 DEF Transition, Kept, TaskTypeOK
  <2> QED BY <2>1, <2>2
<1>4. ASSUME NEW u \in Tasks, SetContract(u) PROVE Kept(t)
  BY <1>4 DEF SetContract, Kept, TaskTypeOK, TaskRow
<1>5. ASSUME NEW u \in Tasks, NEW r \in Revisions, SetWorkspace(u, r) PROVE Kept(t)
  BY <1>5 DEF SetWorkspace, Kept, TaskTypeOK, TaskRow
<1>6. ASSUME NEW u \in Tasks, NEW r \in Revisions, SetHead(u, r) PROVE Kept(t)
  BY <1>6 DEF SetHead, Kept, TaskTypeOK, TaskRow
<1>7. ASSUME NEW u \in Tasks, NEW s \in Signatures, RecordFailure(u, s)
      PROVE  Kept(t) \/ Stopped(t)
  <2>1. CASE MoveTo(u, "blocked")
    BY <2>1 DEF MoveTo, Kept, Stopped, TaskTypeOK, TaskRow
  <2>2. CASE task' = [task EXCEPT ![u].repairs = @ + 1]
    BY <2>2 DEF Kept, TaskTypeOK, TaskRow
  <2> QED BY <1>7, <2>1, <2>2 DEF RecordFailure
<1>8. ASSUME ReconcileActive PROVE Kept(t) \/ Stopped(t)
  BY <1>8 DEF ReconcileActive, Kept, Stopped, TaskTypeOK, TaskRow
<1>9. ASSUME NEW u \in Tasks, NEW e \in Executions, NEW v \in evidence,
             RecoverReviewFormat(u, e, v)
      PROVE  Kept(t) \/ Recovered(t)
  BY <1>9 DEF RecoverReviewFormat, BlockedByReview, PassingReview, MoveTo, Kept, Recovered,
              TaskTypeOK, TaskRow
<1>10. TaskNext => Goal
  <2>1. ASSUME NEW u \in Tasks, NEW id \in EvidenceIds, NEW r \in Revisions,
               NEW kind \in EvidenceKinds, NEW status \in EvidenceStatuses,
               AddEvidence(u, id, r, kind, status)
        PROVE  task' = task
    BY <2>1 DEF AddEvidence
  <2>2. ASSUME NEW u \in Tasks, ReadForApproval(u) PROVE task' = task
    BY <2>2 DEF ReadForApproval
  <2>3. ASSUME NEW call \in approving, NEW id \in ApprovalIds, InsertApproval(call, id)
        PROVE  task' = task
    BY <2>3 DEF InsertApproval
  <2> QED BY <1>1, <1>2, <1>3, <1>4, <1>5, <1>6, <1>7, <2>1, <2>2, <2>3 DEF TaskNext
<1>11. LedgerNext => Goal
  <2>1. UNCHANGED taskVars => task' = task
    BY DEF taskVars
  <2> QED BY <1>1, <1>8, <1>9, <2>1, LedgerLeavesTasks
<1>12. UNCHANGED storeVars => task' = task
  BY DEF storeVars, taskVars
<1> QED BY <1>1, <1>10, <1>11, <1>12 DEF StoreNext

-----------------------------------------------------------------------------
(* A repeated failure is final. *)

\* A task under verification or review got there by a transition, and a task
\* with a repeated failure was not blocked by one.
FailureHistory(t) ==
  /\ task[t].state = "verifying" => task[t].moved = <<"implemented", "verifying">>
  /\ task[t].state = "reviewing" => task[t].moved = <<"verified", "reviewing">>
  /\ (\E s \in Signatures : failures[t][s] >= 2) =>
       task[t].state = "blocked" /\ task[t].moved # <<"reviewing", "blocked">>

\* record_failure is the only step that counts a failure: it does so under
\* verification or review, and blocks the task when the count reaches two.
LEMMA HowFailuresCount ==
  ASSUME TaskTypeOK, [StoreNext]_storeVars, NEW t \in Tasks
  PROVE  \/ failures'[t] = failures[t]
         \/ /\ task[t].state \in {"verifying", "reviewing"}
            /\ task'[t].moved = task[t].moved
            /\ \E s \in Signatures :
                 /\ failures'[t] = [failures[t] EXCEPT ![s] = @ + 1]
                 /\ failures[t][s] >= 1 => task'[t].state = "blocked"
<1> DEFINE Counted == /\ task[t].state \in {"verifying", "reviewing"}
                      /\ task'[t].moved = task[t].moved
                      /\ \E s \in Signatures :
                           /\ failures'[t] = [failures[t] EXCEPT ![s] = @ + 1]
                           /\ failures[t][s] >= 1 => task'[t].state = "blocked"
<1>1. ASSUME NEW u \in Tasks, NEW s \in Signatures, RecordFailure(u, s)
      PROVE  failures'[t] = failures[t] \/ Counted
  <2>1. CASE u # t
    BY <1>1, <2>1 DEF RecordFailure, CountFailure, TaskTypeOK
  <2>2. CASE u = t
    <3>1. failures'[t] = [failures[t] EXCEPT ![s] = @ + 1]
      BY <1>1, <2>2 DEF RecordFailure, CountFailure, TaskTypeOK
    <3>2. task[t] \in TaskRow
      BY DEF TaskTypeOK
    <3>3. task'[t].moved = task[t].moved
      BY <1>1, <2>2, <3>2 DEF RecordFailure, MoveTo, TaskTypeOK, TaskRow
    <3>4. ASSUME failures[t][s] >= 1 PROVE task'[t].state = "blocked"
      <4>1. failures[t][s] # 0
        BY <3>4
      <4>2. MoveTo(t, "blocked")
        BY <1>1, <2>2, <4>1 DEF RecordFailure
      <4> QED BY <3>2, <4>2 DEF MoveTo, TaskTypeOK, TaskRow
    <3> QED BY <1>1, <2>2, <3>1, <3>3, <3>4 DEF RecordFailure
  <2> QED BY <2>1, <2>2
<1>2. failures' = failures => failures'[t] = failures[t]
  OBVIOUS
<1> HIDE DEF Counted
<1>3. TaskNext => failures' = failures \/ failures'[t] = failures[t] \/ Counted
  <2>1. ASSUME NEW u \in Tasks
        PROVE  CreateTask(u) \/ SetContract(u) \/ ReadForApproval(u) => failures' = failures
    BY DEF CreateTask, SetContract, ReadForApproval
  <2>2. ASSUME NEW u \in Tasks, NEW expected \in States, NEW target \in States,
               Transition(u, expected, target)
        PROVE  failures' = failures
    BY <2>2 DEF Transition
  <2>3. ASSUME NEW u \in Tasks, NEW r \in Revisions, SetWorkspace(u, r) \/ SetHead(u, r)
        PROVE  failures' = failures
    BY <2>3 DEF SetWorkspace, SetHead
  <2>4. ASSUME NEW u \in Tasks, NEW id \in EvidenceIds, NEW r \in Revisions,
               NEW kind \in EvidenceKinds, NEW status \in EvidenceStatuses,
               AddEvidence(u, id, r, kind, status)
        PROVE  failures' = failures
    BY <2>4 DEF AddEvidence
  <2>5. ASSUME NEW call \in approving, NEW id \in ApprovalIds, InsertApproval(call, id)
        PROVE  failures' = failures
    BY <2>5 DEF InsertApproval
  <2> QED BY <1>1, <2>1, <2>2, <2>3, <2>4, <2>5 DEF TaskNext
<1>4. LedgerNext => failures' = failures
  BY LedgerLeavesTasks
<1>5. UNCHANGED storeVars => failures' = failures
  BY DEF storeVars, taskVars
<1> QED BY <1>2, <1>3, <1>4, <1>5 DEF StoreNext, Counted

\* Every step keeps the history of every task's failures.
LEMMA FailureHistoryStep ==
  ASSUME TaskTypeOK, [StoreNext]_storeVars, NEW t \in Tasks, FailureHistory(t)
  PROVE  FailureHistory(t)'
<1>1. /\ task'[t].state = "verifying" => task'[t].moved = <<"implemented", "verifying">>
      /\ task'[t].state = "reviewing" => task'[t].moved = <<"verified", "reviewing">>
  <2>1. CASE Moved(t)
    BY <2>1 DEF Moved, Transitions, Onward, Working
  <2>2. CASE Kept(t)
    BY <2>2 DEF Kept, FailureHistory
  <2>3. CASE Created(t) \/ Stopped(t) \/ Recovered(t)
    BY <2>3 DEF Created, Stopped, Recovered
  <2> QED BY <2>1, <2>2, <2>3, HowTasksMove
<1>2. ASSUME NEW s \in Signatures, failures'[t][s] >= 2
      PROVE  task'[t].state = "blocked" /\ task'[t].moved # <<"reviewing", "blocked">>
  <2>1. CASE failures[t][s] >= 2
    <3>1. task[t].state = "blocked" /\ task[t].moved # <<"reviewing", "blocked">>
      BY <2>1 DEF FailureHistory
    <3>2. ~Moved(t) /\ ~Created(t) /\ ~Recovered(t)
      BY <3>1 DEF Moved, Created, Recovered, Transitions, Onward, Working
    <3> QED BY <3>1, <3>2, HowTasksMove DEF Kept, Stopped
  <2>2. CASE ~(failures[t][s] >= 2)
    <3>1. failures[t] \in [Signatures -> Nat]
      BY DEF TaskTypeOK
    <3>2. failures'[t] # failures[t]
      BY <1>2, <2>2
    <3>3. PICK r \in Signatures : /\ failures'[t] = [failures[t] EXCEPT ![r] = @ + 1]
                                  /\ failures[t][r] >= 1 => task'[t].state = "blocked"
      BY <3>2, HowFailuresCount
    <3>4. r = s /\ failures[t][s] >= 1
      BY <1>2, <2>2, <3>1, <3>3
    <3>5. task[t].state \in {"verifying", "reviewing"} /\ task'[t].moved = task[t].moved
      BY <3>2, HowFailuresCount
    <3> QED BY <3>3, <3>4, <3>5 DEF FailureHistory
  <2> QED BY <2>1, <2>2
<1> QED BY <1>1, <1>2 DEF FailureHistory

\* A task that saw one failure twice is blocked for good: recovering the
\* format of a review never brings it back, since record_failure blocks
\* without a transition event.
THEOREM RepeatedFailuresAreFinal == StoreSpec => []RepeatedFailureIsFinal
<1> DEFINE Inv == TaskTypeOK /\ \A t \in Tasks : FailureHistory(t)
<1>1. StoreInit => Inv
  <2>1. StoreInit => \A t \in Tasks : FailureHistory(t)
    BY DEF StoreInit, TaskInit, AbsentTask, FailureHistory
  <2> QED BY <2>1, StoreInitOK
<1>2. Inv /\ [StoreNext]_storeVars => Inv'
  <2> SUFFICES ASSUME Inv, [StoreNext]_storeVars PROVE Inv'
    OBVIOUS
  <2>1. TaskTypeOK'
    BY StoreStepType
  <2>2. ASSUME NEW t \in Tasks PROVE FailureHistory(t)'
    BY FailureHistoryStep
  <2> QED BY <2>1, <2>2
<1>3. Inv => RepeatedFailureIsFinal
  BY DEF FailureHistory, RepeatedFailureIsFinal
<1> QED BY <1>1, <1>2, <1>3, PTL DEF StoreSpec

-----------------------------------------------------------------------------
(* Dependencies stay settled. *)

Later == Working \ {"received", "contracted"}

\* d came to awaiting_pr_approval and has not been taken back.
Delivered(d) ==
  /\ task[d].moved = <<"packaging", "awaiting_pr_approval">>
  /\ task[d].state \in {"awaiting_pr_approval", "blocked"}

\* The dependencies of a task at work, or blocked where a recovery may put it
\* back to work, are settled.
DependencyHistory(t) ==
  /\ task[t].state = "awaiting_pr_approval" => Delivered(t)
  /\ (task[t].state \in Later \/ task[t].moved = <<"reviewing", "blocked">>) =>
       \A d \in Dependencies[t] : Delivered(d)

\* No step takes a settled task back.
LEMMA DeliveredStays ==
  ASSUME TaskTypeOK, [StoreNext]_storeVars, NEW d \in Tasks, Delivered(d)
  PROVE  Delivered(d)'
<1>1. ~Moved(d) /\ ~Created(d) /\ ~Recovered(d)
  BY DEF Delivered, Moved, Created, Recovered, Transitions, Onward, Working
<1> QED BY <1>1, HowTasksMove DEF Delivered, Kept, Stopped

\* Every step keeps the history of every task's dependencies.
LEMMA DependencyHistoryStep ==
  ASSUME TaskTypeOK, [StoreNext]_storeVars,
         \A t \in Tasks : DependencyHistory(t), NEW t \in Tasks
  PROVE  DependencyHistory(t)'
<1>0. DependencyHistory(t) /\ \A d \in Dependencies[t] : d \in Tasks
  BY DependenciesAssumption
<1>1. ASSUME task'[t].state = "awaiting_pr_approval" PROVE Delivered(t)'
  <2>1. CASE Moved(t)
    <3>1. task[t].state = "packaging"
      BY <1>1, <2>1 DEF Moved, Transitions, Onward, Working
    <3> QED BY <1>1, <2>1, <3>1 DEF Moved, Delivered
  <2>2. CASE Kept(t)
    BY <1>0, <1>1, <2>2, DeliveredStays DEF Kept, DependencyHistory
  <2>3. ~Created(t) /\ ~Stopped(t) /\ ~Recovered(t)
    BY <1>1 DEF Created, Stopped, Recovered
  <2> QED BY <2>1, <2>2, <2>3, HowTasksMove
<1>2. ASSUME task'[t].state \in Later \/ task'[t].moved = <<"reviewing", "blocked">>,
             NEW d \in Dependencies[t]
      PROVE  Delivered(d)'
  <2> SUFFICES Delivered(d)
    BY <1>0, DeliveredStays
  <2>1. CASE task[t].state \in Later \/ task[t].moved = <<"reviewing", "blocked">>
    BY <1>0, <2>1 DEF DependencyHistory
  <2>2. CASE ~(task[t].state \in Later \/ task[t].moved = <<"reviewing", "blocked">>)
    <3>1. ~Kept(t) /\ ~Created(t) /\ ~Stopped(t) /\ ~Recovered(t)
      BY <1>2, <2>2 DEF Kept, Created, Stopped, Recovered, Later, Working
    <3>2. Moved(t)
      BY <3>1, HowTasksMove
    <3>3. task'[t].state = "workspace_ready"
      BY <1>2, <2>2, <3>2 DEF Moved, Transitions, Onward, Later, Working
    <3>4. task[d].state = "awaiting_pr_approval"
      BY <3>2, <3>3 DEF Moved, DependenciesReady
    <3> QED BY <1>0, <3>4 DEF DependencyHistory
  <2> QED BY <2>1, <2>2
<1>3. task'[t].state = "awaiting_pr_approval" => Delivered(t)'
  BY <1>1
<1>4. task'[t].state \in Later \/ task'[t].moved = <<"reviewing", "blocked">> =>
        \A d \in Dependencies[t] : Delivered(d)'
  BY <1>2
<1> QED BY <1>3, <1>4 DEF DependencyHistory

\* Whatever the dependencies are, a task at work never sees one of them taken
\* back for rework.
THEOREM DependenciesAreSettled == StoreSpec => []DependenciesStayReviewed
<1> DEFINE Inv == TaskTypeOK /\ \A t \in Tasks : DependencyHistory(t)
<1>1. StoreInit => Inv
  <2>1. StoreInit => \A t \in Tasks : DependencyHistory(t)
    BY DEF StoreInit, TaskInit, AbsentTask, DependencyHistory, Later, Working
  <2> QED BY <2>1, StoreInitOK
<1>2. Inv /\ [StoreNext]_storeVars => Inv'
  <2> SUFFICES ASSUME Inv, [StoreNext]_storeVars PROVE Inv'
    OBVIOUS
  <2>1. TaskTypeOK'
    BY StoreStepType
  <2>2. ASSUME NEW t \in Tasks PROVE DependencyHistory(t)'
    BY DependencyHistoryStep
  <2> QED BY <2>1, <2>2
<1>3. Inv => DependenciesStayReviewed
  BY DEF DependencyHistory, DependenciesStayReviewed, Delivered, Later
<1> QED BY <1>1, <1>2, <1>3, PTL DEF StoreSpec

-----------------------------------------------------------------------------
(* Every stage leaves its evidence. *)

HasPassed(t, kind) ==
  \E v \in evidence : v.task = t /\ v.kind = kind /\ v.status = "passed"

\* The evidence of the stages a task has behind it, or will have behind it
\* again when the format of its review is recovered.
EvidenceHistory(t) ==
  /\ task[t].state \in Reviewed \cup {"verified", "reviewing"}
       \/ task[t].moved = <<"reviewing", "blocked">> => HasPassed(t, "independent-check")
  /\ task[t].state \in Reviewed => HasPassed(t, "independent-review")
  /\ task[t].state = "awaiting_pr_approval" => HasPassed(t, "approval-package")

\* Evidence is marked stale, never removed or rewritten.
LEMMA EvidenceStays ==
  ASSUME TaskTypeOK, [StoreNext]_storeVars, NEW t \in Tasks, NEW kind, HasPassed(t, kind)
  PROVE  HasPassed(t, kind)'
<1>1. PICK v \in evidence : v.task = t /\ v.kind = kind /\ v.status = "passed"
  BY DEF HasPassed
<1>2. v \in EvidenceRow
  BY DEF TaskTypeOK
<1>3. ASSUME NEW u \in Tasks, NEW r \in Revisions, SetHead(u, r) PROVE HasPassed(t, kind)'
  <2>1. CASE task[u].head = r
    BY <1>1, <1>3, <2>1 DEF SetHead, HasPassed
  <2>2. CASE task[u].head # r
    <3> DEFINE w == StaleIf(v, v.task = u /\ v.revision # r)
    <3>1. evidence' = {StaleIf(x, x.task = u /\ x.revision # r) : x \in evidence}
      BY <1>3, <2>2 DEF SetHead
    <3>2. w \in evidence'
      BY <3>1
    <3>3. w.task = t /\ w.kind = kind /\ w.status = "passed"
      BY <1>1, <1>2 DEF StaleIf, EvidenceRow
    <3> QED BY <3>2, <3>3 DEF HasPassed
  <2> QED BY <2>1, <2>2
<1>4. ASSUME NEW u \in Tasks, NEW id \in EvidenceIds, NEW r \in Revisions,
             NEW k \in EvidenceKinds, NEW status \in EvidenceStatuses,
             AddEvidence(u, id, r, k, status)
      PROVE  HasPassed(t, kind)'
  <2>1. v \in evidence'
    BY <1>4 DEF AddEvidence
  <2> QED BY <1>1, <2>1 DEF HasPassed
<1>5. evidence' = evidence => HasPassed(t, kind)'
  BY <1>1 DEF HasPassed
<1>6. TaskNext => HasPassed(t, kind)'
  BY <1>3, <1>4, <1>5 DEF TaskNext, CreateTask, Transition, SetContract, SetWorkspace,
     RecordFailure, ReadForApproval, InsertApproval
<1>7. LedgerNext => evidence' = evidence
  BY LedgerLeavesTasks
<1>8. UNCHANGED storeVars => evidence' = evidence
  BY DEF storeVars, taskVars
<1> QED BY <1>5, <1>6, <1>7, <1>8 DEF StoreNext

\* Every step keeps the evidence of the stages behind a task.
LEMMA EvidenceHistoryStep ==
  ASSUME TaskTypeOK, [StoreNext]_storeVars, NEW t \in Tasks, EvidenceHistory(t)
  PROVE  EvidenceHistory(t)'
<1>1. ASSUME task'[t].state \in Reviewed \cup {"verified", "reviewing"}
               \/ task'[t].moved = <<"reviewing", "blocked">>
      PROVE  HasPassed(t, "independent-check")
  <2>1. CASE Moved(t)
    <3>1. CASE task'[t].state = "verified"
      BY <2>1, <3>1 DEF Moved, GateKind, CurrentEvidence, HasPassed
    <3>2. CASE task'[t].state # "verified"
      <4>1. task[t].state \in Reviewed \cup {"verified", "reviewing"}
        BY <1>1, <2>1, <3>2 DEF Moved, Transitions, Onward, Working, Reviewed
      <4> QED BY <4>1 DEF EvidenceHistory
    <3> QED BY <3>1, <3>2
  <2>2. CASE Kept(t) \/ Created(t) \/ Stopped(t) \/ Recovered(t)
    BY <1>1, <2>2 DEF Kept, Created, Stopped, Recovered, EvidenceHistory, Reviewed
  <2> QED BY <2>1, <2>2, HowTasksMove
<1>2. ASSUME task'[t].state \in Reviewed PROVE HasPassed(t, "independent-review")
  <2>1. CASE Moved(t)
    <3>1. CASE task'[t].state = "review_complete"
      BY <2>1, <3>1 DEF Moved, GateKind, CurrentEvidence, HasPassed
    <3>2. CASE task'[t].state # "review_complete"
      <4>1. task[t].state \in Reviewed
        BY <1>2, <2>1, <3>2 DEF Moved, Transitions, Onward, Working, Reviewed
      <4> QED BY <4>1 DEF EvidenceHistory
    <3> QED BY <3>1, <3>2
  <2>2. CASE Recovered(t)
    BY <2>2 DEF Recovered, HasPassed
  <2>3. CASE Kept(t) \/ Created(t) \/ Stopped(t)
    BY <1>2, <2>3 DEF Kept, Created, Stopped, EvidenceHistory, Reviewed
  <2> QED BY <2>1, <2>2, <2>3, HowTasksMove
<1>3. ASSUME task'[t].state = "awaiting_pr_approval" PROVE HasPassed(t, "approval-package")
  <2>1. CASE Moved(t)
    BY <1>3, <2>1 DEF Moved, GateKind, CurrentEvidence, HasPassed
  <2>2. CASE Kept(t) \/ Created(t) \/ Stopped(t) \/ Recovered(t)
    BY <1>3, <2>2 DEF Kept, Created, Stopped, Recovered, EvidenceHistory
  <2> QED BY <2>1, <2>2, HowTasksMove
<1>4. /\ HasPassed(t, "independent-check") => HasPassed(t, "independent-check")'
      /\ HasPassed(t, "independent-review") => HasPassed(t, "independent-review")'
      /\ HasPassed(t, "approval-package") => HasPassed(t, "approval-package")'
  BY EvidenceStays
<1> QED BY <1>1, <1>2, <1>3, <1>4 DEF EvidenceHistory

\* No task is past a stage without the passing evidence of that stage.
THEOREM StagesAreEvidenced == StoreSpec => []EveryStageEvidenced
<1> DEFINE Inv == TaskTypeOK /\ \A t \in Tasks : EvidenceHistory(t)
<1>1. StoreInit => Inv
  <2>1. StoreInit => \A t \in Tasks : EvidenceHistory(t)
    BY DEF StoreInit, TaskInit, AbsentTask, EvidenceHistory, Reviewed
  <2> QED BY <2>1, StoreInitOK
<1>2. Inv /\ [StoreNext]_storeVars => Inv'
  <2> SUFFICES ASSUME Inv, [StoreNext]_storeVars PROVE Inv'
    OBVIOUS
  <2>1. TaskTypeOK'
    BY StoreStepType
  <2>2. ASSUME NEW t \in Tasks PROVE EvidenceHistory(t)'
    BY EvidenceHistoryStep
  <2> QED BY <2>1, <2>2
<1>3. Inv => EveryStageEvidenced
  BY DEF EvidenceHistory, EveryStageEvidenced, HasPassed
<1> QED BY <1>1, <1>2, <1>3, PTL DEF StoreSpec

-----------------------------------------------------------------------------
(* A repair is paid for. *)

FailedOn(t) == {s \in Signatures : failures[t][s] >= 1}

PaidFor(t) ==
  /\ IsFiniteSet(FailedOn(t))
  /\ task[t].repairs <= MaxRepairs[t]
  /\ task[t].repairs <= Cardinality(FailedOn(t))

\* record_failure is the only step that counts a repair, for a new signature
\* and within the limit.
LEMMA HowRepairsCount ==
  ASSUME TaskTypeOK, [StoreNext]_storeVars, NEW t \in Tasks
  PROVE  \/ task'[t].repairs = task[t].repairs
         \/ /\ task'[t].repairs = task[t].repairs + 1
            /\ task[t].repairs < MaxRepairs[t]
            /\ \E s \in Signatures : /\ failures[t][s] = 0
                                     /\ failures'[t] = [failures[t] EXCEPT ![s] = @ + 1]
<1> DEFINE Same == task'[t].repairs = task[t].repairs
           Granted == /\ task'[t].repairs = task[t].repairs + 1
                      /\ task[t].repairs < MaxRepairs[t]
                      /\ \E s \in Signatures :
                           /\ failures[t][s] = 0
                           /\ failures'[t] = [failures[t] EXCEPT ![s] = @ + 1]
<1>1. task' = task => Same
  OBVIOUS
<1>2. ASSUME NEW u \in Tasks, NEW state, MoveTo(u, state) PROVE Same
  BY <1>2 DEF MoveTo, TaskTypeOK, TaskRow
<1>3. ASSUME NEW u \in Tasks, NEW expected \in States, NEW target \in States,
             Transition(u, expected, target)
      PROVE  Same
  BY <1>3 DEF Transition, TaskTypeOK, TaskRow
<1>4. ASSUME NEW u \in Tasks, SetContract(u) PROVE Same
  BY <1>4 DEF SetContract, TaskTypeOK, TaskRow
<1>5. ASSUME NEW u \in Tasks, NEW r \in Revisions, SetWorkspace(u, r) \/ SetHead(u, r) PROVE Same
  <2>1. task[t] \in TaskRow
    BY DEF TaskTypeOK
  <2>2. CASE SetWorkspace(u, r)
    BY <2>1, <2>2 DEF SetWorkspace, TaskTypeOK, TaskRow
  <2>3. CASE SetHead(u, r)
    BY <2>1, <2>3 DEF SetHead, TaskTypeOK, TaskRow
  <2> QED BY <1>5, <2>2, <2>3
<1>6. ASSUME NEW u \in Tasks, NEW s \in Signatures, RecordFailure(u, s) PROVE Same \/ Granted
  <2>1. CASE MoveTo(u, "blocked")
    BY <1>2, <2>1
  <2>2. CASE /\ failures[u][s] = 0 /\ MayRepair(u)
             /\ task' = [task EXCEPT ![u].repairs = @ + 1]
    <3>1. CASE u # t
      BY <2>2, <3>1 DEF TaskTypeOK
    <3>2. CASE u = t
      <4>1. task'[t].repairs = task[t].repairs + 1 /\ task[t].repairs < MaxRepairs[t]
        BY <2>2, <3>2 DEF MayRepair, TaskTypeOK, TaskRow
      <4>2. failures'[t] = [failures[t] EXCEPT ![s] = @ + 1]
        BY <1>6, <3>2 DEF RecordFailure, CountFailure, TaskTypeOK
      <4> QED BY <2>2, <3>2, <4>1, <4>2
    <3> QED BY <3>1, <3>2
  <2> QED BY <1>6, <2>1, <2>2 DEF RecordFailure
<1> HIDE DEF Granted
<1>7. TaskNext => Same \/ Granted
  <2>1. ASSUME NEW u \in Tasks, CreateTask(u) PROVE Same
    BY <1>2, <2>1 DEF CreateTask
  <2>2. ASSUME NEW u \in Tasks, NEW id \in EvidenceIds, NEW r \in Revisions,
               NEW kind \in EvidenceKinds, NEW status \in EvidenceStatuses,
               AddEvidence(u, id, r, kind, status)
        PROVE  Same
    BY <1>1, <2>2 DEF AddEvidence
  <2>3. ASSUME NEW u \in Tasks, ReadForApproval(u) PROVE Same
    BY <1>1, <2>3 DEF ReadForApproval
  <2>4. ASSUME NEW call \in approving, NEW id \in ApprovalIds, InsertApproval(call, id)
        PROVE  Same
    BY <1>1, <2>4 DEF InsertApproval
  <2> HIDE DEF Same
  <2> QED BY <1>3, <1>4, <1>5, <1>6, <2>1, <2>2, <2>3, <2>4 DEF TaskNext
<1>8. LedgerNext => Same
  <2>1. UNCHANGED taskVars => Same
    BY <1>1 DEF taskVars
  <2>2. ASSUME ReconcileActive PROVE Same
    BY <2>2 DEF ReconcileActive, TaskTypeOK, TaskRow
  <2>3. ASSUME NEW u \in Tasks, NEW e \in Executions, NEW v \in evidence,
               RecoverReviewFormat(u, e, v)
        PROVE  Same
    BY <1>2, <2>3 DEF RecoverReviewFormat
  <2> HIDE DEF Same
  <2> QED BY <2>1, <2>2, <2>3, LedgerLeavesTasks
<1>9. UNCHANGED storeVars => Same
  BY <1>1 DEF storeVars, taskVars
<1> HIDE DEF Same
<1>10. Same \/ Granted
  BY <1>7, <1>8, <1>9 DEF StoreNext
<1> QED BY <1>10 DEF Same, Granted

\* A new failure pays for the repair it is granted, and no failure is forgotten.
LEMMA PaidForStep ==
  ASSUME TaskTypeOK, [StoreNext]_storeVars, NEW t \in Tasks, PaidFor(t)
  PROVE  PaidFor(t)'
<1>1. /\ failures[t] \in [Signatures -> Nat] /\ IsFiniteSet(FailedOn(t))
      /\ Cardinality(FailedOn(t)) \in Nat
      /\ task[t].repairs \in Nat /\ MaxRepairs[t] \in Nat
  BY FS_CardinalityType, MaxRepairsAssumption DEF PaidFor, TaskTypeOK, TaskRow
<1>2. ASSUME NEW s \in Signatures, failures'[t] = [failures[t] EXCEPT ![s] = @ + 1]
      PROVE  FailedOn(t)' = FailedOn(t) \cup {s}
  BY <1>1, <1>2 DEF FailedOn
<1>3. failures'[t] = failures[t] => FailedOn(t)' = FailedOn(t)
  BY DEF FailedOn
<1>4. /\ IsFiniteSet(FailedOn(t)')
      /\ Cardinality(FailedOn(t)') >= Cardinality(FailedOn(t))
  <2>1. CASE failures'[t] = failures[t]
    BY <1>1, <1>3, <2>1
  <2>2. CASE failures'[t] # failures[t]
    <3>1. PICK s \in Signatures : failures'[t] = [failures[t] EXCEPT ![s] = @ + 1]
      BY <2>2, HowFailuresCount
    <3>2. FailedOn(t)' = FailedOn(t) \cup {s}
      BY <1>2, <3>1
    <3>3. /\ IsFiniteSet(FailedOn(t) \cup {s})
          /\ Cardinality(FailedOn(t) \cup {s}) = IF s \in FailedOn(t) THEN Cardinality(FailedOn(t))
                                               ELSE Cardinality(FailedOn(t)) + 1
      BY <1>1, FS_AddElement
    <3> QED BY <1>1, <3>2, <3>3
  <2> QED BY <2>1, <2>2
<1>5. ASSUME task'[t].repairs = task[t].repairs + 1, task[t].repairs < MaxRepairs[t],
             NEW s \in Signatures, failures[t][s] = 0,
             failures'[t] = [failures[t] EXCEPT ![s] = @ + 1]
      PROVE  PaidFor(t)'
  <2>1. s \notin FailedOn(t)
    BY <1>5 DEF FailedOn
  <2>2. Cardinality(FailedOn(t)') = Cardinality(FailedOn(t)) + 1
    BY <1>1, <1>2, <1>5, <2>1, FS_AddElement
  <2> QED BY <1>1, <1>4, <1>5, <2>2 DEF PaidFor
<1>6. ASSUME task'[t].repairs = task[t].repairs PROVE PaidFor(t)'
  <2>1. Cardinality(FailedOn(t)') \in Nat
    BY <1>4, FS_CardinalityType
  <2> QED BY <1>1, <1>4, <1>6, <2>1 DEF PaidFor
<1> QED BY <1>5, <1>6, HowRepairsCount

\* No task is repaired more often than it may be, nor than it failed anew.
THEOREM RepairsArePaidFor == StoreSpec => []RepairsPaidFor
<1> DEFINE Inv == TaskTypeOK /\ \A t \in Tasks : PaidFor(t)
<1>1. StoreInit => Inv
  <2>1. ASSUME StoreInit, NEW t \in Tasks PROVE PaidFor(t)
    <3>1. task[t].repairs = 0 /\ FailedOn(t) = {} /\ MaxRepairs[t] \in 0..2
      BY <2>1, MaxRepairsAssumption DEF StoreInit, TaskInit, AbsentTask, FailedOn
    <3> QED BY <3>1, FS_EmptySet DEF PaidFor
  <2> QED BY <2>1, StoreInitOK
<1>2. Inv /\ [StoreNext]_storeVars => Inv'
  <2> SUFFICES ASSUME Inv, [StoreNext]_storeVars PROVE Inv'
    OBVIOUS
  <2>1. TaskTypeOK'
    BY StoreStepType
  <2>2. ASSUME NEW t \in Tasks PROVE PaidFor(t)'
    BY PaidForStep
  <2> QED BY <2>1, <2>2
<1>3. Inv => RepairsPaidFor
  BY DEF PaidFor, FailedOn, RepairsPaidFor
<1> QED BY <1>1, <1>2, <1>3, PTL DEF StoreSpec

-----------------------------------------------------------------------------
(* What is stale stays stale. *)

LEMMA StaleStep ==
  ASSUME TaskTypeOK, [StoreNext]_storeVars
  PROVE  /\ \A v \in evidence : v.stale => v \in evidence'
         /\ \A a \in approvals : a.stale => a \in approvals'
<1> DEFINE Goal == /\ \A v \in evidence : v.stale => v \in evidence'
                   /\ \A a \in approvals : a.stale => a \in approvals'
<1>1. ASSUME evidence \subseteq evidence', approvals \subseteq approvals' PROVE Goal
  BY <1>1
<1>2. ASSUME NEW t \in Tasks, NEW r \in Revisions, SetHead(t, r) PROVE Goal
  <2>1. CASE task[t].head = r
    BY <1>1, <1>2, <2>1 DEF SetHead
  <2>2. CASE task[t].head # r
    <3>1. /\ evidence' = {StaleIf(v, v.task = t /\ v.revision # r) : v \in evidence}
          /\ approvals' = {StaleIf(a, a.task = t /\ a.head # r) : a \in approvals}
      BY <1>2, <2>2 DEF SetHead
    <3>2. ASSUME NEW row \in EvidenceRow \cup ApprovalRow, row.stale, NEW outdated
          PROVE  StaleIf(row, outdated) = row
      BY <3>2 DEF StaleIf, EvidenceRow, ApprovalRow
    <3>3. evidence \subseteq EvidenceRow /\ approvals \subseteq ApprovalRow
      BY DEF TaskTypeOK
    <3>4. ASSUME NEW v \in evidence, v.stale PROVE v \in evidence'
      BY <3>1, <3>2, <3>3, <3>4
    <3>5. ASSUME NEW a \in approvals, a.stale PROVE a \in approvals'
      BY <3>1, <3>2, <3>3, <3>5
    <3> QED BY <3>4, <3>5
  <2> QED BY <2>1, <2>2
<1> HIDE DEF Goal
<1>3. TaskNext => Goal
  <2>1. ASSUME NEW u \in Tasks,
               \/ CreateTask(u) \/ SetContract(u) \/ ReadForApproval(u)
               \/ \E expected, target \in States : Transition(u, expected, target)
               \/ \E r \in Revisions : SetWorkspace(u, r)
               \/ \E s \in Signatures : RecordFailure(u, s)
        PROVE  Goal
    BY <1>1, <2>1 DEF CreateTask, SetContract, ReadForApproval, Transition, SetWorkspace,
                      RecordFailure
  <2>2. ASSUME NEW u \in Tasks, NEW id \in EvidenceIds, NEW r \in Revisions,
               NEW kind \in EvidenceKinds, NEW status \in EvidenceStatuses,
               AddEvidence(u, id, r, kind, status)
        PROVE  Goal
    BY <1>1, <2>2 DEF AddEvidence
  <2>3. ASSUME NEW call \in approving, NEW id \in ApprovalIds, InsertApproval(call, id)
        PROVE  Goal
    BY <1>1, <2>3 DEF InsertApproval
  <2> QED BY <1>2, <2>1, <2>2, <2>3 DEF TaskNext
<1>4. LedgerNext => Goal
  BY <1>1, LedgerLeavesTasks
<1>5. UNCHANGED storeVars => Goal
  BY <1>1 DEF storeVars, taskVars
<1>6. Goal
  BY <1>3, <1>4, <1>5 DEF StoreNext
<1> QED BY <1>6 DEF Goal

\* A head that moves back finds everything recorded for it still stale.
THEOREM StaleIsForever == StoreSpec => StaleStaysStale
<1> DEFINE Stays == /\ \A v \in evidence : v.stale => v \in evidence'
                    /\ \A a \in approvals : a.stale => a \in approvals'
<1>1. TaskTypeOK /\ [StoreNext]_storeVars => [Stays]_taskVars
  BY StaleStep
<1>2. StoreInit => TaskTypeOK
  BY StoreInitOK
<1>3. TaskTypeOK /\ [StoreNext]_storeVars => TaskTypeOK'
  BY StoreStepType
<1> QED BY <1>1, <1>2, <1>3, PTL DEF StoreSpec, StaleStaysStale

=============================================================================
