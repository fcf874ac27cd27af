---------------------------- MODULE WorkflowProofs ----------------------------
(***************************************************************************)
(* The Phase 4 workflow, for any number of processes, tasks and            *)
(* executions, however its processes interleave and whichever are killed.  *)
(*                                                                         *)
(* What the store keeps for any caller it keeps for the workflow, whose    *)
(* steps are operations of the store or one of three that only it takes    *)
(* (StepOfTheStore, BeyondStep).  InPlace says what a process has in hand  *)
(* at each point; that it has a revision there rests on HeadsKnown.  With  *)
(* that, a step does one of four things to the nodes (StepOnNodes), from   *)
(* which the lock follows (Locked), and to the count of late starts one    *)
(* of two (StepStarts), from which the bound follows (AllInTime).          *)
(***************************************************************************)
EXTENDS Phase4Workflow, AuthRecoveryProofs, SequenceTheorems

-----------------------------------------------------------------------------
(* The graph tables.                                                       *)

GraphTables ==
  /\ node \in [Tasks -> [Nodes -> NodeRow]]
  /\ \A t \in Tasks, n \in Nodes : node[t][n].attempts <= MaxAttempts(n)
  /\ cancelRequested \in [Tasks -> BOOLEAN]

\* A row whose attempts are not bounded.
AnyNodeRow == [status : NodeStatuses, attempts : Nat, exec : Executions \cup {NoExec}]

LEMMA KnownNodes ==
  /\ {"verify", "review", "repair", "package"} \subseteq Nodes
  /\ Implementations \subseteq Nodes /\ Workers \subseteq Nodes
  /\ "integrate" \notin Implementations
  /\ Decomposed => "integrate" \in Nodes
  /\ "integrate" \in Nodes => Decomposed
BY SubtasksAssumption DEF Nodes, Workers

\* What setting a node does to the rows.
LEMMA NodeIsSet ==
  ASSUME GraphTables, NEW t \in Tasks, NEW n \in Nodes, NEW target \in NodeStatuses,
         NEW e \in Executions \cup {NoExec}, SetNode(t, n, target, e)
  PROVE  /\ node' \in [Tasks -> [Nodes -> AnyNodeRow]]
         /\ node'[t][n].status = target
         /\ node'[t][n].attempts = node[t][n].attempts + (IF target = "running" THEN 1 ELSE 0)
         /\ \A u \in Tasks, m \in Nodes : u # t \/ m # n => node'[u][m] = node[u][m]
<1>1. node[t][n] \in NodeRow /\ node[t] \in [Nodes -> NodeRow]
  BY DEF GraphTables
<1>2. /\ node'[t][n] = [[node[t][n] EXCEPT
              !.status = target,
              !.attempts = IF target = "running" THEN node[t][n].attempts + 1 ELSE node[t][n].attempts]
              EXCEPT !.exec = IF e = NoExec THEN node[t][n].exec ELSE e]
      /\ \A u \in Tasks, m \in Nodes : u # t \/ m # n => node'[u][m] = node[u][m]
      /\ node' \in [Tasks -> [Nodes -> {node'[u][m] : u \in Tasks, m \in Nodes}]]
  BY <1>1 DEF SetNode, GraphTables
<1>3. /\ node'[t][n] \in AnyNodeRow /\ node'[t][n].status = target
      /\ node'[t][n].attempts = node[t][n].attempts + (IF target = "running" THEN 1 ELSE 0)
  <2>1. /\ node[t][n].status \in NodeStatuses /\ node[t][n].attempts \in Nat
        /\ node[t][n].exec \in Executions \cup {NoExec}
    BY <1>1 DEF NodeRow
  <2>2. node'[t][n] = [status |-> target,
                       attempts |-> IF target = "running" THEN node[t][n].attempts + 1
                                                          ELSE node[t][n].attempts,
                       exec |-> IF e = NoExec THEN node[t][n].exec ELSE e]
    BY <1>1, <1>2 DEF NodeRow
  <2> QED BY <2>1, <2>2 DEF AnyNodeRow
<1>4. \A u \in Tasks, m \in Nodes : node[u][m] \in AnyNodeRow
  <2>1. TAKE u \in Tasks, m \in Nodes
  <2>2. node[u][m] \in NodeRow
    BY DEF GraphTables
  <2> QED BY <2>2 DEF NodeRow, AnyNodeRow
<1>5. \A u \in Tasks, m \in Nodes : node'[u][m] \in AnyNodeRow
  <2>1. TAKE u \in Tasks, m \in Nodes
  <2>2. CASE u = t /\ m = n
    BY <1>3, <2>2
  <2>3. CASE u # t \/ m # n
    <3>1. node'[u][m] = node[u][m]
      BY <1>2, <2>3
    <3> QED BY <1>4, <3>1
  <2> QED BY <2>2, <2>3
<1> QED BY <1>2, <1>3, <1>5

\* A running node stays as it is unless it is moved itself, and to an end.
LEMMA NodeMoves ==
  ASSUME GraphTables, NEW t \in Tasks, NEW n \in Nodes, NEW target \in NodeStatuses,
         NEW e \in Executions \cup {NoExec}, MoveNode(t, n, target, e),
         UNCHANGED cancelRequested
  PROVE  /\ GraphTables'
         /\ node'[t][n].status = target
         /\ \A u \in Tasks, m \in Nodes : u # t \/ m # n => node'[u][m] = node[u][m]
         /\ node[t][n].status = "running" => target \notin {"pending", "running"}
<1>1. /\ node' \in [Tasks -> [Nodes -> AnyNodeRow]]
      /\ node'[t][n].status = target
      /\ node'[t][n].attempts = node[t][n].attempts + (IF target = "running" THEN 1 ELSE 0)
      /\ \A u \in Tasks, m \in Nodes : u # t \/ m # n => node'[u][m] = node[u][m]
  BY NodeIsSet DEF MoveNode
<1>2. node[t][n] \in NodeRow /\ node[t][n].attempts <= MaxAttempts(n) /\ MaxAttempts(n) \in 1..3
  BY DEF GraphTables, MaxAttempts
<1>3. node'[t][n].attempts <= MaxAttempts(n)
  BY <1>1, <1>2 DEF MoveNode, MayRun, NodeRow
<1>4. \A u \in Tasks, m \in Nodes : node'[u][m].attempts <= MaxAttempts(m)
  BY <1>1, <1>3 DEF GraphTables
<1>5. \A u \in Tasks, m \in Nodes : node'[u][m] \in NodeRow
  <2>1. \A m \in Nodes : MaxAttempts(m) \in 1..3
    BY DEF MaxAttempts
  <2>2. TAKE u \in Tasks, m \in Nodes
  <2>3. node'[u][m] \in AnyNodeRow
    BY <1>1
  <2>4. node'[u][m].attempts <= 3
    BY <1>4, <2>1, <2>3 DEF AnyNodeRow
  <2> QED BY <2>3, <2>4 DEF NodeRow, AnyNodeRow
<1>6. node' \in [Tasks -> [Nodes -> NodeRow]]
  BY <1>1, <1>5
<1>7. node[t][n].status = "running" => target \notin {"pending", "running"}
  BY DEF MoveNode, NodeTransitions
<1> QED BY <1>1, <1>4, <1>6, <1>7 DEF GraphTables

\* The nodes of a stage.
LEMMA StageNodesType ==
  ASSUME NEW state, NEW seen
  PROVE  StageNodes(state, seen) \in Seq(Nodes \ {"integrate"})
<1>1. \A n \in Nodes \ {"integrate"} : <<n>> \in Seq(Nodes \ {"integrate"})
  OBVIOUS
<1>2. {"verify", "review", "repair", "package"} \subseteq Nodes \ {"integrate"}
  BY KnownNodes
<1>3. CASE state = "implementing"
  <2>1. /\ Subtasks[1] \in Nodes \ {"integrate"}
        /\ Decomposed => Subtasks[2] \in Nodes \ {"integrate"}
    BY KnownNodes, SubtasksAssumption DEF Decomposed, Implementations, Range
  <2>2. /\ ToRun(Subtasks[1], seen) \in Seq(Nodes \ {"integrate"})
        /\ Decomposed => ToRun(Subtasks[2], seen) \in Seq(Nodes \ {"integrate"})
    <3>1. <<>> \in Seq(Nodes \ {"integrate"})
      OBVIOUS
    <3> QED BY <1>1, <2>1, <3>1 DEF ToRun
  <2>3. (IF Decomposed THEN ToRun(Subtasks[2], seen) ELSE <<>>) \in Seq(Nodes \ {"integrate"})
    BY <2>2
  <2> QED BY <1>3, <2>2, <2>3, ConcatProperties DEF StageNodes
<1>4. CASE state # "implementing"
  <2>1. StageNodes(state, seen) \in {<<"repair">>, <<"verify">>, <<"review">>, <<"package">>, <<>>}
    BY <1>4 DEF StageNodes
  <2>2. <<>> \in Seq(Nodes \ {"integrate"})
    OBVIOUS
  <2>3. /\ <<"repair">> \in Seq(Nodes \ {"integrate"}) /\ <<"verify">> \in Seq(Nodes \ {"integrate"})
        /\ <<"review">> \in Seq(Nodes \ {"integrate"}) /\ <<"package">> \in Seq(Nodes \ {"integrate"})
    BY <1>1, <1>2
  <2> QED BY <2>1, <2>2, <2>3
<1> QED BY <1>3, <1>4

-----------------------------------------------------------------------------
(* The store.  Its operations keep what they keep for any caller; what the *)
(* workflow does to it besides is submitting a task with its contract and  *)
(* plan at once, asking all running calls of a task to stop, and reporting *)
(* a callback that raised.                                                 *)

\* The head of a task that is past its workspace is a revision.
Headed == (Working \ {"received", "contracted"})
            \cup {"authentication_required", "awaiting_pr_approval"}

HeadsKnown ==
  \A t \in Tasks :
    task[t].workspace \/ task[t].state \in Headed => task[t].head \in Revisions

LEMMA HeadsStep ==
  ASSUME TaskTypeOK, HeadsKnown, [AuthNext]_allVars
  PROVE  HeadsKnown'
<1>1. task \in [Tasks -> TaskRow]
  BY DEF TaskTypeOK
<1>2. ASSUME NEW t \in Tasks, NEW row, task' = [task EXCEPT ![t] = row],
             row.workspace \/ row.state \in Headed => row.head \in Revisions
      PROVE  HeadsKnown'
  BY <1>1, <1>2 DEF HeadsKnown
<1>3. ASSUME NEW t \in Tasks, NEW state, MoveTo(t, state),
             state \in Headed => task[t].head \in Revisions
      PROVE  HeadsKnown'
  <2> DEFINE row == [task[t] EXCEPT !.state = state]
  <2>1. /\ row.state = state /\ row.workspace = task[t].workspace /\ row.head = task[t].head
    BY <1>1 DEF TaskRow
  <2>2. task' = [task EXCEPT ![t] = row]
    BY <1>3 DEF MoveTo
  <2> HIDE DEF row
  <2> QED BY <1>2, <1>3, <2>1, <2>2 DEF HeadsKnown
<1>4. ASSUME NEW t \in Tasks, NEW expected \in States, NEW target \in States,
             Transition(t, expected, target)
      PROVE  HeadsKnown'
  <2> DEFINE row == [task[t] EXCEPT !.state = target, !.moved = <<expected, target>>]
  <2>1. /\ row.state = target /\ row.workspace = task[t].workspace /\ row.head = task[t].head
    BY <1>1 DEF TaskRow
  <2>2. task' = [task EXCEPT ![t] = row]
    BY <1>4 DEF Transition
  <2>3. target \in Headed => task[t].workspace \/ task[t].state \in Headed
    BY <1>4 DEF Transition, Transitions, Onward, Working, Headed
  <2> HIDE DEF row
  <2> QED BY <1>2, <2>1, <2>2, <2>3 DEF HeadsKnown
<1>5. ASSUME NEW t \in Tasks, NEW r \in Revisions, SetWorkspace(t, r) \/ SetHead(t, r)
      PROVE  HeadsKnown'
  <2>1. ASSUME SetWorkspace(t, r) PROVE HeadsKnown'
    <3> DEFINE row == [task[t] EXCEPT !.workspace = TRUE, !.head = r]
    <3>1. row.head = r /\ task' = [task EXCEPT ![t] = row]
      BY <1>1, <2>1 DEF SetWorkspace, TaskRow
    <3> HIDE DEF row
    <3> QED BY <1>2, <3>1
  <2>2. ASSUME SetHead(t, r) PROVE HeadsKnown'
    <3> DEFINE row == [task[t] EXCEPT !.head = r]
    <3>1. row.head = r /\ task' = [task EXCEPT ![t] = row]
      BY <1>1, <2>2 DEF SetHead, TaskRow
    <3> HIDE DEF row
    <3> QED BY <1>2, <3>1
  <2> QED BY <1>5, <2>1, <2>2
<1>6. ASSUME NEW t \in Tasks, NEW s \in Signatures, RecordFailure(t, s) PROVE HeadsKnown'
  <2>1. CASE MoveTo(t, "blocked")
    BY <1>3, <2>1 DEF Headed, Working
  <2>2. CASE task' = [task EXCEPT ![t].repairs = @ + 1]
    <3> DEFINE row == [task[t] EXCEPT !.repairs = task[t].repairs + 1]
    <3>1. /\ row.state = task[t].state /\ row.workspace = task[t].workspace
          /\ row.head = task[t].head /\ task' = [task EXCEPT ![t] = row]
      BY <1>1, <2>2 DEF TaskRow
    <3> HIDE DEF row
    <3> QED BY <1>2, <3>1 DEF HeadsKnown
  <2> QED BY <1>6, <2>1, <2>2 DEF RecordFailure
<1>7. ASSUME NEW t \in Tasks, SetContract(t) PROVE HeadsKnown'
  <2> DEFINE row == [task[t] EXCEPT !.contract = TRUE]
  <2>1. /\ row.state = task[t].state /\ row.workspace = task[t].workspace
        /\ row.head = task[t].head /\ task' = [task EXCEPT ![t] = row]
    BY <1>1, <1>7 DEF SetContract, TaskRow
  <2> HIDE DEF row
  <2> QED BY <1>2, <2>1 DEF HeadsKnown
<1>8. ASSUME ReconcileActive PROVE HeadsKnown'
  <2>1. SUFFICES ASSUME NEW t \in Tasks
                 PROVE  task'[t].workspace \/ task'[t].state \in Headed => task'[t].head \in Revisions
    BY DEF HeadsKnown
  <2>2. task'[t] = task[t] \/ task'[t] = [task[t] EXCEPT !.state = "blocked"]
    BY <1>8 DEF ReconcileActive
  <2>3. /\ task'[t].workspace = task[t].workspace /\ task'[t].head = task[t].head
        /\ task'[t].state = task[t].state \/ task'[t].state = "blocked"
    BY <1>1, <2>2 DEF TaskRow
  <2> QED BY <2>3 DEF HeadsKnown, Headed, Working
<1>9. ASSUME NEW t \in Tasks, NEW e \in Executions, NEW v \in evidence,
             RecoverReviewFormat(t, e, v)
      PROVE  HeadsKnown'
  <2>1. v.revision \in Revisions
    BY DEF TaskTypeOK, EvidenceRow
  <2> QED BY <1>3, <1>9, <2>1 DEF RecoverReviewFormat
<1>10. UNCHANGED task => HeadsKnown'
  BY DEF HeadsKnown
<1>11. CASE StoreNext
  <2>1. LedgerNext => HeadsKnown'
    BY <1>8, <1>9, <1>10, LedgerLeavesTasks DEF taskVars
  <2>2. ASSUME NEW t \in Tasks, CreateTask(t) PROVE HeadsKnown'
    BY <1>3, <2>2 DEF CreateTask, Headed, Working
  <2>3. ASSUME NEW t \in Tasks, NEW id \in EvidenceIds, NEW r \in Revisions,
               NEW kind \in EvidenceKinds, NEW status \in EvidenceStatuses,
               AddEvidence(t, id, r, kind, status)
        PROVE  HeadsKnown'
    BY <1>10, <2>3 DEF AddEvidence
  <2>4. TaskNext => HeadsKnown'
    BY <1>4, <1>5, <1>6, <1>7, <1>10, <2>2, <2>3 DEF TaskNext, ReadForApproval, InsertApproval
  <2> QED BY <1>11, <2>1, <2>4 DEF StoreNext
<1>12. ASSUME NEW t \in Tasks, NEW e \in Executions, NEW c \in Contexts, NEW s \in Sessions,
              NEW refs \in SUBSET EvidenceIds, CheckpointAuthentication(t, e, c, s, refs)
       PROVE  HeadsKnown'
  <2>1. task[t].state \in Headed
    BY <1>12 DEF CheckpointAuthentication, Interrupted, Stages, Headed, Working
  <2> QED BY <1>3, <1>12, <2>1 DEF CheckpointAuthentication, HeadsKnown
<1>13. ASSUME NEW t \in Tasks, ResumeAfterAuthentication(t) PROVE HeadsKnown'
  <2>1. task[t].state \in Headed
    BY <1>13 DEF ResumeAfterAuthentication, Headed
  <2> QED BY <1>3, <1>13, <2>1 DEF ResumeAfterAuthentication, HeadsKnown
<1>14. LoginActions => HeadsKnown'
  BY <1>10, LoginsLeaveStore DEF storeVars, taskVars
<1> QED BY <1>10, <1>11, <1>12, <1>13, <1>14 DEF AuthNext, AuthActions, allVars, storeVars, taskVars

\* What the workflow does besides the operations of the store.
Beyond ==
  \/ \E t \in Tasks : Submit(t)
  \/ \E t \in Tasks : RequestTaskCancellation(t)
  \/ \E e \in Executions, report \in AnyReport :
       FinishExecution(e, report) /\ UNCHANGED authVars

\* A submitted task is a row in its first states.
LEMMA SubmitStep ==
  ASSUME TaskTypeOK, HeadsKnown, NEW t \in Tasks, Submit(t)
  PROVE  /\ TaskTypeOK' /\ HeadsKnown'
         /\ \A u \in Tasks : task'[u].state = IF u = t THEN "contracted" ELSE task[u].state
<1> DEFINE row == [[[task[t] EXCEPT !.state = "contracted"] EXCEPT !.contract = TRUE]
                             EXCEPT !.moved = <<"received", "contracted">>]
<1>1. task \in [Tasks -> TaskRow] /\ task[t] \in TaskRow
  BY DEF TaskTypeOK
<1>2. task' = [task EXCEPT ![t] = row]
  BY <1>1 DEF Submit, TaskRow
<1>3. /\ row \in TaskRow /\ row.state = "contracted"
      /\ row.workspace = task[t].workspace /\ row.head = task[t].head
  <2>1. <<"received", "contracted">> \in States \X States
    BY DEF States, Working
  <2> QED BY <1>1, <2>1 DEF TaskRow, States, Working
<1> HIDE DEF row
<1>4. task' \in [Tasks -> TaskRow]
  BY <1>1, <1>2, <1>3
<1>5. TaskTypeOK'
  BY <1>4 DEF TaskTypeOK, Submit
<1>6. HeadsKnown'
  BY <1>1, <1>2, <1>3 DEF HeadsKnown, Headed, Working
<1> QED BY <1>1, <1>2, <1>3, <1>5, <1>6

\* A call that is asked to stop stays outstanding, and keeps its place in the
\* budget.
LEMMA CancellationStep ==
  ASSUME Ledger, NEW t \in Tasks, RequestTaskCancellation(t)
  PROVE  /\ Ledger'
         /\ \A u : In(u, Outstanding)' = In(u, Outstanding)
<1> DEFINE after(e) == IF e \in In(t, {"running"}) THEN [exec[e] EXCEPT !.status = "cancel_requested"]
                                                  ELSE exec[e]
<1>1. /\ exec \in [Executions -> ExecRow \cup {Unused}] /\ Agree(exec, budget)
      /\ exec' = [e \in Executions |-> after(e)]
      /\ budget' = budget /\ recovered' = recovered
  BY AgreeIsMatch DEF Ledger, LedgerTypeOK, RequestTaskCancellation
<1>2. ASSUME NEW e \in Executions
      PROVE  /\ after(e) \in ExecRow \cup {Unused} /\ after(e).task = exec[e].task
             /\ after(e).status \in Outstanding <=> exec[e].status \in Outstanding
             /\ after(e).status \in Closed <=> exec[e].status \in Closed
  <2>1. CASE e \in In(t, {"running"})
    <3>1. exec[e].status = "running"
      BY <2>1 DEF In
    <3>2. exec[e] \in ExecRow
      BY <3>1, UsedRow DEF Ledger
    <3> QED BY <2>1, <3>1, <3>2 DEF ExecRow, Outstanding, Active, Closed, Outcomes, Resolutions
  <2>2. CASE e \notin In(t, {"running"})
    BY <1>1, <2>2
  <2> QED BY <2>1, <2>2
<1> HIDE DEF after
<1>3. exec' \in [Executions -> ExecRow \cup {Unused}]
  BY <1>1, <1>2
<1>4. ASSUME NEW u
      PROVE  /\ Rows(exec', u, Outstanding) = Rows(exec, u, Outstanding)
             /\ Rows(exec', u, Closed) = Rows(exec, u, Closed)
  BY <1>1, <1>2 DEF Rows
<1>5. LedgerMatchesExecutions'
  BY <1>1, <1>4, AgreeIsMatch DEF Agree
<1>6. \A u : In(u, Outstanding)' = In(u, Outstanding)
  BY <1>4 DEF In, Rows
<1> QED BY <1>1, <1>3, <1>5, <1>6 DEF Ledger, LedgerTypeOK

LEMMA BeyondStep ==
  ASSUME AuthInvariant, HeadsKnown, Beyond
  PROVE  AuthInvariant' /\ HeadsKnown'
<1> USE DEF AuthInvariant
<1>1. UNCHANGED <<failures, evidence, approvals, approving, authVars>>
  BY DEF Beyond, Submit, OnTaskOnly, RequestTaskCancellation, FinishExecution, taskVars
<1>2. AuthTables' /\ AllInStep' /\ OneOpenSession' /\ Guarded' /\ EvidenceIdsDiffer'
  BY <1>1 DEF authVars, AuthTables, AllInStep, InStep, Parked, OneOpenSession, Guarded,
     EvidenceIdsDiffer
<1>3. \A u \in Tasks : Parked(u)' = Parked(u)
  BY <1>1 DEF authVars, Parked
<1>4. ASSUME NEW t \in Tasks, Submit(t)
      PROVE  TaskTypeOK' /\ HeadsKnown' /\ Ledger' /\ ParkedTaskIsIdle'
  <2>1. UNCHANGED ledgerVars
    BY <1>4 DEF Submit, OnTaskOnly
  <2>2. Ledger' /\ \A u : In(u, Outstanding)' = In(u, Outstanding)
    BY <2>1 DEF Ledger, LedgerTypeOK, LedgerMatchesExecutions, In, ledgerVars
  <2> QED BY <1>3, <1>4, <2>2, SubmitStep DEF ParkedTaskIsIdle
<1>5. ASSUME UNCHANGED taskVars
      PROVE  /\ TaskTypeOK' /\ HeadsKnown'
             /\ \A u \in Tasks : task'[u].state = task[u].state
  BY <1>5 DEF taskVars, TaskTypeOK, HeadsKnown
<1>6. ASSUME NEW t \in Tasks, RequestTaskCancellation(t)
      PROVE  TaskTypeOK' /\ HeadsKnown' /\ Ledger' /\ ParkedTaskIsIdle'
  <2>1. UNCHANGED taskVars
    BY <1>6 DEF RequestTaskCancellation
  <2> QED BY <1>3, <1>5, <1>6, <2>1, CancellationStep DEF ParkedTaskIsIdle
<1>7. ASSUME NEW e \in Executions, NEW report \in AnyReport, FinishExecution(e, report)
      PROVE  TaskTypeOK' /\ HeadsKnown' /\ Ledger' /\ ParkedTaskIsIdle'
  <2>1. UNCHANGED taskVars
    BY <1>7 DEF FinishExecution
  <2>2. Ledger'
    BY <1>7, FinishStep
  <2> QED BY <1>3, <1>5, <1>7, <2>1, <2>2, FinishLaunchesNothing DEF ParkedTaskIsIdle, Ledger
<1> QED BY <1>2, <1>4, <1>6, <1>7 DEF Beyond

-----------------------------------------------------------------------------
(* The processes.                                                          *)

\* Where a process has a node of its stage before it.
Handling == {"node", "reserve", "start", "call", "excepted", "judge", "checkpoint", "succeed",
             "verdict", "package"}

\* Its stage is one of ordinary nodes, which the integration is not, and its
\* candidate has a revision.
Handles(row) ==
  row.todo \in Seq(Nodes \ {"integrate"}) /\ row.todo # <<>> /\ row.head \in Revisions

\* What a process has in hand where it stands.
Placed(row) ==
  /\ row.pc \notin Ended \cup {"ready"} => row.task \in Tasks
  /\ row.pc \in {"unpark", "restore"} => row.todo # <<>>
  /\ row.pc \in Handling => Handles(row)
  /\ row.pc \in {"start", "call", "judge", "checkpoint"} => row.exec \in Executions
  /\ row.pc \in {"excepted", "succeed"} => Head(row.todo) \in Workers
  /\ row.pc = "succeed" /\ OnTaskBranch(Head(row.todo)) => row.head \in Revisions
  /\ row.pc = "judge" => row.verdict # "none"
  /\ row.pc = "verdict" => row.verdict \in {"passed", "rejected", "stopped"}
  /\ row.pc \in {"integrate", "merge", "integrated"} => Decomposed
  /\ row.pc = "merge" => row.todo = <<"integrate">>
  /\ row.pc = "adopt" => /\ row.head \in Revisions
                         /\ \/ row.todo = <<"integrate">> /\ Decomposed
                            \/ Handles(row) /\ Head(row.todo) \in Workers
  /\ row.pc = "requalify" => row.todo \in {<<"verify", "review">>, <<"review">>}

InPlace == process \in [Processes -> ProcessRow] /\ \A p \in Processes : Placed(process[p])

\* Only p's row changes.
Only(p) ==
  /\ process' = [q \in Processes |-> process'[q]]
  /\ \A q \in Processes : q # p => process'[q] = process[q]

LEMMA RowChanges ==
  ASSUME InPlace, NEW p \in Processes, Only(p), process'[p] \in ProcessRow, Placed(process'[p])
  PROVE  InPlace'
<1>1. \A q \in Processes : process'[q] \in ProcessRow /\ Placed(process'[q])
  BY DEF InPlace, Only
<1>2. process' \in [Processes -> ProcessRow]
  BY <1>1 DEF Only
<1> QED BY <1>1, <1>2 DEF InPlace, Placed, Handles

LEMMA UnstartedType == Unstarted \in ProcessRow
<1>1. <<>> \in Seq(Nodes)
  OBVIOUS
<1> QED BY <1>1 DEF Unstarted, ProcessRow, Points, Ended, States, Working, NodeStatuses, Verdicts

LEMMA ThenType ==
  ASSUME NEW row \in ProcessRow, NEW pc \in Points
  PROVE  /\ Then(row, pc) \in ProcessRow /\ Then(row, pc).pc = pc
         /\ Then(row, pc).late = row.late
         /\ pc \in Ended => Placed(Then(row, pc))
         /\ pc \notin Ended => Then(row, pc) = [row EXCEPT !.pc = pc]
<1>1. CASE pc \in Ended
  <2>1. Then(row, pc) = [Unstarted EXCEPT !.pc = pc, !.late = row.late]
    BY <1>1 DEF Then
  <2>2. Then(row, pc) \in ProcessRow /\ Then(row, pc).pc = pc /\ Then(row, pc).late = row.late
    BY <2>1, UnstartedType DEF ProcessRow
  <2> QED BY <1>1, <2>2 DEF Placed, Ended, Handling
<1>2. CASE pc \notin Ended
  BY <1>2 DEF Then, ProcessRow
<1> QED BY <1>1, <1>2

\* A process that goes on keeps what it has in hand.
LEMMA GotoKeeps ==
  ASSUME InPlace, NEW p \in Processes, NEW pc \in Points, Goto(p, pc)
  PROVE  /\ Only(p) /\ process'[p] \in ProcessRow /\ process'[p].pc = pc
         /\ process'[p].late = process[p].late
         /\ pc \in Ended => Placed(process'[p])
         /\ pc \notin Ended => process'[p] = [process[p] EXCEPT !.pc = pc]
<1>1. process[p] \in ProcessRow
  BY DEF InPlace
<1>2. process'[p] = Then(process[p], pc) /\ Only(p)
  BY DEF InPlace, Goto, Only
<1> QED BY <1>1, <1>2, ThenType

\* Where nothing but the task is needed.
Plain == {"record", "open", "inspect", "reconcile", "look", "reread", "cancel", "join", "count",
          "advance", "block"} \cup Ended

LEMMA GotoPlain ==
  ASSUME InPlace, NEW p \in Processes, NEW pc \in Plain, Goto(p, pc), Live(p)
  PROVE  InPlace'
<1>1. process[p] \in ProcessRow /\ process[p].task \in Tasks /\ pc \in Points
  BY DEF InPlace, Placed, Live, Plain, Points
<1>2. CASE pc \in Ended
  BY <1>1, <1>2, GotoKeeps, RowChanges
<1>3. CASE pc \notin Ended
  <2>1. process'[p] = [process[p] EXCEPT !.pc = pc] /\ process'[p] \in ProcessRow /\ Only(p)
    BY <1>1, <1>3, GotoKeeps
  <2>2. process'[p].pc = pc /\ process'[p].task \in Tasks
    BY <1>1, <2>1 DEF ProcessRow
  <2>3. Placed(process'[p])
    BY <1>3, <2>2 DEF Placed, Plain, Handling
  <2> QED BY <2>1, <2>3, RowChanges
<1> QED BY <1>2, <1>3

\* p goes on to one of these points, and starts no call.
Goes(p, points) ==
  Only(p) /\ process'[p].pc \in points /\ process'[p].late = process[p].late

\* p changes its row by hand.
LEMMA RowBecomes ==
  ASSUME InPlace, NEW p \in Processes, NEW row \in ProcessRow, Placed(row),
         process' = [process EXCEPT ![p] = row]
  PROVE  InPlace' /\ Only(p) /\ process'[p] = row
<1>1. process'[p] = row /\ Only(p)
  BY DEF InPlace, Only
<1> QED BY <1>1, RowChanges

\* Where a command begins.
Begun == {"workspace", "returned", "inspect", "unpark", "reread"}

\* A command is begun.
LEMMA BeginInPlace ==
  ASSUME InPlace, TaskTypeOK, NEW p \in Processes, NEW t \in Tasks,
         BeginStart(p, t) \/ BeginResume(p, t) \/ BeginCancel(p, t)
  PROVE  InPlace' /\ Goes(p, Begun)
<1>1. process[p] \in ProcessRow
  BY DEF InPlace
<1> DEFINE mine == [process[p] EXCEPT !.task = t]
<1>2. mine \in ProcessRow /\ mine.task = t /\ mine.late = process[p].late
  BY <1>1 DEF ProcessRow
<1>3. ASSUME NEW pc \in {"workspace", "returned", "inspect", "reread"},
             process' = [process EXCEPT ![p] = Then(mine, pc)]
      PROVE  InPlace' /\ Goes(p, Begun)
  <2>1. pc \in Points /\ pc \in Begun
    BY DEF Points, Ended, Begun
  <2>2. CASE pc \in Ended
    <3>1. /\ Then(mine, pc) \in ProcessRow /\ Placed(Then(mine, pc))
          /\ Then(mine, pc).pc = pc /\ Then(mine, pc).late = process[p].late
      BY <1>2, <2>1, <2>2, ThenType
    <3>2. InPlace' /\ Only(p) /\ process'[p] = Then(mine, pc)
      BY <1>3, <3>1, RowBecomes
    <3> QED BY <2>1, <3>1, <3>2 DEF Goes
  <2>3. CASE pc \notin Ended
    <3>1. Then(mine, pc) = [mine EXCEPT !.pc = pc] /\ Then(mine, pc) \in ProcessRow
      BY <1>2, <2>1, <2>3, ThenType
    <3>2. /\ Then(mine, pc).pc = pc /\ Then(mine, pc).task = t
          /\ Then(mine, pc).late = process[p].late
      BY <1>2, <3>1 DEF ProcessRow
    <3>3. Placed(Then(mine, pc))
      BY <2>3, <3>2 DEF Placed, Handling
    <3> QED BY <1>3, <2>1, <3>1, <3>2, <3>3, RowBecomes DEF Goes
  <2> QED BY <2>2, <2>3
<1>4. CASE BeginStart(p, t)
  <2>1. PICK pc \in {"workspace", "returned", "inspect"} :
          process' = [process EXCEPT ![p] = Then(mine, pc)]
    BY <1>4 DEF BeginStart, Settled
  <2> QED BY <1>3, <2>1
<1>5. CASE BeginCancel(p, t)
  <2>1. PICK pc \in {"returned", "reread"} : process' = [process EXCEPT ![p] = Then(mine, pc)]
    BY <1>5 DEF BeginCancel
  <2> QED BY <1>3, <2>1
<1>6. CASE BeginResume(p, t)
  <2> DEFINE row(n) == [[[process[p] EXCEPT !.task = t] EXCEPT !.todo = <<n>>] EXCEPT !.pc = "unpark"]
  <2>1. PICK n \in Nodes : process' = [process EXCEPT ![p] = row(n)]
    BY <1>1, <1>6 DEF BeginResume, InPlace
  <2>2. <<n>> \in Seq(Nodes) /\ <<n>> # <<>> /\ "unpark" \in Points
    BY DEF Points
  <2>3. row(n) \in ProcessRow /\ row(n).pc = "unpark" /\ row(n).task = t /\ row(n).todo = <<n>>
        /\ row(n).late = process[p].late
    BY <1>1, <2>2 DEF ProcessRow
  <2>4. Placed(row(n))
    BY <2>2, <2>3 DEF Placed, Ended, Handling
  <2> HIDE DEF row
  <2> QED BY <2>1, <2>3, <2>4, RowBecomes DEF Goes, Begun
<1> QED BY <1>4, <1>5, <1>6

\* The next turn of the loop.
LEMMA LookInPlace ==
  ASSUME InPlace, TaskTypeOK, HeadsKnown, GraphTables, NEW p \in Processes, Look(p)
  PROVE  /\ InPlace'
         /\ Goes(p, {"returned", "cancel", "join", "advance", "node"})
         /\ process'[p].pc \notin Ended => process'[p].task = Own(p)
         /\ cancelRequested[Own(p)] => process'[p].pc \in {"returned", "cancel"}
<1> DEFINE t    == Own(p)
           s    == task[t].state
           seen == [n \in Nodes |-> node[t][n].status]
           todo == StageNodes(s, seen)
           turn == [Unstarted EXCEPT !.task = t, !.from = s, !.head = task[t].head,
                      !.repairs = task[t].repairs, !.seen = seen, !.todo = todo,
                      !.late = process[p].late]
<1>1. process[p] \in ProcessRow /\ t \in Tasks
  BY DEF InPlace, Placed, Look, At, Own, Ended
<1>2. task[t] \in TaskRow /\ seen \in [Nodes -> NodeStatuses]
  <2>1. \A n \in Nodes : node[t][n] \in NodeRow
    BY <1>1 DEF GraphTables
  <2> QED BY <1>1, <2>1 DEF TaskTypeOK, NodeRow
<1>3. todo \in Seq(Nodes \ {"integrate"}) /\ todo \in Seq(Nodes)
  <2>1. todo \in Seq(Nodes \ {"integrate"})
    BY StageNodesType
  <2> QED BY <2>1
<1>4. turn \in ProcessRow /\ turn.task = t /\ turn.todo = todo /\ turn.head = task[t].head
      /\ turn.late = process[p].late
  <2> HIDE DEF seen, todo
  <2> QED BY <1>1, <1>2, <1>3, UnstartedType DEF ProcessRow, TaskRow
<1>5. PICK pc \in {"returned", "cancel", "join", "advance", "node"} :
        /\ process' = [process EXCEPT ![p] = Then(turn, pc)]
        /\ pc = "node" => todo # <<>> /\ task[t].head \in Revisions
        /\ cancelRequested[t] => pc \in {"returned", "cancel"}
  <2>1. /\ s \in AtRest \cup Driven /\ cancelRequested[t] \in BOOLEAN
    BY <1>1 DEF Look, GraphTables
  <2>2. AfterStage(s) \in {"join", "advance"} /\ AtRest \cap Driven = {}
    BY DEF AfterStage, AtRest, Driven, Settled, Working
  <2> DEFINE out == In(t, {"running", "cancel_requested", "reconciliation_required"}) # {}
             where == CASE s \in AtRest \/ (cancelRequested[t] /\ out) -> "returned"
                        [] s \in Driven /\ cancelRequested[t] /\ ~out -> "cancel"
                        [] s \in Driven /\ ~cancelRequested[t] /\ todo = <<>>   -> AfterStage(s)
                        [] s \in Driven /\ ~cancelRequested[t] /\ todo # <<>>   -> "node"
  <2>3. process' = [process EXCEPT ![p] = Then(turn, where)]
    BY DEF Look
  <2>4. /\ where \in {"returned", "cancel", "join", "advance", "node"}
        /\ where = "node" => todo # <<>> /\ s \in Driven
        /\ cancelRequested[t] => where \in {"returned", "cancel"}
    <3> HIDE DEF s, todo, out, t
    <3> QED BY <2>1, <2>2
  <2>5. s \in Driven => task[t].head \in Revisions
    BY <1>1 DEF HeadsKnown, Headed, Driven
  <2> HIDE DEF where, turn
  <2> QED BY <2>3, <2>4, <2>5
<1> HIDE DEF turn
<1>6. pc \in Points
  BY DEF Points, Ended
<1>7. CASE pc \in Ended
  <2>1. /\ Then(turn, pc) \in ProcessRow /\ Placed(Then(turn, pc))
        /\ Then(turn, pc).pc = pc /\ Then(turn, pc).late = process[p].late
    BY <1>4, <1>6, <1>7, ThenType
  <2>2. InPlace' /\ Only(p) /\ process'[p] = Then(turn, pc)
    BY <1>5, <2>1, RowBecomes
  <2> QED BY <1>5, <1>7, <2>1, <2>2 DEF Goes
<1>8. CASE pc \notin Ended
  <2>1. Then(turn, pc) = [turn EXCEPT !.pc = pc] /\ Then(turn, pc) \in ProcessRow
    BY <1>4, <1>6, <1>8, ThenType
  <2>2. Then(turn, pc).pc = pc /\ Then(turn, pc).task = t /\ Then(turn, pc).todo = todo
        /\ Then(turn, pc).head = task[t].head /\ Then(turn, pc).late = process[p].late
    BY <1>4, <2>1 DEF ProcessRow
  <2>3. Placed(Then(turn, pc))
    BY <1>1, <1>3, <1>5, <1>8, <2>2 DEF Placed, Handling, Handles, Ended
  <2> QED BY <1>5, <2>1, <2>2, <2>3, RowBecomes DEF Goes
<1> QED BY <1>7, <1>8

\* A node of the stage, up to its call.
LEMMA NodeInPlace ==
  ASSUME InPlace, TaskTypeOK, NEW p \in Processes,
         ResetNode(p) \/ RunNode(p) \/ Reserve(p) \/ StartCall(p)
  PROVE  InPlace'
<1>1. process[p] \in ProcessRow /\ Placed(process[p])
  BY DEF InPlace
<1>2. process[p].pc \in {"node", "reserve", "start"}
  BY DEF ResetNode, RunNode, Reserve, StartCall, At
<1>3. Own(p) \in Tasks /\ Handles(process[p]) /\ Current(p) \in Nodes
  BY <1>1, <1>2 DEF Placed, Own, Current, Handling, Handles, Ended
<1>4. Only(p)
  BY DEF InPlace, Only, ResetNode, RunNode, Reserve, StartCall
<1>5. CASE ResetNode(p)
  <2>1. process'[p] = [process[p] EXCEPT !.seen[Current(p)] = "pending"] /\ At(p, "node")
    BY <1>5 DEF ResetNode, InPlace
  <2>2. /\ process'[p] \in ProcessRow /\ process'[p].pc = "node"
        /\ process'[p].task = Own(p) /\ process'[p].todo = process[p].todo
        /\ process'[p].head = process[p].head
    BY <1>1, <1>3, <2>1 DEF ProcessRow, NodeStatuses, At, Own
  <2>3. Placed(process'[p])
    BY <1>3, <2>2 DEF Placed, Handling, Handles
  <2> QED BY <1>4, <2>2, <2>3, RowChanges
<1>6. CASE RunNode(p)
  <2>1. PICK from \in States, pc \in {"package", "reserve"} :
          process'[p] = [[process[p] EXCEPT !.from = from] EXCEPT !.pc = pc]
    <3>1. task[Own(p)].state \in States /\ process[p].from \in States
      BY <1>1, <1>3 DEF TaskTypeOK, TaskRow, ProcessRow
    <3> QED BY <1>6, <3>1 DEF RunNode, InPlace
  <2>2. /\ process'[p] \in ProcessRow /\ process'[p].pc = pc
        /\ process'[p].task = Own(p) /\ process'[p].todo = process[p].todo
        /\ process'[p].head = process[p].head
    BY <1>1, <2>1 DEF ProcessRow, Points, Own
  <2>3. Placed(process'[p])
    BY <1>3, <2>2 DEF Placed, Handling, Handles
  <2> QED BY <1>4, <2>2, <2>3, RowChanges
<1>7. CASE Reserve(p)
  <2>1. PICK e \in Executions : process'[p] = [[process[p] EXCEPT !.exec = e] EXCEPT !.pc = "start"]
    BY <1>7 DEF Reserve, InPlace
  <2>2. /\ process'[p] \in ProcessRow /\ process'[p].pc = "start" /\ process'[p].exec = e
        /\ process'[p].task = Own(p) /\ process'[p].todo = process[p].todo
        /\ process'[p].head = process[p].head
    BY <1>1, <2>1 DEF ProcessRow, Points, Own
  <2>3. Placed(process'[p])
    BY <1>3, <2>2 DEF Placed, Handling, Handles
  <2> QED BY <1>4, <2>2, <2>3, RowChanges
<1>8. CASE StartCall(p)
  <2> DEFINE late == IF cancelRequested[Own(p)] THEN process[p].late + 1 ELSE process[p].late
  <2>1. process'[p] = [[process[p] EXCEPT !.pc = "call"] EXCEPT !.late = late] /\ late \in Nat
    <3>1. process[p].late \in Nat
      BY <1>1 DEF ProcessRow
    <3>2. process' = [process EXCEPT ![p] =
             [[process[p] EXCEPT !.pc = "call"] EXCEPT !.late = late]]
      BY <1>1, <1>8 DEF StartCall, InPlace, ProcessRow
    <3> QED BY <3>1, <3>2 DEF InPlace
  <2> HIDE DEF late
  <2>2. /\ process'[p] \in ProcessRow /\ process'[p].pc = "call" /\ process'[p].exec = process[p].exec
        /\ process'[p].task = Own(p) /\ process'[p].todo = process[p].todo
        /\ process'[p].head = process[p].head
    BY <1>1, <2>1 DEF ProcessRow, Points, Own
  <2>3. process[p].exec \in Executions
    BY <1>1, <1>8 DEF StartCall, At, Placed
  <2>4. Placed(process'[p])
    BY <1>3, <2>2, <2>3 DEF Placed, Handling, Handles
  <2> QED BY <1>4, <2>2, <2>4, RowChanges
<1> QED BY <1>5, <1>6, <1>7, <1>8

\* The call, and what is made of it.
LEMMA CallInPlace ==
  ASSUME InPlace, NEW p \in Processes,
         \/ \E report \in Reports : CallReturns(p, report)
         \/ CallRaises(p) \/ EngineRefused(p) \/ ParkNode(p)
         \/ RecordVerdict(p) \/ Package(p)
  PROVE  InPlace'
<1>1. process[p] \in ProcessRow /\ Placed(process[p])
  BY DEF InPlace
<1>2. process[p].pc \in {"reserve", "start", "call", "judge", "package"}
  BY DEF CallReturns, CallRaises, EngineRefused, ParkNode, RecordVerdict, Package, Judged, At
<1>3. Own(p) \in Tasks /\ Handles(process[p]) /\ Current(p) \in Nodes
  BY <1>1, <1>2 DEF Placed, Own, Current, Handling, Handles, Ended
<1>4. CASE \E report \in Reports : CallReturns(p, report)
  <2>1. PICK v \in Verdicts \ {"none"} :
          process' = [process EXCEPT ![p].verdict = v, ![p].pc = "judge"]
    <3>1. PICK report \in Reports : CallReturns(p, report)
      BY <1>4
    <3>2. VerdictsOn(Current(p), report) \subseteq Verdicts \ {"none"}
      BY DEF VerdictsOn, Verdicts
    <3> QED BY <3>1, <3>2 DEF CallReturns
  <2>2. process'[p] = [[process[p] EXCEPT !.verdict = v] EXCEPT !.pc = "judge"] /\ Only(p)
    BY <2>1 DEF InPlace, Only
  <2>3. /\ process'[p] \in ProcessRow /\ process'[p].pc = "judge" /\ process'[p].verdict = v
        /\ process'[p].task = Own(p) /\ process'[p].todo = process[p].todo
        /\ process'[p].head = process[p].head
        /\ process'[p].exec = process[p].exec
    BY <1>1, <2>2 DEF ProcessRow, Points, Own
  <2>4. process[p].exec \in Executions
    BY <1>1, <1>4 DEF CallReturns, At, Placed
  <2>5. Placed(process'[p])
    BY <1>3, <2>3, <2>4 DEF Placed, Handling, Handles
  <2> QED BY <2>2, <2>3, <2>5, RowChanges
<1>5. CASE CallRaises(p) \/ EngineRefused(p)
  <2>1. CASE Goto(p, "failed")
    BY <1>2, <2>1, GotoPlain DEF Plain, Ended, Live
  <2>2. CASE Goto(p, "excepted") /\ Current(p) \in Workers
    <3>1. "excepted" \in Points /\ "excepted" \notin Ended
      BY DEF Points, Ended
    <3>2. process'[p] = [process[p] EXCEPT !.pc = "excepted"] /\ process'[p] \in ProcessRow /\ Only(p)
      BY <2>2, <3>1, GotoKeeps
    <3>3. /\ process'[p].pc = "excepted" /\ process'[p].task = Own(p)
          /\ process'[p].todo = process[p].todo /\ process'[p].head = process[p].head
      BY <1>1, <3>2 DEF ProcessRow, Own
    <3>4. Placed(process'[p])
      BY <1>3, <2>2, <3>3 DEF Placed, Handling, Handles, Current
    <3> QED BY <3>2, <3>4, RowChanges
  <2> QED BY <1>5, <2>1, <2>2 DEF CallRaises, EngineRefused
<1>6. CASE ParkNode(p)
  <2>1. "checkpoint" \in Points /\ "checkpoint" \notin Ended /\ Goto(p, "checkpoint")
    BY <1>6 DEF Points, Ended, ParkNode
  <2>2. process'[p] = [process[p] EXCEPT !.pc = "checkpoint"] /\ process'[p] \in ProcessRow /\ Only(p)
    BY <2>1, GotoKeeps
  <2>3. /\ process'[p].pc = "checkpoint" /\ process'[p].task = Own(p)
        /\ process'[p].todo = process[p].todo
        /\ process'[p].head = process[p].head /\ process'[p].exec = process[p].exec
    BY <1>1, <2>2 DEF ProcessRow, Own
  <2>4. process[p].exec \in Executions
    BY <1>1, <1>6 DEF ParkNode, At, Placed
  <2>5. Placed(process'[p])
    BY <1>3, <2>3, <2>4 DEF Placed, Handling, Handles
  <2> QED BY <2>2, <2>5, RowChanges
<1>7. CASE RecordVerdict(p)
  <2>1. "verdict" \in Points /\ "verdict" \notin Ended /\ Goto(p, "verdict")
    BY <1>7 DEF Points, Ended, RecordVerdict
  <2>2. process'[p] = [process[p] EXCEPT !.pc = "verdict"] /\ process'[p] \in ProcessRow /\ Only(p)
    BY <2>1, GotoKeeps
  <2>3. /\ process'[p].pc = "verdict" /\ process'[p].task = Own(p)
        /\ process'[p].todo = process[p].todo
        /\ process'[p].head = process[p].head /\ process'[p].verdict = process[p].verdict
    BY <1>1, <2>2 DEF ProcessRow, Own
  <2>4. process[p].verdict \in {"passed", "rejected", "stopped"}
    BY <1>1, <1>7 DEF RecordVerdict, Judged, Unauthenticated, CalledOff, At, Placed, ProcessRow,
       Verdicts
  <2>5. Placed(process'[p])
    BY <1>3, <2>3, <2>4 DEF Placed, Handling, Handles
  <2> QED BY <2>2, <2>5, RowChanges
<1>8. CASE Package(p)
  <2>1. process'[p] = [[process[p] EXCEPT !.verdict = "passed"] EXCEPT !.pc = "verdict"] /\ Only(p)
    BY <1>8 DEF Package, InPlace, Only
  <2>2. /\ process'[p] \in ProcessRow /\ process'[p].pc = "verdict" /\ process'[p].verdict = "passed"
        /\ process'[p].task = Own(p) /\ process'[p].todo = process[p].todo
        /\ process'[p].head = process[p].head
    BY <1>1, <2>1 DEF ProcessRow, Points, Verdicts, Own
  <2>3. Placed(process'[p])
    BY <1>3, <2>2 DEF Placed, Handling, Handles
  <2> QED BY <2>1, <2>2, <2>3, RowChanges
<1> QED BY <1>4, <1>5, <1>6, <1>7, <1>8

\* What follows the call.
LEMMA NodeEndsInPlace ==
  ASSUME InPlace, NEW p \in Processes,
         Commit(p) \/ Succeed(p) \/ Adopt(p)
  PROVE  InPlace'
<1>1. process[p] \in ProcessRow /\ Placed(process[p])
  BY DEF InPlace
<1>2. process[p].pc \in {"judge", "succeed", "adopt"} /\ Own(p) \in Tasks
  BY <1>1 DEF Commit, Succeed, Adopt, Judged, At, Placed, Own, Ended
<1>3. ASSUME NEW row, process' = [process EXCEPT ![p] = row]
      PROVE  process'[p] = row /\ Only(p)
  BY <1>3 DEF InPlace, Only
<1>4. ASSUME NEW pc \in {"succeed", "adopt", "integrated"}, Goto(p, pc),
             pc = "succeed" => /\ Handles(process[p]) /\ Current(p) \in Workers
                               /\ OnTaskBranch(Current(p)) => process[p].head \in Revisions,
             pc = "adopt" => /\ Handles(process[p]) /\ Current(p) \in Workers
                             /\ process[p].head \in Revisions,
             pc = "integrated" => Decomposed
      PROVE  InPlace'
  <2>1. pc \in Points /\ pc \notin Ended
    BY DEF Points, Ended
  <2>2. process'[p] = [process[p] EXCEPT !.pc = pc] /\ process'[p] \in ProcessRow /\ Only(p)
    BY <1>4, <2>1, GotoKeeps
  <2>3. /\ process'[p].pc = pc /\ process'[p].task = Own(p) /\ process'[p].todo = process[p].todo
        /\ process'[p].head = process[p].head
    BY <1>1, <2>2 DEF ProcessRow, Own
  <2>4. Placed(process'[p])
    BY <1>2, <1>4, <2>3 DEF Placed, Handling, Handles, Current
  <2> QED BY <2>2, <2>4, RowChanges
<1>5. ASSUME LeaveNode(p), Handles(process[p])
      PROVE  InPlace'
  <2> DEFINE pc == IF Len(process[p].todo) > 1 THEN "node" ELSE "join"
  <2>1. /\ process'[p] = [[process[p] EXCEPT !.todo = Tail(process[p].todo)] EXCEPT !.pc = pc]
        /\ Only(p)
    <3>1. process' = [process EXCEPT ![p] =
             [[process[p] EXCEPT !.todo = Tail(process[p].todo)] EXCEPT !.pc = pc]]
      BY <1>1, <1>5 DEF LeaveNode, InPlace, ProcessRow
    <3> QED BY <1>3, <3>1
  <2>2. /\ Tail(process[p].todo) \in Seq(Nodes \ {"integrate"}) /\ Tail(process[p].todo) \in Seq(Nodes)
        /\ pc = "node" => Tail(process[p].todo) # <<>>
    <3>1. /\ process[p].todo \in Seq(Nodes \ {"integrate"}) /\ process[p].todo # <<>>
          /\ process[p].todo \in Seq(Nodes)
      BY <1>1, <1>5 DEF Handles, ProcessRow
    <3>2. /\ Tail(process[p].todo) \in Seq(Nodes \ {"integrate"})
          /\ Tail(process[p].todo) \in Seq(Nodes)
      BY <3>1
    <3> DEFINE before == Len(process[p].todo)
               after  == Len(Tail(process[p].todo))
    <3>3. after = before - 1 /\ before \in Nat
      BY <3>1
    <3>4. before > 1 => Tail(process[p].todo) # <<>>
      <4>1. before > 1 => after # 0
        <5> HIDE DEF before, after
        <5> QED BY <3>3
      <4>2. Len(<<>>) = 0
        OBVIOUS
      <4> QED BY <4>1, <4>2, Zenon
    <3> QED BY <3>2, <3>4
  <2>3. /\ process'[p] \in ProcessRow /\ process'[p].pc = pc /\ process'[p].task = Own(p)
        /\ process'[p].todo = Tail(process[p].todo) /\ process'[p].head = process[p].head
        /\ pc \in {"node", "join"}
    BY <1>1, <2>1, <2>2 DEF ProcessRow, Own, Points
  <2> HIDE DEF pc
  <2>4. Placed(process'[p])
    BY <1>2, <1>5, <2>2, <2>3 DEF Placed, Handling, Handles, Ended
  <2> QED BY <2>1, <2>3, <2>4, RowChanges
<1>6. CASE Commit(p)
  <2>1. Handles(process[p]) /\ Current(p) \in Workers /\ At(p, "judge")
    BY <1>1, <1>6 DEF Commit, Judged, At, Placed, Handling
  <2>2. CASE OnTaskBranch(Current(p))
    <3> DEFINE new == worktree[Own(p)] + 1
    <3>1. /\ new \in Revisions /\ Only(p)
          /\ process'[p] = [[process[p] EXCEPT !.head = new] EXCEPT !.pc = "succeed"]
      BY <1>6, <2>2 DEF Commit, InPlace, Only
    <3> HIDE DEF new
    <3>2. /\ process'[p] \in ProcessRow /\ process'[p].pc = "succeed" /\ process'[p].task = Own(p)
          /\ process'[p].todo = process[p].todo /\ process'[p].head \in Revisions
      BY <1>1, <3>1 DEF ProcessRow, Own, Points
    <3>3. Placed(process'[p])
      BY <1>2, <2>1, <3>2 DEF Placed, Handling, Handles, Current
    <3> QED BY <3>1, <3>2, <3>3, RowChanges
  <2>3. CASE ~OnTaskBranch(Current(p))
    BY <1>4, <1>6, <2>1, <2>3 DEF Commit
  <2> QED BY <2>2, <2>3
<1>7. CASE Succeed(p)
  <2>1. /\ Handles(process[p]) /\ Current(p) \in Workers
        /\ OnTaskBranch(Current(p)) => process[p].head \in Revisions
    BY <1>1, <1>7 DEF Succeed, At, Placed, Handling, Current
  <2> QED BY <1>4, <1>5, <1>7, <2>1 DEF Succeed
<1>8. CASE Adopt(p)
  <2>1. \/ Current(p) = "integrate" /\ Decomposed
        \/ Handles(process[p]) /\ Current(p) \in Workers
    BY <1>1, <1>8 DEF Adopt, At, Placed, Current
  <2>2. CASE Current(p) = "integrate" /\ Decomposed
    <3>1. Current(p) # "repair" /\ Current(p) \notin Implementations
      BY <2>2, KnownNodes
    <3>2. Goto(p, "integrated")
      BY <1>8, <2>2, <3>1 DEF Adopt
    <3> QED BY <1>4, <2>2, <3>2
  <2>3. CASE Handles(process[p]) /\ Current(p) = "repair"
    <3>1. /\ process'[p] = [[process[p] EXCEPT !.todo = <<"verify", "review">>]
                                           EXCEPT !.pc = "requalify"]
          /\ Only(p)
      <4>1. Current(p) # "integrate" /\ Current(p) \notin Implementations
        BY <2>3, SubtasksAssumption
      <4>2. process' = [process EXCEPT ![p] =
              [[process[p] EXCEPT !.todo = <<"verify", "review">>] EXCEPT !.pc = "requalify"]]
        BY <1>1, <1>8, <2>3, <4>1 DEF Adopt, InPlace, ProcessRow
      <4> QED BY <1>3, <4>2
    <3>2. <<"verify", "review">> \in Seq(Nodes)
      BY KnownNodes
    <3>3. /\ process'[p] \in ProcessRow /\ process'[p].pc = "requalify" /\ process'[p].task = Own(p)
          /\ process'[p].todo = <<"verify", "review">>
      BY <1>1, <3>1, <3>2 DEF ProcessRow, Own, Points
    <3>4. Placed(process'[p])
      BY <1>2, <3>3 DEF Placed, Handling
    <3> QED BY <3>1, <3>3, <3>4, RowChanges
  <2>4. CASE Handles(process[p]) /\ Current(p) \in Implementations
    <3>1. Current(p) # "integrate" /\ Current(p) # "repair"
      BY <2>4, SubtasksAssumption
    <3>2. LeaveNode(p)
      BY <1>8, <2>4, <3>1 DEF Adopt
    <3> QED BY <1>5, <2>4, <3>2
  <2> QED BY <2>1, <2>2, <2>3, <2>4 DEF Workers
<1> QED BY <1>6, <1>7, <1>8

\* The re-qualification, the integration, and the commands that do not drive.
LEMMA RestInPlace ==
  ASSUME InPlace, TaskTypeOK, NEW p \in Processes,
         \/ Requalify(p) \/ Join(p) \/ RunIntegration(p) \/ Merge(p)
         \/ Unpark(p) \/ RereadForCancel(p)
  PROVE  InPlace'
<1>1. process[p] \in ProcessRow /\ Placed(process[p])
  BY DEF InPlace
<1>2. /\ process[p].pc \in {"requalify", "join", "integrate", "merge", "unpark", "reread"}
      /\ Own(p) \in Tasks /\ Live(p)
  BY <1>1 DEF Requalify, Join, RunIntegration, Merge, Unpark, RereadForCancel, At, Placed, Own,
     Ended, Live
<1>3. Only(p)
  BY DEF InPlace, Only, Requalify, Join, RunIntegration, Merge, Unpark, RereadForCancel, Goto
<1>4. CASE Requalify(p)
  <2> DEFINE pc == IF Current(p) = "review" THEN "advance" ELSE "requalify"
  <2>1. process'[p] = [[[process[p] EXCEPT !.todo = Tail(process[p].todo)]
                                    EXCEPT !.from = "repairing"] EXCEPT !.pc = pc]
    <3>1. process' = [process EXCEPT ![p] =
             [[[process[p] EXCEPT !.todo = Tail(process[p].todo)]
                           EXCEPT !.from = "repairing"] EXCEPT !.pc = pc]]
      BY <1>1, <1>4 DEF Requalify, InPlace, ProcessRow
    <3> QED BY <3>1 DEF InPlace
  <2>2. process[p].todo \in {<<"verify", "review">>, <<"review">>}
    BY <1>1, <1>4 DEF Requalify, At, Placed
  <2>3. /\ Tail(process[p].todo) \in Seq(Nodes)
        /\ pc = "requalify" => Tail(process[p].todo) = <<"review">>
    <3>1. CASE process[p].todo = <<"verify", "review">>
      <4>1. Tail(process[p].todo) = <<"review">> /\ <<"review">> \in Seq(Nodes)
        BY <3>1, KnownNodes
      <4> QED BY <4>1
    <3>2. CASE process[p].todo = <<"review">>
      <4>1. Tail(process[p].todo) = <<>> /\ <<>> \in Seq(Nodes) /\ Current(p) = "review"
        BY <3>2 DEF Current
      <4> QED BY <4>1
    <3> QED BY <2>2, <3>1, <3>2
  <2>4. /\ process'[p] \in ProcessRow /\ process'[p].pc = pc /\ process'[p].task = Own(p)
        /\ process'[p].todo = Tail(process[p].todo) /\ pc \in {"advance", "requalify"}
    BY <1>1, <2>1, <2>3 DEF ProcessRow, Own, Points, States, Working
  <2>5. Placed(process'[p])
    BY <1>2, <2>3, <2>4 DEF Placed, Handling
  <2> QED BY <1>3, <2>4, <2>5, RowChanges
<1>5. ASSUME NEW from \in States, NEW pc \in {"look", "returned", "integrate", "advance", "cancel"},
             process' = [process EXCEPT ![p] = Then([process[p] EXCEPT !.from = from], pc)],
             pc = "integrate" => Decomposed
      PROVE  InPlace'
  <2> DEFINE mine == [process[p] EXCEPT !.from = from]
  <2>1. mine \in ProcessRow /\ mine.task = Own(p) /\ pc \in Points
    BY <1>1 DEF ProcessRow, Points, Ended, Own
  <2> HIDE DEF mine
  <2>2. CASE pc \in Ended
    BY <1>5, <2>1, <2>2, ThenType, RowBecomes DEF mine
  <2>3. CASE pc \notin Ended
    <3>1. Then(mine, pc) = [mine EXCEPT !.pc = pc] /\ Then(mine, pc) \in ProcessRow
      BY <2>1, <2>3, ThenType
    <3>2. Then(mine, pc).pc = pc /\ Then(mine, pc).task = Own(p)
      BY <2>1, <3>1 DEF ProcessRow
    <3>3. Placed(Then(mine, pc))
      BY <1>2, <1>5, <2>3, <3>2 DEF Placed, Handling
    <3> QED BY <1>5, <3>1, <3>3, RowBecomes DEF mine
  <2> QED BY <2>2, <2>3
<1>6. CASE Join(p)
  <2>1. "implementing" \in States
    BY DEF States, Working
  <2> DEFINE done == \A n \in Implementations : node[Own(p)][n].status = "succeeded"
             pc == CASE task[Own(p)].state # "implementing"          -> "look"
                     [] task[Own(p)].state = "implementing" /\ ~done -> "returned"
                     [] OTHER -> IF Decomposed /\ node[Own(p)]["integrate"].status # "succeeded"
                                 THEN "integrate" ELSE "advance"
  <2>2. process' = [process EXCEPT ![p] = Then([process[p] EXCEPT !.from = "implementing"], pc)]
    BY <1>6 DEF Join, InPlace
  <2>3. /\ pc \in {"look", "returned", "integrate", "advance", "cancel"}
        /\ pc = "integrate" => Decomposed
    OBVIOUS
  <2> HIDE DEF pc
  <2> QED BY <1>5, <2>1, <2>2, <2>3
<1>7. CASE RereadForCancel(p)
  <2> DEFINE pc == IF task[Own(p)].state \in Settled THEN "returned" ELSE "cancel"
  <2>1. task[Own(p)].state \in States
    BY <1>2 DEF TaskTypeOK, TaskRow
  <2>2. process' = [process EXCEPT ![p] = Then([process[p] EXCEPT !.from = task[Own(p)].state], pc)]
    BY <1>7 DEF RereadForCancel, InPlace
  <2>3. pc \in {"look", "returned", "integrate", "advance", "cancel"} /\ pc # "integrate"
    OBVIOUS
  <2> HIDE DEF pc
  <2> QED BY <1>5, <2>1, <2>2, <2>3
<1>8. CASE RunIntegration(p)
  <2>1. Decomposed /\ <<"integrate">> \in Seq(Nodes)
    <3>1. Decomposed
      BY <1>1, <1>8 DEF RunIntegration, At, Placed
    <3>2. "integrate" \in Nodes
      BY <3>1, KnownNodes
    <3> QED BY <3>1, <3>2
  <2>2. process'[p] = [[process[p] EXCEPT !.todo = <<"integrate">>] EXCEPT !.pc = "merge"]
    BY <1>8 DEF RunIntegration, InPlace
  <2>3. /\ process'[p] \in ProcessRow /\ process'[p].pc = "merge" /\ process'[p].task = Own(p)
        /\ process'[p].todo = <<"integrate">>
    BY <1>1, <2>1, <2>2 DEF ProcessRow, Own, Points
  <2>4. Placed(process'[p])
    BY <1>2, <2>1, <2>3 DEF Placed, Handling
  <2> QED BY <1>3, <2>3, <2>4, RowChanges
<1>9. CASE Merge(p)
  <2> DEFINE new == worktree[Own(p)] + 1
  <2>1. /\ new \in Revisions /\ process[p].todo = <<"integrate">> /\ Decomposed
        /\ process'[p] = [[process[p] EXCEPT !.head = new] EXCEPT !.pc = "adopt"]
    BY <1>1, <1>9 DEF Merge, InPlace, At, Placed
  <2> HIDE DEF new
  <2>2. /\ process'[p] \in ProcessRow /\ process'[p].pc = "adopt" /\ process'[p].task = Own(p)
        /\ process'[p].todo = <<"integrate">> /\ process'[p].head \in Revisions
    BY <1>1, <2>1 DEF ProcessRow, Own, Points
  <2>3. Placed(process'[p])
    BY <1>2, <2>1, <2>2 DEF Placed, Handling
  <2> QED BY <1>3, <2>2, <2>3, RowChanges
<1>10. CASE Unpark(p)
  <2>1. "restore" \in Points /\ "restore" \notin Ended /\ Goto(p, "restore") /\ process[p].todo # <<>>
    BY <1>1, <1>10 DEF Points, Ended, Unpark, At, Placed
  <2>2. process'[p] = [process[p] EXCEPT !.pc = "restore"] /\ process'[p] \in ProcessRow
    BY <2>1, GotoKeeps
  <2>3. /\ process'[p].pc = "restore" /\ process'[p].task = Own(p)
        /\ process'[p].todo = process[p].todo /\ process'[p].head = process[p].head
    BY <1>1, <2>2 DEF ProcessRow, Own
  <2>4. Placed(process'[p])
    BY <1>2, <2>1, <2>3 DEF Placed, Handling
  <2> QED BY <1>3, <2>2, <2>4, RowChanges
<1> QED BY <1>4, <1>6, <1>7, <1>8, <1>9, <1>10

\* The steps after which a process holds nothing but its task.
PlainStep(p) ==
  \/ CreateWorkspace(p) \/ RecordWorkspace(p) \/ OpenWorkspace(p)
  \/ Inspect(p) \/ ReconcileFound(p) \/ RestoreNode(p) \/ CancelTask(p)
  \/ Advance(p) \/ Block(p) \/ SkipParkedNode(p) \/ FailAssignment(p)
  \/ Checkpoint(p) \/ CallOff(p) \/ GiveUp(p) \/ RefuseMerge(p) \/ Integrated(p)
  \/ SettleNode(p) \/ CountRejection(p) \/ Fail(p)

\* They leave it in place.
LEMMA PlainInPlace ==
  ASSUME InPlace, NEW p \in Processes, PlainStep(p)
  PROVE  InPlace'
<1>1. Live(p)
  BY DEF PlainStep, CreateWorkspace, RecordWorkspace, OpenWorkspace, Inspect, ReconcileFound,
     RestoreNode, CancelTask, Advance, Block, SkipParkedNode, FailAssignment, Checkpoint, CallOff,
     GiveUp, Judged, RefuseMerge, Integrated, SettleNode, CountRejection, Fail, At, Live, Ended
<1>2. SettleNode(p) => Goto(p, "advance") \/ Goto(p, "count") \/ Goto(p, "block")
  <2>1. SettleNode(p) => process[p].verdict \in {"passed", "rejected", "stopped"}
    BY DEF SettleNode, At, InPlace, Placed
  <2> QED BY <2>1 DEF SettleNode
<1>3. \E pc \in Plain : Goto(p, pc)
  BY <1>2 DEF PlainStep, CreateWorkspace, RecordWorkspace, OpenWorkspace, Inspect, ReconcileFound,
     RestoreNode, CancelTask, Advance, Block, SkipParkedNode, FailAssignment, Checkpoint, CallOff,
     GiveUp, RefuseMerge, Integrated, CountRejection, Fail, Plain, Ended
<1> QED BY <1>1, <1>3, GotoPlain

\* Whatever step a process takes.
LEMMA InPlaceStep ==
  ASSUME InPlace, TaskTypeOK, HeadsKnown, GraphTables, [WorkflowNext]_workflowVars
  PROVE  InPlace'
<1>1. CASE UNCHANGED process
  BY <1>1 DEF InPlace, Placed, Handles
<1>2. ASSUME NEW p \in Processes, Begin(p) PROVE InPlace'
  BY <1>2, BeginInPlace DEF Begin
<1>3. ASSUME NEW p \in Processes, Step(p) \/ Fail(p) PROVE InPlace'
  <2>1. CASE PlainStep(p)
    BY <2>1, PlainInPlace
  <2>2. CASE Look(p)
    BY <2>2, LookInPlace
  <2>3. CASE ResetNode(p) \/ RunNode(p) \/ Reserve(p) \/ StartCall(p)
    BY <2>3, NodeInPlace
  <2>4. CASE \/ \E report \in Reports : CallReturns(p, report)
             \/ CallRaises(p) \/ EngineRefused(p) \/ ParkNode(p)
             \/ RecordVerdict(p) \/ Package(p)
    BY <2>4, CallInPlace
  <2>5. CASE Commit(p) \/ Succeed(p) \/ Adopt(p)
    BY <2>5, NodeEndsInPlace
  <2>6. CASE \/ Requalify(p) \/ Join(p) \/ RunIntegration(p) \/ Merge(p)
             \/ Unpark(p) \/ RereadForCancel(p)
    BY <2>6, RestInPlace
  <2> QED BY <1>3, <2>1, <2>2, <2>3, <2>4, <2>5, <2>6 DEF Step, Engine, PlainStep
<1> QED BY <1>1, <1>2, <1>3 DEF WorkflowNext, Submit, workflowVars

-----------------------------------------------------------------------------
(* What a step of the workflow is to the store.                            *)

\* Every call a process makes is an operation of the store.
LEMMA CallsAreOperations ==
  ASSUME InPlace, TaskTypeOK, NEW p \in Processes, Step(p)
  PROVE  [AuthNext]_allVars \/ Beyond
<1>1. process[p] \in ProcessRow /\ Placed(process[p])
  BY DEF InPlace
<1>2. ASSUME TaskNext, OnTaskOnly PROVE [AuthNext]_allVars
  BY <1>2 DEF AuthNext, StoreNext, OnTaskOnly
<1>3. ASSUME LedgerNext, OnLedgerOnly PROVE [AuthNext]_allVars
  BY <1>3 DEF AuthNext, StoreNext, OnLedgerOnly
<1>4. process[p].pc \notin Ended \cup {"ready"} => Own(p) \in Tasks
  BY <1>1 DEF Placed, Own
<1>5. ASSUME NEW from \in States, NEW to, Transition(Own(p), from, to), OnTaskOnly, Own(p) \in Tasks
      PROVE  [AuthNext]_allVars
  <2>1. to \in States
    BY <1>5 DEF Transition, Transitions, Onward, Working, States
  <2>2. TaskNext
    BY <1>5, <2>1 DEF TaskNext
  <2> QED BY <1>2, <1>5, <2>2
<1>6. ASSUME \/ RecordWorkspace(p) \/ OpenWorkspace(p) \/ CancelTask(p) \/ Advance(p) \/ Block(p)
      PROVE  [AuthNext]_allVars
  <2>1. Own(p) \in Tasks
    BY <1>4, <1>6 DEF RecordWorkspace, OpenWorkspace, CancelTask, Advance, Block, At, Ended
  <2>2. process[p].from \in States /\ "contracted" \in States
    BY <1>1 DEF ProcessRow, States, Working
  <2>3. ASSUME RecordWorkspace(p) PROVE [AuthNext]_allVars
    <3>1. TaskNext
      BY <2>1, <2>3, WorkflowAssumption DEF RecordWorkspace, TaskNext
    <3> QED BY <1>2, <2>3, <3>1 DEF RecordWorkspace
  <2>4. ASSUME OpenWorkspace(p) \/ CancelTask(p) \/ Block(p) PROVE [AuthNext]_allVars
    BY <1>5, <2>1, <2>2, <2>4 DEF OpenWorkspace, CancelTask, Block
  <2>5. ASSUME Advance(p) PROVE [AuthNext]_allVars
    BY <1>5, <2>1, <2>2, <2>5 DEF Advance
  <2> QED BY <1>6, <2>3, <2>4, <2>5
<1>7. ASSUME ReconcileFound(p) PROVE [AuthNext]_allVars
  <2>1. CASE ReconcileActive
    BY <1>3, <1>7, <2>1 DEF ReconcileFound, LedgerNext
  <2>2. CASE UNCHANGED storeVars
    BY <1>7, <2>2 DEF ReconcileFound, OnLedgerOnly, allVars
  <2> QED BY <1>7, <2>1, <2>2 DEF ReconcileFound
<1>8. ASSUME Unpark(p) PROVE [AuthNext]_allVars
  <2>1. Own(p) \in Tasks
    BY <1>4, <1>8 DEF Unpark, At, Ended
  <2> QED BY <1>8, <2>1 DEF Unpark, AuthNext, AuthActions
<1>9. ASSUME Reserve(p) \/ StartCall(p) PROVE [AuthNext]_allVars
  <2>1. Own(p) \in Tasks
    BY <1>4, <1>9 DEF Reserve, StartCall, At, Ended
  <2>2. NodeRole(Current(p)) \in Roles
    BY DEF NodeRole, Roles, RoleState
  <2>3. StartCall(p) => Call(p) \in Executions
    BY <1>1 DEF StartCall, At, Placed, Call
  <2>4. LedgerNext
    BY <1>9, <2>1, <2>2, <2>3 DEF Reserve, StartCall, LedgerNext
  <2> QED BY <1>3, <1>9, <2>4 DEF Reserve, StartCall
<1>10. ASSUME (\E report \in Reports : CallReturns(p, report)) \/ CallRaises(p)
       PROVE  Beyond
  <2>1. Call(p) \in Executions
    BY <1>1, <1>10 DEF CallReturns, CallRaises, At, Placed, Call
  <2>2. Reports \subseteq AnyReport
    BY ReportsAssumption DEF AnyReport
  <2>3. [status |-> "failed", elapsed |-> 0, result |-> "other"] \in AnyReport
    BY DEF AnyReport, Outcomes, Results
  <2>4. CASE \E report \in Reports : CallReturns(p, report)
    BY <2>1, <2>2, <2>4 DEF CallReturns, Beyond, OnLedgerOnly
  <2>5. CASE CallRaises(p)
    BY <2>1, <2>3, <2>5 DEF CallRaises, Beyond, OnLedgerOnly
  <2> QED BY <1>10, <2>4, <2>5
<1>11. ASSUME Checkpoint(p) PROVE [AuthNext]_allVars
  <2> DEFINE checks == {v.id : v \in {w \in evidence :
                          /\ w.task = Own(p) /\ w.kind = "independent-check" /\ w.status = "passed"
                          /\ w.revision = process[p].head /\ ~w.stale}}
  <2>1. Own(p) \in Tasks /\ Call(p) \in Executions
    BY <1>1, <1>4, <1>11 DEF Checkpoint, At, Ended, Placed, Call
  <2>2. checks \in SUBSET EvidenceIds
    BY DEF TaskTypeOK, EvidenceRow
  <2>3. PICK c \in Contexts, s \in Sessions :
          CheckpointAuthentication(Own(p), Call(p), c, s, IF Current(p) = "review" THEN checks ELSE {})
    BY <1>11 DEF Checkpoint
  <2> HIDE DEF checks
  <2>4. (IF Current(p) = "review" THEN checks ELSE {}) \in SUBSET EvidenceIds
    BY <2>2
  <2> QED BY <2>1, <2>3, <2>4 DEF AuthNext, AuthActions
<1>12. ASSUME Adopt(p) PROVE [AuthNext]_allVars
  <2>1. Own(p) \in Tasks /\ process[p].head \in Revisions
    BY <1>1, <1>4, <1>12 DEF Adopt, At, Ended, Placed
  <2>2. TaskNext
    BY <1>12, <2>1 DEF Adopt, TaskNext
  <2> QED BY <1>2, <1>12, <2>2 DEF Adopt
<1>13. ASSUME RecordVerdict(p) \/ Package(p) PROVE [AuthNext]_allVars
  <2>1. /\ Own(p) \in Tasks /\ process[p].head \in Revisions /\ process[p].repairs \in 0..2
    BY <1>1, <1>4, <1>13 DEF RecordVerdict, Judged, Package, At, Ended, Placed, Handling, Handles,
       ProcessRow
  <2>2. ASSUME RecordVerdict(p) PROVE TaskNext
    <3> DEFINE kind == QualityKind[Current(p)]
               status == IF process[p].verdict = "passed" THEN "passed" ELSE "failed"
    <3>1. kind \in EvidenceKinds
      BY <2>2 DEF RecordVerdict, QualityKind, EvidenceKinds
    <3>2. status \in EvidenceStatuses
      BY DEF EvidenceStatuses
    <3>3. AddEvidence(Own(p), <<kind, process[p].repairs>>, process[p].head, kind, status)
      BY <2>2 DEF RecordVerdict
    <3> HIDE DEF kind, status
    <3>4. <<kind, process[p].repairs>> \in EvidenceIds
      BY <2>1, <3>1, WorkflowAssumption
    <3> QED BY <2>1, <3>1, <3>2, <3>3, <3>4 DEF TaskNext
  <2>3. ASSUME Package(p) PROVE TaskNext
    <3>1. /\ "approval-package" \in EvidenceKinds /\ "passed" \in EvidenceStatuses
          /\ <<"approval-package", 0>> \in EvidenceIds
      BY WorkflowAssumption DEF EvidenceKinds, EvidenceStatuses
    <3> QED BY <2>1, <2>3, <3>1 DEF Package, TaskNext
  <2> QED BY <1>2, <1>13, <2>2, <2>3 DEF RecordVerdict, Package
<1>14. ASSUME CountRejection(p) PROVE [AuthNext]_allVars
  <2>1. Own(p) \in Tasks
    BY <1>4, <1>14 DEF CountRejection, At, Ended
  <2>2. TaskNext
    BY <1>14, <2>1 DEF CountRejection, TaskNext
  <2> QED BY <1>2, <1>14, <2>2 DEF CountRejection
<1>15. ASSUME \/ CreateWorkspace(p) \/ Inspect(p) \/ RestoreNode(p) \/ RereadForCancel(p) \/ Look(p)
              \/ ResetNode(p) \/ SkipParkedNode(p) \/ RunNode(p) \/ EngineRefused(p)
              \/ FailAssignment(p) \/ ParkNode(p) \/ CallOff(p) \/ GiveUp(p) \/ Commit(p) \/ Succeed(p)
              \/ Requalify(p) \/ Join(p) \/ RunIntegration(p) \/ Merge(p) \/ RefuseMerge(p)
              \/ Integrated(p) \/ SettleNode(p)
       PROVE  [AuthNext]_allVars
  <2>1. UNCHANGED allVars
    BY <1>15 DEF CreateWorkspace, Inspect, RestoreNode, RereadForCancel, Look, ResetNode,
       SkipParkedNode, RunNode, EngineRefused, FailAssignment, ParkNode, CallOff, GiveUp, Commit,
       Succeed, Requalify, Join, RunIntegration, Merge, RefuseMerge, Integrated, SettleNode,
       NoStoreChange, OnNodeOnly
  <2> QED BY <2>1
<1> QED BY <1>6, <1>7, <1>8, <1>9, <1>10, <1>11, <1>12, <1>13, <1>14, <1>15 DEF Step, Engine

LEMMA StepOfTheStore ==
  ASSUME InPlace, TaskTypeOK, [WorkflowNext]_workflowVars
  PROVE  [AuthNext]_allVars \/ Beyond
<1>1. ASSUME NEW t \in Tasks, Submit(t) PROVE Beyond
  BY <1>1 DEF Beyond
<1>2. ASSUME NEW p \in Processes, Begin(p) PROVE UNCHANGED allVars \/ Beyond
  BY <1>2 DEF Begin, BeginStart, BeginResume, BeginCancel, NoStoreChange, Beyond
<1>3. ASSUME NEW p \in Processes, Fail(p) PROVE UNCHANGED allVars
  BY <1>3 DEF Fail, NoStoreChange
<1>4. LoginActions => AuthNext
  BY DEF AuthNext, AuthActions
<1>5. UNCHANGED workflowVars => UNCHANGED allVars
  BY DEF workflowVars
<1> HIDE DEF Beyond
<1> QED BY <1>1, <1>2, <1>3, <1>4, <1>5, CallsAreOperations DEF WorkflowNext

-----------------------------------------------------------------------------
(* What a step does to the nodes.                                          *)

\* Where a process has its node running.
Held == InHand \cup {"package"}

\* Where a process that was started has none.
Idle == Points \ (Held \cup {"ready"})

LEMMA GotoGoes ==
  ASSUME InPlace, NEW p \in Processes, NEW pc \in Points, Goto(p, pc)
  PROVE  /\ Goes(p, {pc})
         /\ pc \notin Ended => process'[p].task = Own(p) /\ process'[p].todo = process[p].todo
<1>1. process[p] \in ProcessRow
  BY DEF InPlace
<1>2. pc \notin Ended => process'[p].task = Own(p) /\ process'[p].todo = process[p].todo
  <2>1. pc \notin Ended => process'[p] = [process[p] EXCEPT !.pc = pc]
    BY GotoKeeps
  <2> QED BY <1>1, <2>1 DEF ProcessRow, Own
<1> QED BY <1>2, GotoKeeps DEF Goes

\* Join and the reread before a cancellation.
LEMMA RereadGoes ==
  ASSUME InPlace, NEW p \in Processes, Join(p) \/ RereadForCancel(p)
  PROVE  Goes(p, {"look", "returned", "integrate", "advance", "cancel"})
<1>1. process[p] \in ProcessRow
  BY DEF InPlace
<1>2. ASSUME NEW from, NEW pc \in {"look", "returned", "integrate", "advance", "cancel"},
             process' = [process EXCEPT ![p] = Then([process[p] EXCEPT !.from = from], pc)]
      PROVE  Goes(p, {"look", "returned", "integrate", "advance", "cancel"})
  <2> DEFINE mine == [process[p] EXCEPT !.from = from]
  <2>1. process'[p] = Then(mine, pc) /\ Only(p)
    BY <1>2 DEF InPlace, Only
  <2>2. mine.late = process[p].late
    BY <1>1 DEF ProcessRow
  <2>3. Then(mine, pc).pc = pc /\ Then(mine, pc).late = mine.late
    <3>1. CASE pc \in Ended
      BY <3>1, UnstartedType DEF Then, ProcessRow
    <3>2. CASE pc \notin Ended
      BY <1>1, <3>2 DEF Then, ProcessRow
    <3> QED BY <3>1, <3>2
  <2> HIDE DEF mine
  <2> QED BY <2>1, <2>2, <2>3 DEF Goes
<1>3. CASE Join(p)
  <2> DEFINE done == \A n \in Implementations : node[Own(p)][n].status = "succeeded"
             pc == CASE task[Own(p)].state # "implementing"          -> "look"
                     [] task[Own(p)].state = "implementing" /\ ~done -> "returned"
                     [] OTHER -> IF Decomposed /\ node[Own(p)]["integrate"].status # "succeeded"
                                 THEN "integrate" ELSE "advance"
  <2>1. process' = [process EXCEPT ![p] = Then([process[p] EXCEPT !.from = "implementing"], pc)]
    BY <1>3 DEF Join, InPlace
  <2>2. pc \in {"look", "returned", "integrate", "advance", "cancel"}
    OBVIOUS
  <2> HIDE DEF pc
  <2> QED BY <1>2, <2>1, <2>2
<1>4. CASE RereadForCancel(p)
  <2> DEFINE pc == IF task[Own(p)].state \in Settled THEN "returned" ELSE "cancel"
  <2>1. process' = [process EXCEPT ![p] = Then([process[p] EXCEPT !.from = task[Own(p)].state], pc)]
    BY <1>4 DEF RereadForCancel, InPlace
  <2>2. pc \in {"look", "returned", "integrate", "advance", "cancel"}
    OBVIOUS
  <2> HIDE DEF pc
  <2> QED BY <1>2, <2>1, <2>2
<1> QED BY <1>3, <1>4

LEMMA LeaveGoes ==
  ASSUME InPlace, NEW p \in Processes, LeaveNode(p)
  PROVE  Goes(p, {"node", "join"})
<1> DEFINE pc == IF Len(process[p].todo) > 1 THEN "node" ELSE "join"
<1>1. process[p] \in ProcessRow
  BY DEF InPlace
<1>2. process' = [process EXCEPT ![p] =
         [[process[p] EXCEPT !.todo = Tail(process[p].todo)] EXCEPT !.pc = pc]]
  BY <1>1 DEF LeaveNode, InPlace, ProcessRow
<1>3. pc \in {"node", "join"}
  OBVIOUS
<1> HIDE DEF pc
<1>4. process'[p].pc = pc /\ process'[p].late = process[p].late /\ Only(p)
  BY <1>1, <1>2 DEF InPlace, ProcessRow, Only
<1> QED BY <1>3, <1>4 DEF Goes

\* The four things a step may do: nothing to the nodes and without one in
\* hand afterwards; nothing to them, with the one that was in hand; start one;
\* or move one, most often that in hand, and have none afterwards.
StandsBy(p) == UNCHANGED node /\ Goes(p, Idle)

WorksOn(p) ==
  /\ UNCHANGED node /\ Only(p)
  /\ process[p].pc \in Held /\ process'[p].pc \in Held
  /\ process'[p].task = Own(p) /\ process'[p].todo = process[p].todo
  /\ process'[p].late = process[p].late \/ StartCall(p)

Takes(p) ==
  /\ Goes(p, Points \ {"ready"}) /\ UNCHANGED cancelRequested
  /\ \E n \in Nodes :
       /\ MoveNode(Own(p), n, "running", NoExec)
       /\ process'[p].pc \in Held => process'[p].task = Own(p) /\ Head(process'[p].todo) = n

LetsGo(p) ==
  /\ Goes(p, Idle) /\ UNCHANGED cancelRequested
  /\ \E n \in Nodes, target \in NodeStatuses, e \in Executions \cup {NoExec} :
       /\ MoveNode(Own(p), n, target, e)
       /\ \/ target = "pending" \/ n = "integrate"
          \/ process[p].pc \in Held /\ n = Current(p)

\* The steps that stand by.
Quiet(p) ==
  \/ CreateWorkspace(p) \/ RecordWorkspace(p) \/ OpenWorkspace(p) \/ Inspect(p)
  \/ ReconcileFound(p) \/ Unpark(p) \/ RereadForCancel(p) \/ CancelTask(p)
  \/ Look(p) \/ Advance(p) \/ Block(p) \/ SkipParkedNode(p) \/ Checkpoint(p)
  \/ Adopt(p) \/ Join(p) \/ Merge(p) \/ CountRejection(p) \/ Fail(p)

LEMMA QuietStands ==
  ASSUME InPlace, TaskTypeOK, HeadsKnown, GraphTables, NEW p \in Processes, Quiet(p)
  PROVE  StandsBy(p)
<1>1. process[p] \in ProcessRow /\ Placed(process[p])
  BY DEF InPlace
<1>2. UNCHANGED node
  BY DEF Quiet, CreateWorkspace, RecordWorkspace, OpenWorkspace, Inspect, ReconcileFound, Unpark,
     RereadForCancel, CancelTask, Look, Advance, Block, SkipParkedNode, Checkpoint, Adopt, Join,
     Merge, CountRejection, Fail, OnTaskOnly, OnLedgerOnly, NoStoreChange, NoGraphChange, graphVars
<1>3. ASSUME NEW pc \in Idle, Goto(p, pc) PROVE StandsBy(p)
  BY <1>2, <1>3, GotoGoes DEF StandsBy, Goes, Idle
<1>4. Ended \subseteq Idle
  BY DEF Ended, Idle, Points, Held, InHand
<1>5. {"record", "open", "inspect", "reconcile", "look", "restore", "join", "advance", "returned",
       "failed", "cancel", "integrated", "requalify", "integrate", "node", "adopt"} \subseteq Idle
  BY DEF Ended, Idle, Points, Held, InHand
<1>6. ASSUME \/ CreateWorkspace(p) \/ RecordWorkspace(p) \/ OpenWorkspace(p) \/ Inspect(p)
             \/ ReconcileFound(p) \/ Unpark(p) \/ CancelTask(p) \/ Advance(p) \/ Block(p)
             \/ SkipParkedNode(p) \/ Checkpoint(p) \/ CountRejection(p) \/ Fail(p)
      PROVE  StandsBy(p)
  <2>1. \E pc \in Idle : Goto(p, pc)
    BY <1>5, <1>6 DEF CreateWorkspace, RecordWorkspace, OpenWorkspace, Inspect, ReconcileFound,
       Unpark, CancelTask, Advance, Block, SkipParkedNode, Checkpoint, CountRejection, Fail
  <2> QED BY <1>3, <2>1
<1>7. ASSUME Join(p) \/ RereadForCancel(p) PROVE StandsBy(p)
  BY <1>2, <1>5, <1>7, RereadGoes DEF StandsBy, Goes
<1>8. ASSUME Look(p) PROVE StandsBy(p)
  BY <1>2, <1>5, <1>8, LookInPlace DEF StandsBy, Goes
<1>9. ASSUME Merge(p) PROVE StandsBy(p)
  <2>1. process'[p].pc = "adopt" /\ process'[p].late = process[p].late /\ Only(p)
    BY <1>1, <1>9 DEF Merge, InPlace, ProcessRow, Only
  <2> QED BY <1>2, <1>5, <2>1 DEF StandsBy, Goes
<1>10. ASSUME Adopt(p) PROVE StandsBy(p)
  <2>1. Current(p) \in {"integrate", "repair"} \cup Implementations
    BY <1>1, <1>10 DEF Adopt, At, Placed, Current, Workers
  <2>2. /\ "integrate" \notin Implementations /\ "repair" \notin Implementations
    BY SubtasksAssumption
  <2>3. CASE Current(p) = "integrate"
    <3>1. Goto(p, "integrated")
      BY <1>10, <2>2, <2>3 DEF Adopt
    <3> QED BY <1>3, <1>5, <3>1
  <2>4. CASE Current(p) = "repair"
    <3>1. process' = [process EXCEPT ![p] =
            [[process[p] EXCEPT !.todo = <<"verify", "review">>] EXCEPT !.pc = "requalify"]]
      BY <1>1, <1>10, <2>2, <2>4 DEF Adopt, InPlace, ProcessRow
    <3>2. process'[p].pc = "requalify" /\ process'[p].late = process[p].late /\ Only(p)
      BY <1>1, <3>1 DEF InPlace, ProcessRow, Only
    <3> QED BY <1>2, <1>5, <3>2 DEF StandsBy, Goes
  <2>5. CASE Current(p) \in Implementations
    <3>1. LeaveNode(p)
      BY <1>10, <2>2, <2>5 DEF Adopt
    <3> QED BY <1>2, <1>5, <3>1, LeaveGoes DEF StandsBy, Goes
  <2> QED BY <2>1, <2>3, <2>4, <2>5
<1> QED BY <1>6, <1>7, <1>8, <1>9, <1>10 DEF Quiet

\* The steps around a call.
LEMMA CallWorksOn ==
  ASSUME InPlace, NEW p \in Processes,
         \/ Reserve(p) \/ StartCall(p) \/ (\E report \in Reports : CallReturns(p, report))
         \/ CallRaises(p) \/ EngineRefused(p) \/ Commit(p) \/ RecordVerdict(p) \/ Package(p)
  PROVE  StandsBy(p) \/ WorksOn(p)
<1>1. process[p] \in ProcessRow
  BY DEF InPlace
<1>2. UNCHANGED node
  BY DEF Reserve, StartCall, CallReturns, CallRaises, EngineRefused, Commit, RecordVerdict, Package,
     OnTaskOnly, OnLedgerOnly, NoStoreChange, NoGraphChange, graphVars
<1>3. process[p].pc \in Held
  BY DEF Reserve, StartCall, CallReturns, CallRaises, EngineRefused, Commit, RecordVerdict, Package,
     Judged, At, Held, InHand
<1>4. ASSUME NEW pc \in Held, Goto(p, pc) PROVE WorksOn(p)
  <2>1. pc \in Points /\ pc \notin Ended
    BY DEF Held, InHand, Points, Ended
  <2>2. Goes(p, {pc}) /\ process'[p].task = Own(p) /\ process'[p].todo = process[p].todo
    BY <1>4, <2>1, GotoGoes
  <2> QED BY <1>2, <1>3, <2>2 DEF WorksOn, Goes
<1>5. ASSUME NEW row, process' = [process EXCEPT ![p] = row], row.pc \in Held,
             row.task = Own(p), row.todo = process[p].todo,
             row.late = process[p].late \/ StartCall(p)
      PROVE  WorksOn(p)
  BY <1>2, <1>3, <1>5 DEF WorksOn, InPlace, Only
<1>6. CASE Reserve(p)
  <2> DEFINE row(e) == [[process[p] EXCEPT !.exec = e] EXCEPT !.pc = "start"]
  <2>1. PICK e \in Executions : process' = [process EXCEPT ![p] = row(e)]
    BY <1>1, <1>6 DEF Reserve, InPlace, ProcessRow
  <2>2. /\ row(e).pc \in Held /\ row(e).task = Own(p) /\ row(e).todo = process[p].todo
        /\ row(e).late = process[p].late
    BY <1>1 DEF ProcessRow, Held, InHand, Own
  <2> HIDE DEF row
  <2> QED BY <1>5, <2>1, <2>2
<1>7. CASE StartCall(p)
  <2> DEFINE late == IF cancelRequested[Own(p)] THEN process[p].late + 1 ELSE process[p].late
             row  == [[process[p] EXCEPT !.pc = "call"] EXCEPT !.late = late]
  <2>1. process' = [process EXCEPT ![p] = row]
    BY <1>1, <1>7 DEF StartCall, InPlace, ProcessRow
  <2>2. row.pc \in Held /\ row.task = Own(p) /\ row.todo = process[p].todo
    BY <1>1 DEF ProcessRow, Held, InHand, Own
  <2> HIDE DEF row
  <2> QED BY <1>5, <1>7, <2>1, <2>2
<1>8. CASE \E report \in Reports : CallReturns(p, report)
  <2> DEFINE row(v) == [[process[p] EXCEPT !.verdict = v] EXCEPT !.pc = "judge"]
  <2>1. PICK v \in Verdicts : process' = [process EXCEPT ![p] = row(v)]
    <3>1. PICK report \in Reports : CallReturns(p, report)
      BY <1>8
    <3>2. VerdictsOn(Current(p), report) \subseteq Verdicts
      BY DEF VerdictsOn, Verdicts
    <3> QED BY <1>1, <3>1, <3>2 DEF CallReturns, InPlace, ProcessRow
  <2>2. /\ row(v).pc \in Held /\ row(v).task = Own(p) /\ row(v).todo = process[p].todo
        /\ row(v).late = process[p].late
    BY <1>1 DEF ProcessRow, Held, InHand, Own
  <2> HIDE DEF row
  <2> QED BY <1>5, <2>1, <2>2
<1>9. CASE CallRaises(p) \/ EngineRefused(p) \/ RecordVerdict(p)
  <2>1. {"excepted", "verdict"} \subseteq Held /\ "failed" \in Idle
    BY DEF Held, InHand, Idle, Points, Ended
  <2>2. Goto(p, "excepted") \/ Goto(p, "failed") \/ Goto(p, "verdict")
    BY <1>9 DEF CallRaises, EngineRefused, RecordVerdict
  <2>3. Goto(p, "failed") => StandsBy(p)
    BY <1>2, <2>1, GotoGoes DEF StandsBy, Goes, Idle
  <2> QED BY <1>4, <2>1, <2>2, <2>3
<1>10. CASE Commit(p)
  <2>1. "succeed" \in Held
    BY DEF Held, InHand
  <2>2. CASE ~OnTaskBranch(Current(p))
    BY <1>4, <1>10, <2>1, <2>2 DEF Commit
  <2>3. CASE OnTaskBranch(Current(p))
    <3> DEFINE new == worktree[Own(p)] + 1
               row == [[process[p] EXCEPT !.head = new] EXCEPT !.pc = "succeed"]
    <3>1. process' = [process EXCEPT ![p] = row]
      BY <1>1, <1>10, <2>3 DEF Commit, InPlace, ProcessRow
    <3>2. /\ row.pc \in Held /\ row.task = Own(p) /\ row.todo = process[p].todo
          /\ row.late = process[p].late
      BY <1>1, <2>1 DEF ProcessRow, Own
    <3> HIDE DEF row
    <3> QED BY <1>5, <3>1, <3>2
  <2> QED BY <2>2, <2>3
<1>11. CASE Package(p)
  <2> DEFINE row == [[process[p] EXCEPT !.verdict = "passed"] EXCEPT !.pc = "verdict"]
  <2>1. process' = [process EXCEPT ![p] = row]
    BY <1>1, <1>11 DEF Package, InPlace, ProcessRow
  <2>2. /\ row.pc \in Held /\ row.task = Own(p) /\ row.todo = process[p].todo
        /\ row.late = process[p].late
    BY <1>1 DEF ProcessRow, Held, InHand, Own
  <2> HIDE DEF row
  <2> QED BY <1>5, <2>1, <2>2
<1> QED BY <1>6, <1>7, <1>8, <1>9, <1>10, <1>11

\* The two steps that start a node.
LEMMA RunTakes ==
  ASSUME InPlace, NEW p \in Processes, RunNode(p) \/ RunIntegration(p)
  PROVE  Takes(p)
<1>1. process[p] \in ProcessRow /\ Placed(process[p])
  BY DEF InPlace
<1>2. UNCHANGED cancelRequested
  BY DEF RunNode, RunIntegration, OnNodeOnly
<1>3. CASE RunNode(p)
  <2> DEFINE from == IF Current(p) \in Workers THEN task[Own(p)].state ELSE process[p].from
             pc   == IF Current(p) = "package" THEN "package" ELSE "reserve"
             row  == [[process[p] EXCEPT !.from = from] EXCEPT !.pc = pc]
  <2>1. Current(p) \in Nodes
    BY <1>1, <1>3 DEF RunNode, At, Placed, Handling, Handles, Current
  <2>2. process' = [process EXCEPT ![p] = row]
    BY <1>1, <1>3 DEF RunNode, InPlace, ProcessRow
  <2>3. pc \in Points \ {"ready"}
    BY DEF Points
  <2> HIDE DEF from, pc
  <2>4. /\ row.pc = pc /\ row.task = Own(p) /\ row.todo = process[p].todo
        /\ row.late = process[p].late
    BY <1>1 DEF ProcessRow, Own
  <2> HIDE DEF row
  <2>5. process'[p] = row /\ Only(p)
    BY <2>2 DEF InPlace, Only
  <2> QED BY <1>2, <1>3, <2>1, <2>3, <2>4, <2>5 DEF RunNode, Takes, Goes, Current
<1>4. CASE RunIntegration(p)
  <2>1. "integrate" \in Nodes
    BY <1>1, <1>4, KnownNodes DEF RunIntegration, At, Placed
  <2> DEFINE row == [[process[p] EXCEPT !.todo = <<"integrate">>] EXCEPT !.pc = "merge"]
  <2>2. process' = [process EXCEPT ![p] = row]
    BY <1>1, <1>4 DEF RunIntegration, InPlace, ProcessRow
  <2>3. row.pc = "merge" /\ row.late = process[p].late
    BY <1>1 DEF ProcessRow
  <2> HIDE DEF row
  <2>4. process'[p] = row /\ Only(p)
    BY <2>2 DEF InPlace, Only
  <2>5. "merge" \in Points \ {"ready"} /\ "merge" \notin Held
    BY DEF Points, Held, InHand
  <2> QED BY <1>2, <1>4, <2>1, <2>3, <2>4, <2>5 DEF RunIntegration, Takes, Goes
<1> QED BY <1>3, <1>4

\* The steps that move a node and have none in hand afterwards.
LEMMA EndLetsGo ==
  ASSUME InPlace, NEW p \in Processes,
         \/ ResetNode(p) \/ RestoreNode(p) \/ Requalify(p) \/ FailAssignment(p) \/ ParkNode(p)
         \/ CallOff(p) \/ GiveUp(p) \/ Succeed(p) \/ RefuseMerge(p) \/ Integrated(p) \/ SettleNode(p)
  PROVE  StandsBy(p) \/ LetsGo(p)
<1>1. process[p] \in ProcessRow /\ Placed(process[p])
  BY DEF InPlace
<1>2. UNCHANGED cancelRequested
  BY DEF ResetNode, RestoreNode, Requalify, FailAssignment, ParkNode, CallOff, GiveUp, Succeed,
     RefuseMerge, Integrated, SettleNode, OnNodeOnly
<1>3. {"node", "look", "advance", "requalify", "block", "checkpoint", "cancel", "adopt", "join",
       "count"} \subseteq Idle
  BY DEF Idle, Points, Held, InHand
<1>4. ASSUME NEW pc \in Idle, Goto(p, pc) PROVE Goes(p, Idle)
  BY <1>4, GotoGoes DEF Goes, Idle
<1>5. /\ Call(p) \in Executions \cup {NoExec} /\ NoExec \in Executions \cup {NoExec}
      /\ {"pending", "failed", "authentication_required", "cancelled", "succeeded"}
           \subseteq NodeStatuses
  BY <1>1 DEF Call, ProcessRow, NodeStatuses
<1>6. ASSUME Handles(process[p]) PROVE Current(p) \in Nodes
  BY <1>6 DEF Handles, Current
<1>7. CASE ResetNode(p)
  <2> DEFINE row == [process[p] EXCEPT !.seen[Current(p)] = "pending"]
  <2>1. process' = [process EXCEPT ![p] = row] /\ process[p].pc = "node"
    BY <1>1, <1>7 DEF ResetNode, At, InPlace, ProcessRow
  <2>2. row.pc = "node" /\ row.late = process[p].late
    BY <1>1, <2>1 DEF ProcessRow
  <2> HIDE DEF row
  <2>3. Goes(p, Idle)
    BY <1>3, <2>1, <2>2 DEF Goes, InPlace, Only
  <2>4. Current(p) \in Nodes
    BY <1>1, <1>6, <2>1 DEF Placed, Handling
  <2> QED BY <1>2, <1>5, <1>7, <2>3, <2>4 DEF ResetNode, LetsGo
<1>8. CASE RestoreNode(p)
  <2>1. Current(p) \in Nodes
    <3>1. process[p].todo # <<>> /\ process[p].todo \in Seq(Nodes)
      BY <1>1, <1>8 DEF RestoreNode, At, Placed, ProcessRow
    <3> QED BY <3>1 DEF Current
  <2>2. Goes(p, Idle)
    BY <1>3, <1>4, <1>8 DEF RestoreNode
  <2> QED BY <1>2, <1>5, <1>8, <2>1, <2>2 DEF RestoreNode, LetsGo
<1>9. CASE Requalify(p)
  <2> DEFINE pc  == IF Current(p) = "review" THEN "advance" ELSE "requalify"
             row == [[[process[p] EXCEPT !.todo = Tail(process[p].todo)]
                                  EXCEPT !.from = "repairing"] EXCEPT !.pc = pc]
  <2>1. process' = [process EXCEPT ![p] = row]
    BY <1>1, <1>9 DEF Requalify, InPlace, ProcessRow
  <2>2. pc \in Idle
    BY <1>3
  <2> HIDE DEF pc
  <2>3. row.pc = pc /\ row.late = process[p].late
    BY <1>1 DEF ProcessRow
  <2> HIDE DEF row
  <2>4. Goes(p, Idle)
    BY <2>1, <2>2, <2>3 DEF Goes, InPlace, Only
  <2>5. Current(p) \in Nodes
    <3>1. process[p].todo \in {<<"verify", "review">>, <<"review">>}
      BY <1>1, <1>9 DEF Requalify, At, Placed
    <3>2. Current(p) \in {"verify", "review"}
      BY <3>1 DEF Current
    <3> QED BY <3>2, KnownNodes
  <2>6. CASE node[Own(p)][Current(p)].status \in {"failed", "succeeded"}
    BY <1>2, <1>5, <1>9, <2>4, <2>5, <2>6 DEF Requalify, LetsGo
  <2>7. CASE node[Own(p)][Current(p)].status \notin {"failed", "succeeded"}
    BY <1>9, <2>4, <2>7 DEF Requalify, StandsBy
  <2> QED BY <2>6, <2>7
<1>10. CASE RefuseMerge(p) \/ Integrated(p)
  <2>1. "integrate" \in Nodes
    BY <1>1, <1>10, KnownNodes DEF RefuseMerge, Integrated, At, Placed
  <2>2. Goes(p, Idle)
    BY <1>3, <1>4, <1>10 DEF RefuseMerge, Integrated
  <2> QED BY <1>2, <1>5, <1>10, <2>1, <2>2 DEF RefuseMerge, Integrated, LetsGo
<1>11. CASE \/ FailAssignment(p) \/ ParkNode(p) \/ CallOff(p) \/ GiveUp(p) \/ Succeed(p)
            \/ SettleNode(p)
  <2>1. process[p].pc \in {"excepted", "judge", "succeed", "verdict"}
    BY <1>11 DEF FailAssignment, ParkNode, CallOff, GiveUp, Judged, Succeed, SettleNode, At
  <2>2. process[p].pc \in Held /\ Current(p) \in Nodes
    BY <1>1, <1>6, <2>1 DEF Placed, Handling, Held, InHand
  <2>3. PICK target \in NodeStatuses, e \in Executions \cup {NoExec} :
          MoveNode(Own(p), Current(p), target, e)
    BY <1>5, <1>11 DEF FailAssignment, ParkNode, CallOff, GiveUp, Succeed, SettleNode
  <2>4. Goes(p, Idle)
    <3>1. SettleNode(p) => Goto(p, "advance") \/ Goto(p, "count") \/ Goto(p, "block")
      <4>1. SettleNode(p) => process[p].verdict \in {"passed", "rejected", "stopped"}
        BY <1>1 DEF SettleNode, At, Placed
      <4> QED BY <4>1 DEF SettleNode
    <3>2. Goes(p, {"node", "join"}) => Goes(p, Idle)
      BY <1>3 DEF Goes
    <3>3. CASE Succeed(p)
      BY <1>3, <1>4, <3>2, <3>3, LeaveGoes DEF Succeed
    <3>4. CASE FailAssignment(p) \/ ParkNode(p) \/ CallOff(p) \/ GiveUp(p) \/ SettleNode(p)
      <4>1. \E pc \in Idle : Goto(p, pc)
        BY <1>3, <3>1, <3>4 DEF FailAssignment, ParkNode, CallOff, GiveUp
      <4> QED BY <1>4, <4>1
    <3> QED BY <1>11, <3>3, <3>4
  <2> QED BY <1>2, <2>2, <2>3, <2>4 DEF LetsGo
<1> QED BY <1>7, <1>8, <1>9, <1>10, <1>11

LEMMA StepOnNodes ==
  ASSUME InPlace, TaskTypeOK, HeadsKnown, GraphTables, NEW p \in Processes, Step(p) \/ Fail(p)
  PROVE  StandsBy(p) \/ WorksOn(p) \/ Takes(p) \/ LetsGo(p)
<1>1. CASE Quiet(p)
  BY <1>1, QuietStands
<1>2. CASE \/ Reserve(p) \/ StartCall(p) \/ (\E report \in Reports : CallReturns(p, report))
           \/ CallRaises(p) \/ EngineRefused(p) \/ Commit(p) \/ RecordVerdict(p) \/ Package(p)
  BY <1>2, CallWorksOn
<1>3. CASE RunNode(p) \/ RunIntegration(p)
  BY <1>3, RunTakes
<1>4. CASE \/ ResetNode(p) \/ RestoreNode(p) \/ Requalify(p) \/ FailAssignment(p) \/ ParkNode(p)
           \/ CallOff(p) \/ GiveUp(p) \/ Succeed(p) \/ RefuseMerge(p) \/ Integrated(p) \/ SettleNode(p)
  BY <1>4, EndLetsGo
<1> QED BY <1>1, <1>2, <1>3, <1>4 DEF Step, Engine, Quiet

\* A command that begins has no node in hand and moves none.
LEMMA BeginStands ==
  ASSUME InPlace, TaskTypeOK, NEW p \in Processes, Begin(p)
  PROVE  StandsBy(p)
<1>1. UNCHANGED node
  BY DEF Begin, BeginStart, BeginResume, BeginCancel, RequestTaskCancellation, NoStoreChange,
     NoGraphChange, graphVars
<1>2. Begun \subseteq Idle
  BY DEF Begun, Idle, Points, Ended, Held, InHand
<1>3. Goes(p, Begun)
  BY BeginInPlace DEF Begin
<1> QED BY <1>1, <1>2, <1>3 DEF StandsBy, Goes

\* A process that moves a node has a task.
LEMMA MoversHaveTask ==
  ASSUME InPlace, TaskTypeOK, HeadsKnown, GraphTables, NEW p \in Processes, Step(p) \/ Fail(p)
  PROVE  Own(p) \in Tasks \/ StandsBy(p)
<1>1. process[p].pc \notin Ended \cup {"ready"} => Own(p) \in Tasks
  BY DEF InPlace, Placed, Own
<1>2. CASE Quiet(p)
  BY <1>2, QuietStands
<1>3. CASE ~Quiet(p)
  BY <1>1, <1>3 DEF Step, Engine, Quiet, ResetNode, RestoreNode, Requalify, FailAssignment,
     ParkNode, CallOff, GiveUp, Judged, Succeed, RefuseMerge, Integrated, SettleNode, RunNode,
     RunIntegration, Reserve, StartCall, CallReturns, CallRaises, EngineRefused, Commit,
     RecordVerdict, Package, At, Ended
<1> QED BY <1>2, <1>3

\* A cancellation is never taken back.
LEMMA FlagsStep ==
  ASSUME GraphTables, [WorkflowNext]_workflowVars
  PROVE  /\ cancelRequested' \in [Tasks -> BOOLEAN]
         /\ \A t \in Tasks : cancelRequested[t] => cancelRequested'[t]
<1>1. CASE UNCHANGED cancelRequested
  BY <1>1 DEF GraphTables
<1>2. ASSUME NEW t \in Tasks, RequestTaskCancellation(t)
      PROVE  /\ cancelRequested' \in [Tasks -> BOOLEAN]
             /\ \A u \in Tasks : cancelRequested[u] => cancelRequested'[u]
  BY <1>2 DEF RequestTaskCancellation, GraphTables
<1>3. ASSUME NEW p \in Processes, Begin(p)
      PROVE  UNCHANGED cancelRequested \/ \E t \in Tasks : RequestTaskCancellation(t)
  BY <1>3 DEF Begin, BeginStart, BeginResume, BeginCancel, NoStoreChange, NoGraphChange, graphVars
<1>4. ASSUME NEW p \in Processes, Step(p) \/ Fail(p) PROVE UNCHANGED cancelRequested
  <2>1. CASE OnTaskOnly \/ OnLedgerOnly \/ OnNodeOnly \/ NoStoreChange \/ NoGraphChange
    BY <2>1 DEF OnTaskOnly, OnLedgerOnly, OnNodeOnly, NoStoreChange, NoGraphChange, graphVars
  <2>2. CASE CreateWorkspace(p) \/ Commit(p) \/ Merge(p)
    BY <2>2 DEF CreateWorkspace, Commit, Merge, graphVars
  <2> QED BY <1>4, <2>1, <2>2 DEF Step, Engine, Fail, RecordWorkspace, OpenWorkspace, Inspect,
     ReconcileFound, Unpark, RestoreNode, RereadForCancel, CancelTask, Look, Advance, Block,
     ResetNode, SkipParkedNode, RunNode, Reserve, StartCall, CallReturns, CallRaises,
     EngineRefused, FailAssignment, ParkNode, Checkpoint, CallOff, GiveUp, Succeed, Adopt,
     Requalify, Join, RunIntegration, RefuseMerge, Integrated, RecordVerdict, Package, SettleNode,
     CountRejection
<1>5. (\E t \in Tasks : Submit(t)) \/ (LoginActions /\ NoGraphChange /\ UNCHANGED process)
        \/ UNCHANGED workflowVars => UNCHANGED cancelRequested
  BY DEF Submit, OnTaskOnly, NoGraphChange, graphVars, workflowVars
<1> QED BY <1>1, <1>2, <1>3, <1>4, <1>5 DEF WorkflowNext

LEMMA GraphTablesStep ==
  ASSUME InPlace, TaskTypeOK, HeadsKnown, GraphTables, [WorkflowNext]_workflowVars
  PROVE  GraphTables'
<1>1. cancelRequested' \in [Tasks -> BOOLEAN]
  BY FlagsStep
<1>2. CASE UNCHANGED node
  BY <1>1, <1>2 DEF GraphTables, MaxAttempts
<1>3. ASSUME NEW p \in Processes, Own(p) \in Tasks, Takes(p) \/ LetsGo(p) PROVE GraphTables'
  <2>1. "running" \in NodeStatuses /\ NoExec \in Executions \cup {NoExec}
    BY DEF NodeStatuses
  <2>2. /\ UNCHANGED cancelRequested
        /\ \E n \in Nodes, target \in NodeStatuses, e \in Executions \cup {NoExec} :
             MoveNode(Own(p), n, target, e)
    BY <1>3, <2>1 DEF Takes, LetsGo
  <2> QED BY <1>3, <2>2, NodeMoves
<1>4. ASSUME NEW p \in Processes, Begin(p) PROVE UNCHANGED node
  BY <1>4, BeginStands DEF StandsBy
<1>5. ASSUME NEW p \in Processes, Step(p) \/ Fail(p) PROVE GraphTables'
  <2>1. StandsBy(p) \/ WorksOn(p) => UNCHANGED node
    BY DEF StandsBy, WorksOn
  <2> QED BY <1>2, <1>3, <1>5, <2>1, StepOnNodes, MoversHaveTask
<1>6. (\E t \in Tasks : Submit(t)) \/ (LoginActions /\ NoGraphChange /\ UNCHANGED process)
        \/ UNCHANGED workflowVars => UNCHANGED node
  BY DEF Submit, OnTaskOnly, NoGraphChange, graphVars, workflowVars
<1> QED BY <1>2, <1>4, <1>5, <1>6 DEF WorkflowNext

\* A worktree holds a revision once it is made.
Worktrees == worktree \in [Tasks -> Revisions \cup {NoRevision}]

LEMMA WorktreesStep ==
  ASSUME Worktrees, [WorkflowNext]_workflowVars
  PROVE  Worktrees'
<1>1. CASE UNCHANGED worktree
  BY <1>1 DEF Worktrees
<1>2. ASSUME NEW t, NEW new \in Revisions, worktree' = [worktree EXCEPT ![t] = new]
      PROVE  Worktrees'
  BY <1>2 DEF Worktrees
<1>3. ASSUME NEW p \in Processes, CreateWorkspace(p) \/ Merge(p) \/ Commit(p) PROVE Worktrees'
  BY <1>1, <1>2, <1>3, WorkflowAssumption DEF CreateWorkspace, Merge, Commit
<1>4. ASSUME NEW p \in Processes, Step(p) \/ Fail(p),
             ~CreateWorkspace(p), ~Merge(p), ~Commit(p)
      PROVE  UNCHANGED worktree
  <2>1. CASE OnTaskOnly \/ OnLedgerOnly \/ OnNodeOnly \/ NoStoreChange \/ NoGraphChange
    BY <2>1 DEF OnTaskOnly, OnLedgerOnly, OnNodeOnly, NoStoreChange, NoGraphChange
  <2> QED BY <1>4, <2>1 DEF Step, Engine, Fail, RecordWorkspace, OpenWorkspace, Inspect,
     ReconcileFound, Unpark, RestoreNode, RereadForCancel, CancelTask, Look, Advance, Block,
     ResetNode, SkipParkedNode, RunNode, Reserve, StartCall, CallReturns, CallRaises,
     EngineRefused, FailAssignment, ParkNode, Checkpoint, CallOff, GiveUp, Succeed, Adopt,
     Requalify, Join, RunIntegration, RefuseMerge, Integrated, RecordVerdict, Package, SettleNode,
     CountRejection
<1>5. ASSUME NEW p \in Processes, Begin(p) PROVE UNCHANGED worktree
  BY <1>5 DEF Begin, BeginStart, BeginResume, BeginCancel, NoStoreChange, NoGraphChange
<1>6. (\E t \in Tasks : Submit(t)) \/ (LoginActions /\ NoGraphChange /\ UNCHANGED process)
        \/ UNCHANGED workflowVars => UNCHANGED worktree
  BY DEF Submit, OnTaskOnly, NoGraphChange, workflowVars
<1> QED BY <1>1, <1>3, <1>4, <1>5, <1>6 DEF WorkflowNext

-----------------------------------------------------------------------------
(* The node's status is the lock.                                          *)

\* Who holds a node, and which.
Holds(p) == process[p].pc \in Held

\* A process that has a node in hand has it running, and has it alone: the row
\* leaves running only by the hand of that process, and is entered again only
\* from elsewhere.
Locked ==
  /\ \A p \in Processes : Holds(p) => node[Own(p)][Current(p)].status = "running"
  /\ \A p, q \in Processes :
       Holds(p) /\ Holds(q) /\ Own(p) = Own(q) /\ Current(p) = Current(q) => p = q

LEMMA LockStep ==
  ASSUME InPlace, TaskTypeOK, HeadsKnown, GraphTables, Locked, [WorkflowNext]_workflowVars
  PROVE  Locked'
<1>1. \A q \in Processes : Holds(q) => Own(q) \in Tasks /\ Current(q) \in Nodes \ {"integrate"}
  <2>1. TAKE q \in Processes
  <2>2. process[q].pc \in Held => Own(q) \in Tasks /\ Handles(process[q])
    BY DEF InPlace, Placed, Held, InHand, Handling, Own, Ended
  <2> QED BY <2>2 DEF Holds, Handles, Current
<1>2. CASE UNCHANGED <<process, node>>
  BY <1>2 DEF Locked, Holds, Own, Current
<1>3. ASSUME NEW p \in Processes, StandsBy(p) PROVE Locked'
  <2>1. \A q \in Processes : q # p => process'[q] = process[q]
    BY <1>3 DEF StandsBy, Goes, Only
  <2>2. ~Holds(p)' /\ node' = node
    BY <1>3 DEF StandsBy, Goes, Idle, Holds
  <2> QED BY <2>1, <2>2 DEF Locked, Holds, Own, Current
<1>4. ASSUME NEW p \in Processes, WorksOn(p) PROVE Locked'
  <2>1. \A q \in Processes : q # p => process'[q] = process[q]
    BY <1>4 DEF WorksOn, Only
  <2>2. node' = node /\ Holds(p) /\ Own(p)' = Own(p) /\ Current(p)' = Current(p)
    BY <1>4 DEF WorksOn, Holds, Own, Current
  <2>3. \A q \in Processes : /\ Holds(q)' => Holds(q)
                            /\ Own(q)' = Own(q) /\ Current(q)' = Current(q)
    BY <2>1, <2>2 DEF Holds, Own, Current
  <2> QED BY <2>2, <2>3 DEF Locked
<1>5. ASSUME NEW p \in Processes, Takes(p), Own(p) \in Tasks PROVE Locked'
  <2>1. /\ \A q \in Processes : q # p => process'[q] = process[q]
        /\ UNCHANGED cancelRequested
    BY <1>5 DEF Takes, Goes, Only
  <2>2. PICK n \in Nodes :
          /\ MoveNode(Own(p), n, "running", NoExec)
          /\ Holds(p)' => Own(p)' = Own(p) /\ Current(p)' = n
    BY <1>5 DEF Takes, Holds, Own, Current
  <2>3. /\ node'[Own(p)][n].status = "running" /\ node[Own(p)][n].status # "running"
        /\ \A u \in Tasks, m \in Nodes : u # Own(p) \/ m # n => node'[u][m] = node[u][m]
    <3>1. "running" \in NodeStatuses /\ NoExec \in Executions \cup {NoExec}
      BY DEF NodeStatuses
    <3> QED BY <1>5, <2>1, <2>2, <3>1, NodeMoves
  <2>4. ASSUME NEW q \in Processes, q # p, Holds(q)'
        PROVE  /\ Holds(q) /\ Own(q)' = Own(q) /\ Current(q)' = Current(q)
               /\ Own(q) # Own(p) \/ Current(q) # n
               /\ node'[Own(q)][Current(q)].status = "running"
    <3>1. Holds(q) /\ Own(q)' = Own(q) /\ Current(q)' = Current(q)
      BY <2>1, <2>4 DEF Holds, Own, Current
    <3>2. Own(q) # Own(p) \/ Current(q) # n
      BY <2>3, <3>1 DEF Locked
    <3>3. node'[Own(q)][Current(q)] = node[Own(q)][Current(q)]
      BY <1>1, <2>3, <3>1, <3>2
    <3> QED BY <3>1, <3>2, <3>3 DEF Locked
  <2>5. \A q \in Processes : Holds(q)' => node'[Own(q)'][Current(q)'].status = "running"
    BY <2>2, <2>3, <2>4
  <2>6. ASSUME NEW q \in Processes, NEW r \in Processes, Holds(q)', Holds(r)',
               Own(q)' = Own(r)', Current(q)' = Current(r)'
        PROVE  q = r
    <3>1. CASE q # p /\ r # p
      BY <2>4, <2>6, <3>1 DEF Locked
    <3>2. CASE q = p \/ r = p
      BY <2>2, <2>4, <2>6, <3>2
    <3> QED BY <3>1, <3>2
  <2> QED BY <2>5, <2>6 DEF Locked
<1>6. ASSUME NEW p \in Processes, LetsGo(p), Own(p) \in Tasks PROVE Locked'
  <2>1. /\ \A q \in Processes : q # p => process'[q] = process[q]
        /\ UNCHANGED cancelRequested /\ ~Holds(p)'
    BY <1>6 DEF LetsGo, Goes, Only, Idle, Holds
  <2>2. PICK n \in Nodes, target \in NodeStatuses, e \in Executions \cup {NoExec} :
          /\ MoveNode(Own(p), n, target, e)
          /\ \/ target = "pending" \/ n = "integrate"
             \/ Holds(p) /\ n = Current(p)
    BY <1>6 DEF LetsGo, Holds
  <2>3. /\ node[Own(p)][n].status = "running" => target # "pending"
        /\ \A u \in Tasks, m \in Nodes : u # Own(p) \/ m # n => node'[u][m] = node[u][m]
    BY <1>6, <2>1, <2>2, NodeMoves
  <2>4. ASSUME NEW q \in Processes, Holds(q)'
        PROVE  /\ Holds(q) /\ Own(q)' = Own(q) /\ Current(q)' = Current(q)
               /\ node'[Own(q)][Current(q)].status = "running"
    <3>1. q # p /\ Holds(q) /\ Own(q)' = Own(q) /\ Current(q)' = Current(q)
      BY <2>1, <2>4 DEF Holds, Own, Current
    <3>2. Own(q) # Own(p) \/ Current(q) # n
      BY <1>1, <2>2, <2>3, <3>1 DEF Locked
    <3>3. node'[Own(q)][Current(q)] = node[Own(q)][Current(q)]
      BY <1>1, <2>3, <3>1, <3>2
    <3> QED BY <3>1, <3>3 DEF Locked
  <2> QED BY <2>4 DEF Locked
<1>7. ASSUME NEW p \in Processes, Step(p) \/ Fail(p) PROVE Own(p) \in Tasks \/ StandsBy(p)
  BY <1>7, MoversHaveTask
<1>8. ASSUME NEW p \in Processes, Begin(p) \/ Step(p) \/ Fail(p) PROVE Locked'
  BY <1>3, <1>4, <1>5, <1>6, <1>7, <1>8, BeginStands, StepOnNodes
<1>9. (\E t \in Tasks : Submit(t)) \/ (LoginActions /\ NoGraphChange /\ UNCHANGED process)
        \/ UNCHANGED workflowVars => UNCHANGED <<process, node>>
  BY DEF Submit, OnTaskOnly, NoGraphChange, graphVars, workflowVars
<1> QED BY <1>2, <1>8, <1>9 DEF WorkflowNext

-----------------------------------------------------------------------------
(* Calls started after a cancellation.                                     *)

\* Where a process may stand that started a call of a cancelled task.  None of
\* these points leads to such a start while the flag is set, and it stays set.
After == {"call", "excepted", "judge", "checkpoint", "block", "look", "cancel"}

InTime(p) ==
  /\ process[p].late \in {0, 1}
  /\ At(p, "ready") => process[p].late = 0
  /\ process[p].late = 1 /\ process[p].pc \notin Ended =>
       cancelRequested[Own(p)] /\ process[p].pc \in After

AllInTime == \A p \in Processes : InTime(p)

\* From there a process only goes to its end.
LEMMA AfterwardsGoes ==
  ASSUME InPlace, TaskTypeOK, HeadsKnown, GraphTables, NEW p \in Processes, Step(p) \/ Fail(p),
         cancelRequested[Own(p)], process[p].pc \in After
  PROVE  /\ Goes(p, After \cup Ended)
         /\ process'[p].pc \notin Ended => process'[p].task = Own(p)
<1>1. process[p] \in ProcessRow
  BY DEF InPlace
<1>2. ASSUME NEW pc \in After \cup Ended, Goto(p, pc)
      PROVE  /\ Goes(p, After \cup Ended)
             /\ process'[p].pc \notin Ended => process'[p].task = Own(p)
  <2>1. pc \in Points
    BY DEF After, Ended, Points
  <2> QED BY <1>2, <2>1, GotoGoes DEF Goes
<1>3. CASE Look(p)
  BY <1>3, LookInPlace DEF Goes, After, Ended
<1>4. ASSUME NEW report \in Reports, CallReturns(p, report)
      PROVE  /\ Goes(p, After \cup Ended)
             /\ process'[p].pc \notin Ended => process'[p].task = Own(p)
  <2>1. PICK v : process' = [process EXCEPT ![p] =
                   [[process[p] EXCEPT !.verdict = v] EXCEPT !.pc = "judge"]]
    BY <1>1, <1>4 DEF CallReturns, InPlace, ProcessRow
  <2>2. /\ process'[p].pc = "judge" /\ process'[p].late = process[p].late
        /\ process'[p].task = process[p].task /\ Only(p)
    BY <1>1, <2>1 DEF InPlace, ProcessRow, Only
  <2> QED BY <2>2 DEF Goes, After, Own
<1>5. ASSUME ~Look(p), \A report \in Reports : ~CallReturns(p, report)
      PROVE  \E pc \in After \cup Ended : Goto(p, pc)
  <2>1. ~Judged(p)
    BY DEF Judged, CalledOff
  <2>2. CASE Fail(p)
    BY <2>2 DEF Fail, Ended
  <2>3. CASE CallRaises(p) \/ EngineRefused(p)
    BY <2>3 DEF CallRaises, EngineRefused, After, Ended
  <2>4. CASE FailAssignment(p) \/ ParkNode(p) \/ CallOff(p)
    BY <2>4 DEF FailAssignment, ParkNode, CallOff, After
  <2>5. CASE Checkpoint(p) \/ Block(p) \/ CancelTask(p)
    BY <2>5 DEF Checkpoint, Block, CancelTask, After, Ended
  <2>6. ASSUME Step(p), ~CallRaises(p), ~EngineRefused(p), ~FailAssignment(p), ~ParkNode(p),
               ~CallOff(p), ~Checkpoint(p), ~Block(p), ~CancelTask(p)
        PROVE  FALSE
    BY <1>5, <2>1, <2>6 DEF After, At, Step, Engine, CreateWorkspace, RecordWorkspace, OpenWorkspace,
       Inspect, ReconcileFound, Unpark, RestoreNode, RereadForCancel, Advance, ResetNode,
       SkipParkedNode, RunNode, Reserve, StartCall, GiveUp, Commit, Succeed, Adopt, Requalify, Join,
       RunIntegration, Merge, RefuseMerge, Integrated, RecordVerdict, Package, SettleNode,
       CountRejection
  <2> QED BY <2>2, <2>3, <2>4, <2>5, <2>6
<1> QED BY <1>2, <1>3, <1>4, <1>5

\* A step starts no call, or starts the one call that is ready.
LEMMA StepStarts ==
  ASSUME InPlace, TaskTypeOK, HeadsKnown, GraphTables, NEW p \in Processes, Step(p) \/ Fail(p)
  PROVE  /\ Only(p) /\ process'[p].pc # "ready"
         /\ \/ process'[p].late = process[p].late
            \/ /\ At(p, "start") /\ cancelRequested[Own(p)]
               /\ process'[p].late = process[p].late + 1
               /\ process'[p].pc = "call" /\ process'[p].task = Own(p)
<1>1. process[p] \in ProcessRow
  BY DEF InPlace
<1>2. StandsBy(p) \/ WorksOn(p) \/ Takes(p) \/ LetsGo(p)
  BY StepOnNodes
<1>3. Only(p) /\ process'[p].pc # "ready"
  BY <1>2 DEF StandsBy, WorksOn, Takes, LetsGo, Goes, Idle, Held, InHand
<1>4. process'[p].late = process[p].late \/ StartCall(p)
  BY <1>2 DEF StandsBy, WorksOn, Takes, LetsGo, Goes
<1>5. ASSUME StartCall(p)
      PROVE  \/ process'[p].late = process[p].late
             \/ /\ At(p, "start") /\ cancelRequested[Own(p)]
                /\ process'[p].late = process[p].late + 1
                /\ process'[p].pc = "call" /\ process'[p].task = Own(p)
  <2> DEFINE late == IF cancelRequested[Own(p)] THEN process[p].late + 1 ELSE process[p].late
  <2>1. process' = [process EXCEPT ![p] =
                      [[process[p] EXCEPT !.pc = "call"] EXCEPT !.late = late]]
    BY <1>1, <1>5 DEF StartCall, InPlace, ProcessRow
  <2>2. ~cancelRequested[Own(p)] => late = process[p].late
    OBVIOUS
  <2>3. cancelRequested[Own(p)] => late = process[p].late + 1
    OBVIOUS
  <2> HIDE DEF late
  <2>4. process'[p].pc = "call" /\ process'[p].late = late /\ process'[p].task = Own(p)
    BY <1>1, <2>1 DEF InPlace, ProcessRow, Own
  <2> QED BY <1>5, <2>2, <2>3, <2>4 DEF StartCall
<1> QED BY <1>3, <1>4, <1>5

LEMMA InTimeStep ==
  ASSUME InPlace, TaskTypeOK, HeadsKnown, GraphTables, AllInTime, [WorkflowNext]_workflowVars
  PROVE  AllInTime'
<1>1. \A t \in Tasks : cancelRequested[t] => cancelRequested'[t]
  BY FlagsStep
<1>2. \A q \in Processes : process[q].pc \notin Ended \cup {"ready"} => Own(q) \in Tasks
  BY DEF InPlace, Placed, Own
<1>3. ASSUME NEW q \in Processes, process'[q] = process[q] PROVE InTime(q)'
  <2>1. InTime(q)
    BY DEF AllInTime
  <2> QED BY <1>1, <1>2, <1>3, <2>1 DEF InTime, At, Own, After
<1>4. ASSUME NEW p \in Processes, InTime(p)', Only(p) PROVE AllInTime'
  BY <1>3, <1>4 DEF AllInTime, Only
<1>5. ASSUME NEW p \in Processes, Begin(p) PROVE AllInTime'
  <2>1. Goes(p, Begun) /\ At(p, "ready")
    BY <1>5, BeginInPlace DEF Begin, BeginStart, BeginResume, BeginCancel
  <2>2. process'[p].late = 0 /\ process'[p].pc # "ready" /\ Only(p)
    BY <2>1 DEF Goes, Begun, AllInTime, InTime
  <2> QED BY <1>4, <2>2 DEF InTime, At
<1>6. ASSUME NEW p \in Processes, Step(p) \/ Fail(p) PROVE AllInTime'
  <2>1. /\ Only(p) /\ process'[p].pc # "ready"
        /\ \/ process'[p].late = process[p].late
           \/ /\ At(p, "start") /\ cancelRequested[Own(p)]
              /\ process'[p].late = process[p].late + 1
              /\ process'[p].pc = "call" /\ process'[p].task = Own(p)
    BY <1>6, StepStarts
  <2>2. /\ InTime(p) /\ process[p].pc \notin Ended \cup {"ready"}
    <3>1. Live(p)
      BY <1>6 DEF Step, Engine, Fail, Live, At, Ended, Judged, CreateWorkspace, RecordWorkspace,
         OpenWorkspace, Inspect, ReconcileFound, Unpark, RestoreNode, RereadForCancel, CancelTask,
         Look, Advance, Block, ResetNode, SkipParkedNode, RunNode, Reserve, StartCall, CallReturns,
         CallRaises, EngineRefused, FailAssignment, ParkNode, Checkpoint, CallOff, GiveUp, Commit,
         Succeed, Adopt, Requalify, Join, RunIntegration, Merge, RefuseMerge, Integrated,
         RecordVerdict, Package, SettleNode, CountRejection
    <3> QED BY <3>1 DEF AllInTime, Live
  <2>3. Own(p) \in Tasks
    BY <1>2, <2>2
  <2>4. CASE process[p].late = 0
    <3>1. \/ process'[p].late = 0
          \/ /\ process'[p].late = 1 /\ process'[p].pc = "call"
             /\ process'[p].task = Own(p) /\ cancelRequested'[Own(p)]
      BY <1>1, <2>1, <2>3, <2>4
    <3> QED BY <1>4, <2>1, <3>1 DEF InTime, At, After, Own
  <2>5. CASE process[p].late = 1
    <3>1. cancelRequested[Own(p)] /\ process[p].pc \in After
      BY <2>2, <2>5 DEF InTime
    <3>2. /\ Goes(p, After \cup Ended)
          /\ process'[p].pc \notin Ended => process'[p].task = Own(p)
      BY <1>6, <3>1, AfterwardsGoes
    <3>3. process'[p].late = 1 /\ process'[p].pc \in After \cup Ended
      BY <2>5, <3>2 DEF Goes
    <3>4. process'[p].pc \notin Ended => cancelRequested'[Own(p)']
      BY <1>1, <2>3, <3>1, <3>2 DEF Own
    <3> QED BY <1>4, <2>1, <3>3, <3>4 DEF InTime, At
  <2> QED BY <2>2, <2>4, <2>5 DEF InTime
<1>7. (\E t \in Tasks : Submit(t)) \/ (LoginActions /\ NoGraphChange /\ UNCHANGED process)
        \/ UNCHANGED workflowVars => UNCHANGED process
  BY DEF Submit, workflowVars
<1> QED BY <1>3, <1>5, <1>6, <1>7 DEF WorkflowNext, AllInTime

-----------------------------------------------------------------------------
(* The invariant, and the theorems.                                        *)

WorkflowInvariant ==
  /\ AuthInvariant /\ HeadsKnown /\ GraphTables /\ Worktrees
  /\ InPlace /\ Locked /\ AllInTime

LEMMA WorkflowInitOK == WorkflowInit => WorkflowInvariant
<1> SUFFICES ASSUME WorkflowInit PROVE WorkflowInvariant
  OBVIOUS
<1>1. AuthInvariant
  BY AuthInitOK DEF WorkflowInit
<1>2. HeadsKnown
  BY DEF WorkflowInit, AuthInit, StoreInit, TaskInit, AbsentTask, HeadsKnown, Headed, Working
<1>3. GraphTables
  <2>1. \A n \in Nodes : InitialNode(n) \in NodeRow /\ InitialNode(n).attempts <= MaxAttempts(n)
    BY DEF InitialNode, NodeRow, NodeStatuses, MaxAttempts
  <2> QED BY <2>1 DEF WorkflowInit, GraphInit, GraphTables
<1>4. Worktrees
  BY DEF WorkflowInit, Worktrees
<1>5. /\ process = [p \in Processes |-> Unstarted]
      /\ Unstarted.pc = "ready" /\ Unstarted.late = 0
  BY DEF WorkflowInit, Unstarted
<1>6. InPlace
  BY <1>5, UnstartedType DEF InPlace, Placed, Handling, Ended
<1>7. Locked /\ AllInTime
  BY <1>5 DEF Locked, Holds, Held, InHand, AllInTime, InTime, At
<1> QED BY <1>1, <1>2, <1>3, <1>4, <1>6, <1>7 DEF WorkflowInvariant

LEMMA WorkflowStepOK ==
  ASSUME WorkflowInvariant, [WorkflowNext]_workflowVars
  PROVE  WorkflowInvariant'
<1> USE DEF WorkflowInvariant
<1>1. TaskTypeOK
  BY DEF AuthInvariant
<1>2. AuthInvariant' /\ HeadsKnown'
  BY <1>1, StepOfTheStore, AuthStepOK, HeadsStep, BeyondStep
<1>3. GraphTables' /\ Worktrees'
  BY <1>1, GraphTablesStep, WorktreesStep
<1>4. InPlace' /\ Locked' /\ AllInTime'
  BY <1>1, InPlaceStep, LockStep, InTimeStep
<1> QED BY <1>2, <1>3, <1>4

\* The store with its recoveries, the graph tables, the worktrees and every
\* process stay what they are meant to be together, whatever the processes do
\* and wherever they are killed.
THEOREM WorkflowInvariantHolds == WorkflowSpec => []WorkflowInvariant
BY WorkflowInitOK, WorkflowStepOK, PTL DEF WorkflowSpec

\* Every table and every process row is well-formed: no node is attempted more
\* often than its budget allows, and a process never acts on a task, a node or
\* a call that it does not have.
THEOREM WorkflowTypeCorrect == WorkflowSpec => []WorkflowTypeOK
<1>1. WorkflowInvariant => WorkflowTypeOK
  BY DEF WorkflowInvariant, AuthInvariant, WorkflowTypeOK, GraphTypeOK, AuthTypeOK, StoreTypeOK,
     Ledger, AuthTables, GraphTables, Worktrees, InPlace
<1> QED BY <1>1, WorkflowInvariantHolds, PTL

\* However many commands drive a task at once, none of its nodes is ever in the
\* hands of two of them, though each acts on rows it read some calls ago.
THEOREM NodesAreLocked == WorkflowSpec => []NodeHasOneDriver
<1>1. WorkflowInvariant => NodeHasOneDriver
  BY DEF WorkflowInvariant, Locked, NodeHasOneDriver, Holds, Held
<1> QED BY <1>1, WorkflowInvariantHolds, PTL

\* A cancellation that finds a command between its reservation and its start
\* lets that one call go, and none after it, whatever follows.
THEOREM LateStartsAreBounded == WorkflowSpec => []AtMostOneLateStart
<1>1. WorkflowInvariant => AtMostOneLateStart
  BY DEF WorkflowInvariant, AllInTime, InTime, AtMostOneLateStart
<1> QED BY <1>1, WorkflowInvariantHolds, PTL

\* What the store, its ledger and its login recovery promise any caller holds
\* for the workflow, which also submits, cancels and reports by calls of its own.
THEOREM WorkflowKeepsStore ==
  WorkflowSpec => [](/\ LedgerMatchesExecutions /\ CheckpointMatchesSession
                     /\ OneOpenSession /\ OneInteractiveLogin /\ ParkedTaskIsIdle)
<1>1. WorkflowInvariant => /\ LedgerMatchesExecutions /\ CheckpointMatchesSession
                           /\ OneOpenSession /\ OneInteractiveLogin /\ ParkedTaskIsIdle
  BY GuardedLogins DEF WorkflowInvariant, AuthInvariant, Ledger, AllInStep, InStep,
     CheckpointMatchesSession
<1> QED BY <1>1, WorkflowInvariantHolds, PTL

\* The workflow takes a parked task up again exactly where it was interrupted.
THEOREM WorkflowResumesExactly == WorkflowSpec => ResumeRestoresStage
<1> DEFINE Exact == \A t \in Tasks :
             /\ task[t].state = "authentication_required"
             /\ task'[t].state \notin {"authentication_required", "cancelled"}
             => /\ task'[t] = [task[t] EXCEPT !.state = checkpoint[t].stage]
                /\ task[t].head = checkpoint[t].head
                /\ \A v \in evidence : v.id \in checkpoint[t].refs =>
                     ~v.stale /\ v.revision = checkpoint[t].head
                /\ budget'[t] = budget[t]
<1>1. WorkflowInvariant /\ [WorkflowNext]_workflowVars => [Exact]_allVars
  <2> SUFFICES ASSUME WorkflowInvariant, [WorkflowNext]_workflowVars, NEW t \in Tasks,
                      task[t].state = "authentication_required",
                      task'[t].state \notin {"authentication_required", "cancelled"}
               PROVE  Restored(t)
    BY DEF Restored
  <2>1. TaskTypeOK /\ HeadsKnown /\ EvidenceIdsDiffer /\ ParkedTaskIsIdle /\ InPlace
    BY DEF WorkflowInvariant, AuthInvariant
  <2>2. CASE AuthNext
    BY <2>1, <2>2, LeavingStep
  <2>3. CASE UNCHANGED allVars
    BY <2>3 DEF allVars, storeVars, taskVars
  <2>4. CASE Beyond
    <3>1. ASSUME NEW u \in Tasks, Submit(u) PROVE FALSE
      <4>1. task[u].state = "absent"
        BY <3>1 DEF Submit, Exists
      <4> QED BY <2>1, <3>1, <4>1, SubmitStep
    <3>2. ~UNCHANGED taskVars
      BY DEF taskVars
    <3> QED BY <2>4, <3>1, <3>2 DEF Beyond, RequestTaskCancellation, FinishExecution
  <2> QED BY <2>1, <2>2, <2>3, <2>4, StepOfTheStore
<1> QED BY <1>1, WorkflowInvariantHolds, PTL DEF WorkflowSpec, ResumeRestoresStage

=============================================================================
