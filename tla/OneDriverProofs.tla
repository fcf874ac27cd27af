--------------------------- MODULE OneDriverProofs ---------------------------
(***************************************************************************)
(* The Phase 4 workflow with one start or resume at a time, killed         *)
(* anywhere, and any number of cancellations: what a driver has read of    *)
(* its task and its nodes stays true until it acts on it.                  *)
(*                                                                         *)
(* Fits relates the nodes of a task to the state it stands in.  A driver   *)
(* moves only nodes its task's state says nothing of yet (InStage), and    *)
(* moves the task on only when they are as the next state has them         *)
(* (Finished).  Named follows the call a node is parked with from its      *)
(* reservation to the checkpoint that names it.                            *)
(*                                                                         *)
(* Then what a driver knows of its task's candidate and of its calls       *)
(* (Works), from which every step is of one of a few kinds (Kinds), and    *)
(* each kind is a step of CandidatePipeline or none.                       *)
(***************************************************************************)
EXTENDS WorkflowProofs

-----------------------------------------------------------------------------
(* Nodes and states.  N stands for the nodes of one task.                  *)

Done(N, n) == N[n].status = "succeeded"

Built(N) == \A n \in Predecessors("verify") : Done(N, n)

\* The nodes are as a task that stands in s has them.
Fits(N, s) ==
  /\ s \in Reviewed \cup {"repairing", "implemented", "verifying", "verified", "reviewing"}
       => Built(N)
  /\ s \in Reviewed \cup {"verified", "reviewing"} => Done(N, "verify")
  /\ s \in Reviewed => Done(N, "review")
  /\ s = "awaiting_pr_approval" => Done(N, "package")
  /\ s \in {"absent", "received", "contracted", "workspace_ready", "implementing", "implemented"}
       => ~Done(N, "verify") /\ ~Done(N, "review")

AllFit == \A t \in Tasks : Fits(node[t], Standing(t))

\* The stage a node belongs to.
StageOf(n) == CASE n = "verify"  -> "verifying"
                [] n = "review"  -> "reviewing"
                [] n = "package" -> "packaging"
                [] n = "repair"  -> "repairing"
                [] OTHER         -> "implementing"

LEMMA VerifyFollows ==
  /\ Predecessors("verify") = IF Decomposed THEN {"integrate"} ELSE Implementations
  /\ Predecessors("verify") \subseteq Nodes \ {"verify", "review", "repair", "package"}
BY KnownNodes, SubtasksAssumption DEF Predecessors

\* What the state of a task says of its nodes it does not say of those of its
\* own stage, nor a repair of the quality nodes.
LEMMA StageMayMove ==
  ASSUME NEW N, NEW M, NEW n \in Nodes, NEW s, Fits(N, s),
         \A m \in Nodes \ {n} : Done(M, m) <=> Done(N, m),
         \/ Done(M, n) <=> Done(N, n)
         \/ s \in {StageOf(n), "cancelled"}
         \/ s \in {"repairing", "cancelled"} /\ n \in {"verify", "review"}
  PROVE  Fits(M, s)
<1>1. /\ {"verify", "review", "package"} \subseteq Nodes
      /\ Predecessors("verify") \subseteq Nodes \ {"verify", "review", "repair", "package"}
  BY KnownNodes, VerifyFollows
<1>2. CASE Done(M, n) <=> Done(N, n)
  <2>1. \A m \in Nodes : Done(M, m) <=> Done(N, m)
    BY <1>2
  <2> QED BY <1>1, <2>1 DEF Fits, Built
<1>3. CASE s = "cancelled"
  BY <1>3 DEF Fits, Reviewed
<1>4. CASE s = StageOf(n)
  <2>1. CASE n \in {"verify", "review", "package", "repair"}
    BY <1>1, <1>4, <2>1 DEF Fits, Built, Reviewed, StageOf
  <2>2. CASE n \notin {"verify", "review", "package", "repair"}
    BY <1>1, <1>4, <2>2 DEF Fits, Reviewed, StageOf
  <2> QED BY <2>1, <2>2
<1>5. CASE s = "repairing" /\ n \in {"verify", "review"}
  BY <1>1, <1>5 DEF Fits, Built, Reviewed
<1> QED BY <1>2, <1>3, <1>4, <1>5

\* Moving a node, seen from the nodes of each task.
LEMMA NodeIsMoved ==
  ASSUME GraphTables, NEW t \in Tasks, NEW n \in Nodes, NEW target \in NodeStatuses,
         NEW e \in Executions \cup {NoExec}, MoveNode(t, n, target, e)
  PROVE  /\ \A u \in Tasks : u # t => node'[u] = node[u]
         /\ \A m \in Nodes : m # n => node'[t][m] = node[t][m]
         /\ node'[t][n].status = target
         /\ node'[t][n].exec = IF e = NoExec THEN node[t][n].exec ELSE e
<1>1. node \in [Tasks -> [Nodes -> NodeRow]] /\ node[t][n] \in NodeRow /\ node[t] \in [Nodes -> NodeRow]
  BY DEF GraphTables
<1> DEFINE row == [[node[t][n] EXCEPT
                     !.status = target,
                     !.attempts = IF target = "running" THEN node[t][n].attempts + 1
                                                        ELSE node[t][n].attempts]
                     EXCEPT !.exec = IF e = NoExec THEN node[t][n].exec ELSE e]
<1>2. node' = [node EXCEPT ![t] = [node[t] EXCEPT ![n] = row]]
  BY <1>1 DEF MoveNode, SetNode
<1>3. row.status = target /\ row.exec = IF e = NoExec THEN node[t][n].exec ELSE e
  BY <1>1 DEF NodeRow
<1> HIDE DEF row
<1> QED BY <1>1, <1>2, <1>3

-----------------------------------------------------------------------------
(* What a driver knows of its task and its nodes.                          *)

Quality == {"verify", "review", "package"}

\* The task is where this turn began, unless it was cancelled meanwhile.
Still(s, stage) == s \in {stage, "cancelled"}

\* The nodes before it are of the stage its task stands in.
OfStage(row, s) ==
  \E stage : /\ row.todo \in Seq({n \in Nodes : StageOf(n) = stage})
             /\ Still(s, stage)
             /\ row.from = stage \/ stage \in {"implementing", "repairing"}

\* What makes the transition at the end of a turn right.
Finished(row, N) ==
  /\ row.from = "implementing" => Built(N)
  /\ row.from = "repairing" => ~Done(N, "verify") /\ ~Done(N, "review")
  /\ row.from = "verifying" /\ row.verdict # "rejected" => Done(N, "verify")
  /\ row.from = "reviewing" /\ row.verdict # "rejected" => Done(N, "review")
  /\ row.from = "packaging" => Done(N, "package")

\* For a task in state s.
InStage(row, s, N) ==
  /\ row.pc \in Handling \cup {"adopt"} => OfStage(row, s)
  /\ row.pc = "package" => Head(row.todo) = "package"
  /\ row.pc = "verdict" => /\ Head(row.todo) \in Quality
                           /\ Head(row.todo) = "package" => row.verdict = "passed"
  /\ row.pc = "count" => row.verdict = "rejected" /\ row.from \in {"verifying", "reviewing"}
  /\ row.pc = "requalify" => /\ Still(s, "repairing")
                             /\ row.todo = <<"review">> => ~Done(N, "verify")
  /\ row.pc \in {"integrate", "merge", "integrated"} \/ (row.pc = "adopt" /\ row.todo = <<"integrate">>)
       => Still(s, "implementing") /\ row.from = "implementing"
  /\ row.pc \in {"unpark", "restore"} => ~Done(N, Head(row.todo))
  /\ row.pc = "restore" => s # "authentication_required"
  /\ row.pc = "advance" => Finished(row, N)

AllInStage ==
  \A p \in Processes : Drives(p) => InStage(process[p], task[Own(p)].state, node[Own(p)])

\* Where it knows nothing.
Free == {"workspace", "record", "open", "inspect", "reconcile", "look", "reread", "cancel",
         "join", "block"} \cup Ended

LEMMA FreeInStage ==
  ASSUME NEW row, NEW s, NEW N, row.pc \in Free
  PROVE  InStage(row, s, N)
BY DEF InStage, Free, Ended, Handling

\* Points of a stage between the first of its nodes and the last.
Midway == {"node", "reserve", "start", "call", "excepted", "judge", "checkpoint", "succeed", "adopt"}

LEMMA StageOfHead ==
  ASSUME NEW row, NEW s, OfStage(row, s), row.todo # <<>>
  PROVE  /\ Head(row.todo) \in Nodes
         /\ Still(s, StageOf(Head(row.todo)))
         /\ Head(row.todo) \in Quality => row.from = StageOf(Head(row.todo))
<1>1. PICK stage : /\ row.todo \in Seq({n \in Nodes : StageOf(n) = stage})
                   /\ Still(s, stage)
                   /\ row.from = stage \/ stage \in {"implementing", "repairing"}
  BY DEF OfStage
<1>2. Head(row.todo) \in {n \in Nodes : StageOf(n) = stage}
  BY <1>1
<1> QED BY <1>1, <1>2 DEF Quality, StageOf

\* A process that goes on with its nodes is still in the stage, and so is one
\* that leaves the first of them.
LEMMA OfStageStays ==
  ASSUME NEW row, NEW new, NEW s, OfStage(row, s), row.todo # <<>>, new.todo = row.todo,
         new.from = row.from \/ Head(row.todo) \in Workers
  PROVE  OfStage(new, s)
<1>1. PICK stage : /\ row.todo \in Seq({n \in Nodes : StageOf(n) = stage})
                   /\ Still(s, stage)
                   /\ row.from = stage \/ stage \in {"implementing", "repairing"}
  BY DEF OfStage
<1>2. Head(row.todo) \in {n \in Nodes : StageOf(n) = stage}
  BY <1>1
<1>3. Head(row.todo) \in Workers => stage \in {"implementing", "repairing"}
  BY <1>2, SubtasksAssumption DEF Workers, StageOf
<1> QED BY <1>1, <1>3 DEF OfStage

LEMMA LeavingInStage ==
  ASSUME NEW row, NEW new, NEW s, NEW N, OfStage(row, s), row.todo # <<>>,
         new.pc \in {"node", "join"}, new.todo = Tail(row.todo), new.from = row.from
  PROVE  InStage(new, s, N)
<1>1. PICK stage : /\ row.todo \in Seq({n \in Nodes : StageOf(n) = stage})
                   /\ Still(s, stage)
                   /\ row.from = stage \/ stage \in {"implementing", "repairing"}
  BY DEF OfStage
<1>2. Tail(row.todo) \in Seq({n \in Nodes : StageOf(n) = stage})
  BY <1>1
<1>3. OfStage(new, s)
  BY <1>1, <1>2 DEF OfStage
<1> QED BY <1>3 DEF InStage, Handling

\* Somebody else cancels or submits the task.
LEMMA InStageMeanwhile ==
  ASSUME NEW row, NEW s, NEW v, NEW N, InStage(row, s, N),
         row.pc \in Handling \cup {"adopt"} => row.todo # <<>>,
         v \in {s, "cancelled"} \/ (s = "absent" /\ v = "contracted")
  PROVE  InStage(row, v, N)
<1>1. ASSUME OfStage(row, s), row.todo # <<>> PROVE OfStage(row, v)
  <2>1. PICK stage : /\ row.todo \in Seq({n \in Nodes : StageOf(n) = stage})
                     /\ Still(s, stage)
                     /\ row.from = stage \/ stage \in {"implementing", "repairing"}
    BY <1>1 DEF OfStage
  <2>2. s # "absent"
    <3>1. Head(row.todo) \in {n \in Nodes : StageOf(n) = stage}
      BY <1>1, <2>1
    <3> QED BY <2>1, <3>1 DEF Still, StageOf
  <2> QED BY <2>1, <2>2 DEF OfStage, Still
<1> QED BY <1>1 DEF InStage, Still

-----------------------------------------------------------------------------
(* The states of tasks.                                                    *)

\* Neither what a process only reads for, nor a move of a node, nor a call,
\* nor evidence, nor a head changes where a task stands.
LEMMA MostStepsRest ==
  ASSUME TaskTypeOK, InPlace, NEW p \in Processes,
         \/ CreateWorkspace(p) \/ RecordWorkspace(p) \/ Inspect(p) \/ RestoreNode(p)
         \/ RereadForCancel(p) \/ Look(p) \/ ResetNode(p) \/ SkipParkedNode(p) \/ RunNode(p)
         \/ Engine(p) \/ EngineRefused(p) \/ FailAssignment(p) \/ ParkNode(p) \/ CallOff(p)
         \/ GiveUp(p) \/ Commit(p) \/ Succeed(p) \/ Adopt(p) \/ Requalify(p) \/ Join(p)
         \/ RunIntegration(p) \/ Merge(p) \/ RefuseMerge(p) \/ Integrated(p)
         \/ RecordVerdict(p) \/ Package(p) \/ SettleNode(p) \/ Fail(p)
  PROVE  Resting
<1>1. UNCHANGED <<task, checkpoint>> => Resting
  BY DEF Resting
<1>2. ASSUME \/ CreateWorkspace(p) \/ Inspect(p) \/ RestoreNode(p) \/ RereadForCancel(p) \/ Look(p)
             \/ ResetNode(p) \/ SkipParkedNode(p) \/ RunNode(p) \/ EngineRefused(p)
             \/ FailAssignment(p) \/ ParkNode(p) \/ CallOff(p) \/ GiveUp(p) \/ Commit(p) \/ Succeed(p)
             \/ Requalify(p) \/ Join(p) \/ RunIntegration(p) \/ Merge(p) \/ RefuseMerge(p)
             \/ Integrated(p) \/ SettleNode(p) \/ Fail(p)
      PROVE  UNCHANGED allVars
  BY <1>2 DEF CreateWorkspace, Inspect, RestoreNode, RereadForCancel, Look, ResetNode,
     SkipParkedNode, RunNode, EngineRefused, FailAssignment, ParkNode, CallOff, GiveUp, Commit,
     Succeed, Requalify, Join, RunIntegration, Merge, RefuseMerge, Integrated, SettleNode, Fail,
     NoStoreChange, OnNodeOnly
<1>3. UNCHANGED allVars => UNCHANGED <<task, checkpoint>>
  BY DEF allVars, storeVars, taskVars, authVars
<1>4. ASSUME Engine(p) \/ RecordVerdict(p) \/ Package(p) PROVE UNCHANGED <<task, checkpoint>>
  BY <1>4 DEF Engine, Reserve, StartCall, CallReturns, CallRaises, ReserveExecution, StartExecution,
     FinishExecution, RecordVerdict, Package, AddEvidence, OnLedgerOnly, OnTaskOnly, taskVars, authVars
<1>5. ASSUME NEW t \in Tasks, NEW r, SetWorkspace(t, r) \/ SetHead(t, r), UNCHANGED authVars
      PROVE  Resting
  <2>1. \A u \in Tasks : task[u] \in TaskRow
    BY DEF TaskTypeOK
  <2>2. ASSUME NEW u \in Tasks PROVE task'[u].state = task[u].state
    <3>1. \/ task'[u] = task[u]
          \/ task'[u] = [task[u] EXCEPT !.head = r]
          \/ task'[u] = [task[u] EXCEPT !.workspace = TRUE, !.head = r]
      BY <1>5 DEF SetWorkspace, SetHead, TaskTypeOK
    <3> QED BY <2>1, <3>1 DEF TaskRow
  <2> QED BY <1>5, <2>2 DEF Resting, authVars
<1>6. ASSUME RecordWorkspace(p) \/ Adopt(p) PROVE Resting
  <2>1. Own(p) \in Tasks
    BY <1>6 DEF RecordWorkspace, Adopt, At, InPlace, Placed, Own, Ended
  <2> QED BY <1>5, <1>6, <2>1 DEF RecordWorkspace, Adopt, OnTaskOnly
<1> QED BY <1>1, <1>2, <1>3, <1>4, <1>6

\* The state of one task changes.
LEMMA OneTaskMoves ==
  ASSUME TaskTypeOK, NEW t \in Tasks, NEW from, NEW to,
         Transition(t, from, to) \/ (MoveTo(t, to) /\ from = task[t].state)
  PROVE  /\ task[t].state = from /\ task'[t].state = to
         /\ \A u \in Tasks : u # t => task'[u].state = task[u].state
<1>1. task \in [Tasks -> TaskRow] /\ task[t] \in TaskRow
  BY DEF TaskTypeOK
<1>2. \/ task' = [task EXCEPT ![t] = [task[t] EXCEPT !.state = to]]
      \/ task' = [task EXCEPT ![t] = [task[t] EXCEPT !.state = to, !.moved = <<from, to>>]]
  BY <1>1 DEF Transition, MoveTo, TaskRow
<1>3. task'[t].state = to
  BY <1>1, <1>2 DEF TaskRow
<1> QED BY <1>1, <1>2, <1>3 DEF Transition

-----------------------------------------------------------------------------
(* What steps do to nodes and states.                                      *)

\* A node of t that t's state says nothing of is moved.
Harmless(t, n, target) ==
  /\ task[t].state # "authentication_required"
  /\ \/ ~Done(node[t], n) /\ target # "succeeded"
     \/ Still(task[t].state, StageOf(n))
     \/ Still(task[t].state, "repairing") /\ n \in {"verify", "review"}

MovesHarmlessly(p) ==
  /\ Own(p) \in Tasks
  /\ \E n \in Nodes, target \in NodeStatuses, e \in {NoExec, Call(p)} :
       MoveNode(Own(p), n, target, e) /\ Harmless(Own(p), n, target)

\* The steps that move a node.
MovesNode(p) ==
  \/ RestoreNode(p) \/ ResetNode(p) \/ RunNode(p) \/ FailAssignment(p) \/ ParkNode(p) \/ CallOff(p)
  \/ GiveUp(p) \/ Succeed(p) \/ Requalify(p) \/ RunIntegration(p) \/ RefuseMerge(p)
  \/ Integrated(p) \/ SettleNode(p)

\* All drivers.
LEMMA MoversDrive ==
  ASSUME NEW p \in Processes, MovesNode(p)
  PROVE  Drives(p)
BY DEF MovesNode, RestoreNode, ResetNode, RunNode, FailAssignment, ParkNode, CallOff, GiveUp,
   Judged, Succeed, Requalify, RunIntegration, RefuseMerge, Integrated, SettleNode, At, Drives, Live,
   Ended

\* No other step does.
LEMMA OthersMoveNone ==
  ASSUME NEW p \in Processes, Step(p) \/ Begin(p) \/ Fail(p), ~MovesNode(p)
  PROVE  UNCHANGED node
BY DEF Step, Begin, Fail, MovesNode, CreateWorkspace, RecordWorkspace, OpenWorkspace, Inspect,
   ReconcileFound, Unpark, RereadForCancel, CancelTask, Look, Advance, Block, SkipParkedNode, Engine,
   Reserve, StartCall, CallReturns, CallRaises, EngineRefused, Checkpoint, Commit, Adopt, Join, Merge,
   RecordVerdict, Package, CountRejection, BeginStart, BeginResume, BeginCancel,
   RequestTaskCancellation, NoStoreChange, OnTaskOnly, OnLedgerOnly, NoGraphChange, graphVars

LEMMA MovesAreHarmless ==
  ASSUME InPlace, NEW p \in Processes, MovesNode(p),
         InStage(process[p], task[Own(p)].state, node[Own(p)])
  PROVE  UNCHANGED node \/ MovesHarmlessly(p)
<1> DEFINE t == Own(p)
<1>1. process[p] \in ProcessRow /\ Placed(process[p]) /\ Drives(p)
  BY MoversDrive DEF InPlace
<1>2. t \in Tasks
  BY <1>1 DEF Placed, Drives, Live, Own
<1>3. {"pending", "running", "failed", "authentication_required", "cancelled", "succeeded"}
        \subseteq NodeStatuses
  BY DEF NodeStatuses
<1>4. ASSUME \/ ResetNode(p) \/ RunNode(p) \/ FailAssignment(p) \/ ParkNode(p) \/ CallOff(p)
             \/ GiveUp(p) \/ Succeed(p) \/ SettleNode(p)
      PROVE  MovesHarmlessly(p)
  <2>1. process[p].pc \in Handling
    BY <1>4 DEF ResetNode, RunNode, FailAssignment, ParkNode, CallOff, GiveUp, Judged, Succeed,
       SettleNode, At, Handling
  <2>2. OfStage(process[p], task[t].state) /\ process[p].todo # <<>>
    BY <1>1, <2>1 DEF InStage, Placed, Handles
  <2>3. Current(p) \in Nodes /\ Still(task[t].state, StageOf(Current(p)))
    BY <2>2, StageOfHead DEF Current
  <2>4. \E target \in NodeStatuses, e \in {NoExec, Call(p)} :
           MoveNode(t, Current(p), target, e)
    BY <1>3, <1>4 DEF ResetNode, RunNode, FailAssignment, ParkNode, CallOff, GiveUp, Succeed,
       SettleNode
  <2>5. task[t].state # "authentication_required"
    BY <2>3 DEF Still, StageOf
  <2> QED BY <1>2, <2>3, <2>4, <2>5 DEF MovesHarmlessly, Harmless
<1>5. ASSUME RestoreNode(p) PROVE MovesHarmlessly(p)
  <2>1. process[p].pc = "restore" /\ process[p].todo # <<>> /\ process[p].todo \in Seq(Nodes)
    BY <1>1, <1>5 DEF RestoreNode, At, Placed, ProcessRow
  <2>2. Current(p) \in Nodes
    BY <2>1 DEF Current
  <2>3. ~Done(node[t], Current(p)) /\ task[t].state # "authentication_required"
    BY <2>1 DEF InStage, Current
  <2> QED BY <1>2, <1>3, <1>5, <2>2, <2>3 DEF RestoreNode, MovesHarmlessly, Harmless
<1>6. ASSUME Requalify(p), ~UNCHANGED node PROVE MovesHarmlessly(p)
  <2>1. process[p].todo \in {<<"verify", "review">>, <<"review">>} /\ process[p].pc = "requalify"
    BY <1>1, <1>6 DEF Requalify, At, Placed
  <2>2. Current(p) \in {"verify", "review"} /\ Current(p) \in Nodes
    BY <2>1, KnownNodes DEF Current
  <2>3. Still(task[t].state, "repairing") /\ task[t].state # "authentication_required"
    BY <2>1 DEF InStage, Still
  <2>4. MoveNode(t, Current(p), "pending", NoExec)
    BY <1>6 DEF Requalify
  <2> QED BY <1>2, <1>3, <2>2, <2>3, <2>4 DEF MovesHarmlessly, Harmless
<1>7. ASSUME RunIntegration(p) \/ RefuseMerge(p) \/ Integrated(p) PROVE MovesHarmlessly(p)
  <2>1. process[p].pc \in {"integrate", "merge", "integrated"} /\ "integrate" \in Nodes
    BY <1>1, <1>7, KnownNodes DEF RunIntegration, RefuseMerge, Integrated, At, Placed
  <2>2. /\ Still(task[t].state, StageOf("integrate"))
        /\ task[t].state # "authentication_required"
    BY <2>1 DEF InStage, Still, StageOf
  <2>3. \E target \in NodeStatuses : MoveNode(t, "integrate", target, NoExec)
    BY <1>3, <1>7 DEF RunIntegration, RefuseMerge, Integrated
  <2> QED BY <1>2, <1>3, <2>1, <2>2, <2>3 DEF MovesHarmlessly, Harmless
<1> QED BY <1>4, <1>5, <1>6, <1>7 DEF MovesNode

LEMMA FitsAtRest ==
  ASSUME AllFit, UNCHANGED node, Resting
  PROVE  AllFit'
<1> SUFFICES ASSUME NEW u \in Tasks PROVE Fits(node[u], Standing(u)')
  BY DEF AllFit
<1> QED BY DEF AllFit, Standing, Resting

\* One task goes elsewhere.
LEMMA FitsWhereItGoes ==
  ASSUME AllFit, UNCHANGED node, NEW t \in Tasks,
         \A u \in Tasks : u # t => Standing(u)' = Standing(u),
         Fits(node[t], Standing(t)')
  PROVE  AllFit'
<1> SUFFICES ASSUME NEW u \in Tasks PROVE Fits(node[u], Standing(u)')
  BY DEF AllFit
<1> QED BY DEF AllFit

LEMMA FitsWhenNodesMove ==
  ASSUME GraphTables, InPlace, AllFit, Resting, NEW p \in Processes, MovesHarmlessly(p)
  PROVE  AllFit'
<1> DEFINE t == Own(p)
<1>1. PICK n \in Nodes, target \in NodeStatuses, e \in Executions \cup {NoExec} :
        MoveNode(t, n, target, e) /\ Harmless(t, n, target)
  BY DEF MovesHarmlessly, InPlace, ProcessRow, Call
<1>2. /\ \A u \in Tasks : u # t => node'[u] = node[u]
      /\ \A m \in Nodes : m # n => node'[t][m] = node[t][m]
      /\ node'[t][n].status = target
  BY <1>1, NodeIsMoved DEF MovesHarmlessly
<1> SUFFICES ASSUME NEW u \in Tasks PROVE Fits(node'[u], Standing(u)')
  BY DEF AllFit
<1>3. Standing(u)' = Standing(u) /\ Fits(node[u], Standing(u))
  BY DEF AllFit, Standing, Resting
<1>4. CASE u # t
  BY <1>2, <1>3, <1>4
<1>5. CASE u = t
  <2>1. \A m \in Nodes \ {n} : Done(node'[t], m) <=> Done(node[t], m)
    BY <1>2 DEF Done
  <2>2. Standing(t) = task[t].state
    BY <1>1 DEF Standing, Harmless
  <2>3. \/ Done(node'[t], n) <=> Done(node[t], n)
        \/ Standing(t) \in {StageOf(n), "cancelled"}
        \/ Standing(t) \in {"repairing", "cancelled"} /\ n \in {"verify", "review"}
    BY <1>1, <1>2, <2>2 DEF Harmless, Still, Done
  <2>4. Fits(node'[t], Standing(t))
    BY <1>3, <1>5, <2>1, <2>3, StageMayMove
  <2> QED BY <1>3, <1>5, <2>4
<1> QED BY <1>4, <1>5

\* The steps that take a task somewhere else.
MovesTask(p) ==
  \/ OpenWorkspace(p) \/ ReconcileFound(p) \/ Unpark(p) \/ CancelTask(p)
  \/ Advance(p) \/ Block(p) \/ Checkpoint(p) \/ CountRejection(p)

\* Where nothing is asked of the nodes.
LEMMA NothingAsked ==
  ASSUME NEW N, NEW s \in {"blocked", "cancelled"}
  PROVE  Fits(N, s)
BY DEF Fits, Reviewed

\* The end of a turn.
LEMMA TurnsFit ==
  ASSUME NEW N, NEW row, NEW from, NEW to, from = row.from, Fits(N, from), Finished(row, N),
         to = IF row.verdict = "rejected" THEN "repairing" ELSE Onwards[from],
         <<from, to>> \in Transitions
  PROVE  Fits(N, to)
<1>1. CASE to \in {"blocked", "cancelled"}
  BY <1>1, NothingAsked
<1>2. CASE <<from, to>> \in {<<"received", "contracted">>, <<"contracted", "workspace_ready">>,
                             <<"workspace_ready", "implementing">>, <<"implemented", "verifying">>,
                             <<"verified", "reviewing">>, <<"review_complete", "packaging">>,
                             <<"verifying", "repairing">>, <<"reviewing", "repairing">>,
                             <<"review_complete", "repairing">>}
  BY <1>2 DEF Fits, Reviewed
<1>3. CASE <<from, to>> \in {<<"implementing", "implemented">>, <<"repairing", "implemented">>}
  BY <1>3 DEF Fits, Reviewed, Finished
<1>4. CASE <<from, to>> \in {<<"verifying", "verified">>, <<"reviewing", "review_complete">>,
                             <<"packaging", "awaiting_pr_approval">>}
  <2>1. row.verdict # "rejected"
    BY <1>4
  <2> QED BY <1>4, <2>1 DEF Fits, Reviewed, Finished
<1> QED BY <1>1, <1>2, <1>3, <1>4 DEF Transitions, Onward, Working

LEMMA TasksFit ==
  ASSUME TaskTypeOK, AuthTables, AllFit, InPlace, NEW p \in Processes, MovesTask(p),
         NEW t, t = Own(p), Drives(p) => InStage(process[p], task[t].state, node[t])
  PROVE  AllFit'
<1>1. process[p] \in ProcessRow /\ t \in Tasks
  BY DEF InPlace, Placed, Own, MovesTask, OpenWorkspace, ReconcileFound, Unpark, CancelTask, Advance,
     Block, Checkpoint, CountRejection, At, Ended
<1>2. UNCHANGED node
  BY DEF MovesTask, OpenWorkspace, ReconcileFound, Unpark, CancelTask, Advance, Block, Checkpoint,
     CountRejection, OnTaskOnly, OnLedgerOnly, NoGraphChange, graphVars
<1>3. Fits(node[t], Standing(t))
  BY <1>1 DEF AllFit
<1>4. \A u \in Tasks : task[u] \in TaskRow /\ checkpoint[u] \in CheckpointRow
  BY DEF TaskTypeOK, AuthTables
<1>5. ASSUME NEW to, task'[t].state = to, to # "authentication_required", UNCHANGED checkpoint,
             \A u \in Tasks : u # t => task'[u].state = task[u].state,
             Fits(node[t], to)
      PROVE  AllFit'
  <2>1. \A u \in Tasks : u # t => Standing(u)' = Standing(u)
    BY <1>5 DEF Standing
  <2>2. Standing(t)' = to
    BY <1>5 DEF Standing
  <2> QED BY <1>1, <1>2, <1>5, <2>1, <2>2, FitsWhereItGoes
<1>6. ASSUME NEW from, NEW to, Transition(t, from, to), OnTaskOnly, Fits(node[t], to)
      PROVE  AllFit'
  <2>1. to # "authentication_required"
    BY <1>6 DEF Transition, Transitions, Onward, Working
  <2>2. task'[t].state = to /\ \A u \in Tasks : u # t => task'[u].state = task[u].state
    BY <1>1, <1>6, OneTaskMoves
  <2> QED BY <1>5, <1>6, <2>1, <2>2 DEF OnTaskOnly, authVars
<1>7. ASSUME OpenWorkspace(p) PROVE AllFit'
  <2>1. Standing(t) = "contracted"
    BY <1>7 DEF OpenWorkspace, Transition, Standing
  <2>2. Fits(node[t], "workspace_ready")
    BY <1>3, <2>1 DEF Fits, Reviewed
  <2> QED BY <1>6, <1>7, <2>2 DEF OpenWorkspace
<1>8. ASSUME CancelTask(p) \/ Block(p) PROVE AllFit'
  BY <1>6, <1>8, NothingAsked DEF CancelTask, Block
<1>9. ASSUME Advance(p) PROVE AllFit'
  <2> DEFINE from == process[p].from
             to   == IF process[p].verdict = "rejected" THEN "repairing" ELSE Onwards[from]
  <2>1. Transition(t, from, to) /\ OnTaskOnly /\ process[p].pc = "advance"
    BY <1>9 DEF Advance, At
  <2>2. Drives(p)
    BY <2>1 DEF Drives, Live, Ended
  <2>3. Finished(process[p], node[t])
    BY <2>1, <2>2 DEF InStage
  <2>4. <<from, to>> \in Transitions /\ task[t].state = from
    BY <2>1 DEF Transition
  <2>5. CASE from = "authentication_required"
    <3>1. to = "cancelled"
      BY <2>4, <2>5 DEF Transitions, Onward, Working
    <3> QED BY <1>6, <2>1, <3>1, NothingAsked
  <2>6. CASE from # "authentication_required"
    <3>1. Fits(node[t], from)
      BY <1>3, <2>4, <2>6 DEF Standing
    <3>2. Fits(node[t], to)
      BY <2>3, <2>4, <3>1, TurnsFit
    <3> HIDE DEF to, from
    <3> QED BY <1>6, <2>1, <3>2
  <2> QED BY <2>5, <2>6
<1>10. ASSUME ReconcileFound(p) PROVE AllFit'
  <2>1. UNCHANGED checkpoint
    BY <1>10 DEF ReconcileFound, OnLedgerOnly, authVars
  <2>2. ASSUME NEW u \in Tasks PROVE task'[u].state \in {task[u].state, "blocked"}
    <3>1. task'[u] = task[u] \/ task'[u] = [task[u] EXCEPT !.state = "blocked"]
      BY <1>10 DEF ReconcileFound, ReconcileActive, storeVars, taskVars
    <3> QED BY <1>4, <3>1 DEF TaskRow
  <2> SUFFICES ASSUME NEW u \in Tasks PROVE Fits(node[u], Standing(u)')
    BY <1>2 DEF AllFit
  <2>3. Fits(node[u], Standing(u)) /\ Fits(node[u], "blocked")
    BY NothingAsked DEF AllFit
  <2>4. Standing(u)' \in {Standing(u), "blocked"}
    BY <2>1, <2>2 DEF Standing
  <2> QED BY <2>3, <2>4
<1>11. ASSUME Unpark(p) PROVE AllFit'
  <2>1. /\ MoveTo(t, checkpoint[t].stage) /\ task[t].state = "authentication_required"
        /\ checkpoint' = [checkpoint EXCEPT ![t].status = "resumed"]
    BY <1>11 DEF Unpark, ResumeAfterAuthentication
  <2>2. /\ task'[t].state = checkpoint[t].stage
        /\ \A u \in Tasks : u # t => task'[u].state = task[u].state
    BY <1>1, <2>1, OneTaskMoves
  <2>3. checkpoint[t].stage # "authentication_required"
    BY <1>1, <1>4 DEF CheckpointRow, Stages
  <2>4. Standing(t)' = Standing(t)
    BY <2>1, <2>2, <2>3 DEF Standing
  <2>5. \A u \in Tasks : u # t => Standing(u)' = Standing(u)
    BY <2>1, <2>2 DEF Standing, AuthTables
  <2> QED BY <1>1, <1>2, <1>3, <2>4, <2>5, FitsWhereItGoes
<1>12. ASSUME Checkpoint(p) PROVE AllFit'
  <2>1. PICK c, s, refs : CheckpointAuthentication(t, Call(p), c, s, refs)
    BY <1>12 DEF Checkpoint
  <2> DEFINE row == [status |-> "waiting", context |-> c, session |-> s, stage |-> task[t].state,
                     exec |-> Call(p), head |-> task[t].head, refs |-> refs, attempts |-> 0]
  <2>2. /\ MoveTo(t, "authentication_required") /\ task[t].state \in Stages
        /\ checkpoint' = [checkpoint EXCEPT ![t] = row] /\ row.stage = task[t].state
    BY <2>1 DEF CheckpointAuthentication, Interrupted
  <2> HIDE DEF row
  <2>3. /\ task'[t].state = "authentication_required"
        /\ \A u \in Tasks : u # t => task'[u].state = task[u].state
    BY <1>1, <2>2, OneTaskMoves
  <2>4. checkpoint'[t].stage = task[t].state /\ \A u \in Tasks : u # t => checkpoint'[u] = checkpoint[u]
    BY <1>1, <2>2 DEF AuthTables
  <2>5. Standing(t)' = Standing(t)
    BY <2>2, <2>3, <2>4 DEF Standing, Stages
  <2>6. \A u \in Tasks : u # t => Standing(u)' = Standing(u)
    BY <2>3, <2>4 DEF Standing
  <2> QED BY <1>1, <1>2, <1>3, <2>5, <2>6, FitsWhereItGoes
<1>13. ASSUME CountRejection(p) PROVE AllFit'
  <2>1. PICK s \in Signatures : RecordFailure(t, s) /\ OnTaskOnly
    BY <1>13 DEF CountRejection
  <2>2. CASE MoveTo(t, "blocked")
    <3>1. /\ task'[t].state = "blocked"
          /\ \A u \in Tasks : u # t => task'[u].state = task[u].state
      BY <1>1, <2>2, OneTaskMoves
    <3> QED BY <1>5, <2>1, <3>1, NothingAsked DEF OnTaskOnly, authVars
  <2>3. CASE task' = [task EXCEPT ![t].repairs = @ + 1]
    <3>1. ASSUME NEW u \in Tasks PROVE task'[u].state = task[u].state
      <4>1. task'[u] = task[u] \/ task'[u] = [task[u] EXCEPT !.repairs = @ + 1]
        BY <1>1, <2>3 DEF TaskTypeOK
      <4> QED BY <1>4, <4>1 DEF TaskRow
    <3>2. Resting
      BY <2>1, <3>1 DEF Resting, OnTaskOnly, authVars
    <3> QED BY <1>2, <3>2, FitsAtRest
  <2> QED BY <2>1, <2>2, <2>3 DEF RecordFailure
<1> QED BY <1>7, <1>8, <1>9, <1>10, <1>11, <1>12, <1>13 DEF MovesTask

-----------------------------------------------------------------------------
(* What a driver knows after its step.                                     *)

\* The row of a process that goes on.
LEMMA GotoRow ==
  ASSUME InPlace, NEW p \in Processes, NEW pc \in Points \ Ended, Goto(p, pc)
  PROVE  /\ process'[p].pc = pc /\ process'[p].task = Own(p)
         /\ process'[p].todo = process[p].todo /\ process'[p].from = process[p].from
         /\ process'[p].verdict = process[p].verdict /\ process'[p].exec = process[p].exec
<1>1. process[p] \in ProcessRow
  BY DEF InPlace
<1>2. process'[p] = [process[p] EXCEPT !.pc = pc]
  BY GotoKeeps
<1> QED BY <1>1, <1>2 DEF ProcessRow, Own

\* The steps from one point of a node to the next.
GoesOn(p) ==
  \/ ResetNode(p) \/ (RunNode(p) /\ Current(p) # "package")
  \/ Reserve(p) \/ StartCall(p) \/ (\E report \in Reports : CallReturns(p, report))
  \/ ((CallRaises(p) \/ EngineRefused(p)) /\ Current(p) \in Workers)
  \/ ParkNode(p) \/ Commit(p) \/ (Succeed(p) /\ OnTaskBranch(Current(p)))

LEMMA GoesOnRow ==
  ASSUME InPlace, NEW p \in Processes, GoesOn(p)
  PROVE  /\ process[p].pc \in Handling
         /\ process'[p].pc \in Midway /\ process'[p].task = Own(p)
         /\ process'[p].todo = process[p].todo
         /\ process'[p].from = process[p].from \/ Current(p) \in Workers
<1> DEFINE Goal == /\ process'[p].pc \in Midway /\ process'[p].task = Own(p)
                   /\ process'[p].todo = process[p].todo
                   /\ process'[p].from = process[p].from \/ Current(p) \in Workers
<1>1. process[p] \in ProcessRow
  BY DEF InPlace
<1>2. process[p].pc \in Handling
  BY DEF GoesOn, ResetNode, RunNode, Reserve, StartCall, CallReturns, CallRaises, EngineRefused,
     ParkNode, Commit, Judged, Succeed, At, Handling
<1>3. ASSUME NEW row, process' = [process EXCEPT ![p] = row], row.pc \in Midway,
             row.task = process[p].task, row.todo = process[p].todo,
             row.from = process[p].from \/ Current(p) \in Workers
      PROVE  Goal
  BY <1>3 DEF InPlace, Own
<1>4. ASSUME NEW pc \in Midway, Goto(p, pc) PROVE Goal
  <2>1. pc \in Points \ Ended
    BY DEF Midway, Points, Ended
  <2> QED BY <1>4, <2>1, GotoRow
<1>5. ASSUME \/ (CallRaises(p) \/ EngineRefused(p)) /\ Current(p) \in Workers
             \/ ParkNode(p) \/ (Commit(p) /\ ~OnTaskBranch(Current(p)))
             \/ (Succeed(p) /\ OnTaskBranch(Current(p)))
      PROVE  Goal
  <2>1. \E pc \in Midway : Goto(p, pc)
    BY <1>5 DEF CallRaises, EngineRefused, ParkNode, Commit, Succeed, Midway
  <2> QED BY <1>4, <2>1
<1>6. ASSUME ResetNode(p) PROVE Goal
  <2> DEFINE row == [process[p] EXCEPT !.seen[Current(p)] = "pending"]
  <2>1. process' = [process EXCEPT ![p] = row] /\ process[p].pc = "node"
    BY <1>1, <1>6 DEF ResetNode, At, InPlace, ProcessRow
  <2>2. /\ row.pc \in Midway /\ row.task = process[p].task /\ row.todo = process[p].todo
        /\ row.from = process[p].from
    BY <1>1, <2>1 DEF ProcessRow, Midway
  <2> HIDE DEF row
  <2> QED BY <1>3, <2>1, <2>2
<1>7. ASSUME RunNode(p) /\ Current(p) # "package" PROVE Goal
  <2> DEFINE from == IF Current(p) \in Workers THEN task[Own(p)].state ELSE process[p].from
             row  == [[process[p] EXCEPT !.from = from] EXCEPT !.pc = "reserve"]
  <2>1. process' = [process EXCEPT ![p] = row]
    BY <1>1, <1>7 DEF RunNode, InPlace, ProcessRow
  <2>2. from = process[p].from \/ Current(p) \in Workers
    OBVIOUS
  <2> HIDE DEF from
  <2>3. /\ row.pc \in Midway /\ row.task = process[p].task /\ row.todo = process[p].todo
        /\ row.from = from
    BY <1>1 DEF ProcessRow, Midway
  <2> HIDE DEF row
  <2> QED BY <1>3, <2>1, <2>2, <2>3
<1>8. ASSUME Reserve(p) PROVE Goal
  <2>1. PICK e : process' = [process EXCEPT ![p] = [[process[p] EXCEPT !.exec = e] EXCEPT !.pc = "start"]]
    BY <1>1, <1>8 DEF Reserve, InPlace, ProcessRow
  <2> DEFINE row == [[process[p] EXCEPT !.exec = e] EXCEPT !.pc = "start"]
  <2>2. /\ row.pc \in Midway /\ row.task = process[p].task /\ row.todo = process[p].todo
        /\ row.from = process[p].from
    BY <1>1 DEF ProcessRow, Midway
  <2> HIDE DEF row
  <2> QED BY <1>3, <2>1, <2>2 DEF row
<1>9. ASSUME StartCall(p) PROVE Goal
  <2>1. PICK late : process' = [process EXCEPT ![p] =
                                  [[process[p] EXCEPT !.pc = "call"] EXCEPT !.late = late]]
    BY <1>1, <1>9 DEF StartCall, InPlace, ProcessRow
  <2> DEFINE row == [[process[p] EXCEPT !.pc = "call"] EXCEPT !.late = late]
  <2>2. /\ row.pc \in Midway /\ row.task = process[p].task /\ row.todo = process[p].todo
        /\ row.from = process[p].from
    BY <1>1 DEF ProcessRow, Midway
  <2> HIDE DEF row
  <2> QED BY <1>3, <2>1, <2>2 DEF row
<1>10. ASSUME \E report \in Reports : CallReturns(p, report) PROVE Goal
  <2>1. PICK v : process' = [process EXCEPT ![p] =
                               [[process[p] EXCEPT !.verdict = v] EXCEPT !.pc = "judge"]]
    BY <1>1, <1>10 DEF CallReturns, InPlace, ProcessRow
  <2> DEFINE row == [[process[p] EXCEPT !.verdict = v] EXCEPT !.pc = "judge"]
  <2>2. /\ row.pc \in Midway /\ row.task = process[p].task /\ row.todo = process[p].todo
        /\ row.from = process[p].from
    BY <1>1 DEF ProcessRow, Midway
  <2> HIDE DEF row
  <2> QED BY <1>3, <2>1, <2>2 DEF row
<1>11. ASSUME Commit(p) /\ OnTaskBranch(Current(p)) PROVE Goal
  <2>1. PICK new : process' = [process EXCEPT ![p] =
                                 [[process[p] EXCEPT !.head = new] EXCEPT !.pc = "succeed"]]
    BY <1>1, <1>11 DEF Commit, InPlace, ProcessRow
  <2> DEFINE row == [[process[p] EXCEPT !.head = new] EXCEPT !.pc = "succeed"]
  <2>2. /\ row.pc \in Midway /\ row.task = process[p].task /\ row.todo = process[p].todo
        /\ row.from = process[p].from
    BY <1>1 DEF ProcessRow, Midway
  <2> HIDE DEF row
  <2> QED BY <1>3, <2>1, <2>2 DEF row
<1> QED BY <1>2, <1>5, <1>6, <1>7, <1>8, <1>9, <1>10, <1>11 DEF GoesOn

\* p knows where it is after its step on t, or knows nothing.
Knows(p, t) ==
  \/ process'[p].pc \in Free
  \/ process'[p].task = t /\ InStage(process'[p], task'[t].state, node'[t])

\* The steps after which it knows nothing.
Forgets(p) ==
  \/ CreateWorkspace(p) \/ RecordWorkspace(p) \/ OpenWorkspace(p) \/ Inspect(p)
  \/ ReconcileFound(p) \/ RestoreNode(p) \/ RereadForCancel(p) \/ CancelTask(p)
  \/ Advance(p) \/ Block(p) \/ SkipParkedNode(p) \/ FailAssignment(p) \/ Checkpoint(p)
  \/ CallOff(p) \/ GiveUp(p) \/ RefuseMerge(p) \/ Fail(p)
  \/ (CallRaises(p) /\ Current(p) \notin Workers)

\* A cancellation ends, or is about to cancel.
LEMMA BystandersEnd ==
  ASSUME InPlace, NEW p \in Processes, RereadForCancel(p) \/ CancelTask(p) \/ Fail(p)
  PROVE  process'[p].pc \in {"cancel"} \cup Ended
<1>1. CASE RereadForCancel(p)
  <2> DEFINE row == [process[p] EXCEPT !.from = task[Own(p)].state]
  <2>1. PICK pc \in {"returned", "cancel"} : process'[p] = Then(row, pc)
    BY <1>1 DEF RereadForCancel, InPlace
  <2>2. Then(row, pc).pc = pc
    <3>1. process[p] \in ProcessRow
      BY DEF InPlace
    <3> QED BY <3>1 DEF Then, ProcessRow, Unstarted
  <2> QED BY <2>1, <2>2 DEF Ended
<1>2. CASE CancelTask(p) \/ Fail(p)
  <2>1. \E pc \in Ended : Goto(p, pc) /\ pc \in Points
    BY <1>2 DEF CancelTask, Fail, Ended, Points
  <2> QED BY <2>1, GotoKeeps
<1> QED BY <1>1, <1>2

LEMMA ForgottenIsFree ==
  ASSUME InPlace, NEW p \in Processes, Forgets(p)
  PROVE  process'[p].pc \in Free
<1>1. Free \subseteq Points
  BY DEF Free, Points, Ended
<1>2. CASE RereadForCancel(p)
  BY <1>2, BystandersEnd DEF Free
<1>3. CASE ~RereadForCancel(p)
  <2>1. \E pc \in Free : Goto(p, pc)
    BY <1>3 DEF Forgets, CreateWorkspace, RecordWorkspace, OpenWorkspace, Inspect, ReconcileFound,
       RestoreNode, CancelTask, Advance, Block, SkipParkedNode, FailAssignment, Checkpoint, CallOff,
       GiveUp, RefuseMerge, Fail, CallRaises, Free, Ended
  <2> QED BY <1>1, <2>1, GotoKeeps
<1> QED BY <1>2, <1>3

LEMMA GoingOnKnows ==
  ASSUME InPlace, TaskTypeOK, NEW p \in Processes, NEW t \in Tasks, t = Own(p), GoesOn(p),
         InStage(process[p], task[t].state, node[t])
  PROVE  Knows(p, t)
<1>1. /\ process[p].pc \in Handling /\ process'[p].pc \in Midway /\ process'[p].task = t
      /\ process'[p].todo = process[p].todo
      /\ process'[p].from = process[p].from \/ Head(process[p].todo) \in Workers
  BY GoesOnRow DEF Current
<1>2. Resting
  BY MostStepsRest DEF GoesOn, Engine
<1>3. OfStage(process[p], task[t].state) /\ Handles(process[p])
  BY <1>1 DEF InStage, InPlace, Placed
<1>4. process[p].todo # <<>> /\ Head(process[p].todo) # "integrate"
  BY <1>3 DEF Handles
<1>5. OfStage(process'[p], task[t].state)
  BY <1>1, <1>3, <1>4, OfStageStays
<1>6. task'[t].state = task[t].state
  BY <1>2 DEF Resting
<1>7. process'[p].todo # <<"integrate">>
  BY <1>1, <1>4
<1> QED BY <1>1, <1>5, <1>6, <1>7 DEF Knows, InStage, Midway

\* A package is made, and a verdict recorded.
LEMMA RecordingKnows ==
  ASSUME InPlace, TaskTypeOK, NEW p \in Processes, NEW t \in Tasks, t = Own(p),
         (RunNode(p) /\ Current(p) = "package") \/ RecordVerdict(p) \/ Package(p),
         InStage(process[p], task[t].state, node[t])
  PROVE  Knows(p, t)
<1>1. process[p] \in ProcessRow /\ process[p].pc \in Handling
  BY DEF InPlace, RunNode, RecordVerdict, Judged, Package, At, Handling
<1>2. Resting
  BY MostStepsRest
<1>3. OfStage(process[p], task[t].state) /\ Handles(process[p])
  BY <1>1 DEF InStage, InPlace, Placed
<1>4. task'[t].state = task[t].state /\ process[p].todo # <<>>
  BY <1>2, <1>3 DEF Resting, Handles
<1>5. ASSUME NEW row, process' = [process EXCEPT ![p] = row], row.task = process[p].task,
             row.todo = process[p].todo, row.from = process[p].from,
             \/ row.pc = "package" /\ Head(process[p].todo) = "package"
             \/ row.pc = "verdict" /\ Head(process[p].todo) \in {"verify", "review"}
             \/ row.pc = "verdict" /\ Head(process[p].todo) = "package" /\ row.verdict = "passed"
      PROVE  Knows(p, t)
  <2>1. process'[p] = row /\ row.task = t
    BY <1>5 DEF InPlace, Own
  <2>2. OfStage(row, task[t].state)
    BY <1>3, <1>4, <1>5, OfStageStays
  <2>3. InStage(row, task[t].state, node'[t])
    BY <1>5, <2>2 DEF InStage, Handling, Quality
  <2> QED BY <1>4, <2>1, <2>3 DEF Knows
<1>6. CASE RunNode(p) /\ Current(p) = "package"
  <2> DEFINE row == [process[p] EXCEPT !.pc = "package"]
  <2>1. "package" \notin Workers
    BY SubtasksAssumption DEF Workers
  <2>2. process' = [process EXCEPT ![p] = row]
    BY <1>1, <1>6, <2>1 DEF RunNode, InPlace, ProcessRow
  <2>3. /\ row.pc = "package" /\ row.task = process[p].task /\ row.todo = process[p].todo
        /\ row.from = process[p].from
    BY <1>1 DEF ProcessRow
  <2> HIDE DEF row
  <2> QED BY <1>5, <1>6, <2>2, <2>3 DEF Current
<1>7. CASE RecordVerdict(p)
  <2> DEFINE row == [process[p] EXCEPT !.pc = "verdict"]
  <2>1. process' = [process EXCEPT ![p] = row] /\ Current(p) \in {"verify", "review"}
    BY <1>7 DEF RecordVerdict, Goto, Then, Ended, QualityKind
  <2>2. /\ row.pc = "verdict" /\ row.task = process[p].task /\ row.todo = process[p].todo
        /\ row.from = process[p].from
    BY <1>1 DEF ProcessRow
  <2> HIDE DEF row
  <2> QED BY <1>5, <2>1, <2>2 DEF Current
<1>8. CASE Package(p)
  <2> DEFINE row == [[process[p] EXCEPT !.verdict = "passed"] EXCEPT !.pc = "verdict"]
  <2>1. process' = [process EXCEPT ![p] = row]
    BY <1>1, <1>8 DEF Package, InPlace, ProcessRow
  <2>2. /\ row.pc = "verdict" /\ row.task = process[p].task /\ row.todo = process[p].todo
        /\ row.from = process[p].from /\ row.verdict = "passed"
    BY <1>1 DEF ProcessRow
  <2>3. Head(process[p].todo) = "package"
    BY <1>8 DEF Package, At, InStage
  <2> HIDE DEF row
  <2> QED BY <1>5, <2>1, <2>2, <2>3
<1> QED BY <1>6, <1>7, <1>8

\* A part of the plan is done, and a commit becomes the task's head.
LEMMA LeavingKnows ==
  ASSUME InPlace, TaskTypeOK, NEW p \in Processes, NEW t \in Tasks, t = Own(p),
         (Succeed(p) /\ ~OnTaskBranch(Current(p))) \/ Adopt(p),
         InStage(process[p], task[t].state, node[t])
  PROVE  Knows(p, t)
<1>1. process[p] \in ProcessRow /\ process[p].pc \in Handling \cup {"adopt"} /\ Placed(process[p])
  BY DEF InPlace, Succeed, Adopt, At, Handling
<1>2. Resting
  BY MostStepsRest
<1>3. OfStage(process[p], task[t].state) /\ task'[t].state = task[t].state
  BY <1>1, <1>2 DEF InStage, Resting
<1>4. process[p].todo # <<>>
  BY <1>1 DEF Placed, Handles
<1>5. ASSUME LeaveNode(p) PROVE Knows(p, t)
  <2> DEFINE pc  == IF Len(process[p].todo) > 1 THEN "node" ELSE "join"
             row == [[process[p] EXCEPT !.todo = Tail(process[p].todo)] EXCEPT !.pc = pc]
  <2>1. process' = [process EXCEPT ![p] = row]
    BY <1>1, <1>5 DEF LeaveNode, InPlace, ProcessRow
  <2>2. /\ row.pc \in {"node", "join"} /\ row.task = process[p].task
        /\ row.todo = Tail(process[p].todo) /\ row.from = process[p].from
    BY <1>1 DEF ProcessRow
  <2> HIDE DEF row
  <2>3. InStage(row, task[t].state, node'[t])
    BY <1>3, <1>4, <2>2, LeavingInStage
  <2>4. process'[p] = row
    BY <2>1 DEF InPlace
  <2> QED BY <1>3, <2>2, <2>3, <2>4 DEF Knows, Own
<1>6. CASE Succeed(p) /\ ~OnTaskBranch(Current(p))
  BY <1>5, <1>6 DEF Succeed
<1>7. CASE Adopt(p)
  <2>1. \/ process[p].todo = <<"integrate">> /\ Decomposed
        \/ Handles(process[p]) /\ Head(process[p].todo) \in Workers
    BY <1>7 DEF Adopt, At, InPlace, Placed
  <2>2. {"integrate", "repair"} \cap Implementations = {}
    BY SubtasksAssumption
  <2>3. CASE Current(p) = "integrate"
    <3>1. process[p].todo = <<"integrate">>
      BY <2>1, <2>3, SubtasksAssumption DEF Current, Workers
    <3>2. Still(task[t].state, "implementing") /\ process[p].from = "implementing"
      BY <1>7, <3>1 DEF Adopt, At, InStage
    <3>3. Goto(p, "integrated") /\ "integrated" \in Points \ Ended
      BY <1>7, <2>2, <2>3 DEF Adopt, Points, Ended
    <3>4. /\ process'[p].pc = "integrated" /\ process'[p].task = t
          /\ process'[p].from = "implementing"
      BY <3>2, <3>3, GotoRow
    <3> QED BY <1>3, <3>2, <3>4 DEF Knows, InStage, Handling
  <2>4. CASE Current(p) = "repair"
    <3> DEFINE row == [[process[p] EXCEPT !.todo = <<"verify", "review">>] EXCEPT !.pc = "requalify"]
    <3>1. process' = [process EXCEPT ![p] = row]
      <4>1. process' = [process EXCEPT ![p].todo = <<"verify", "review">>, ![p].pc = "requalify"]
        BY <1>7, <2>2, <2>4 DEF Adopt
      <4> QED BY <1>1, <4>1 DEF InPlace, ProcessRow
    <3>2. /\ row.pc = "requalify" /\ row.task = process[p].task
          /\ row.todo = <<"verify", "review">>
      BY <1>1 DEF ProcessRow
    <3> HIDE DEF row
    <3>3. process'[p] = row
      BY <3>1 DEF InPlace
    <3>4. Still(task[t].state, "repairing")
      BY <1>3, <1>4, <2>4, StageOfHead DEF Current, StageOf
    <3>5. <<"verify", "review">> # <<"review">>
      OBVIOUS
    <3> QED BY <1>3, <3>2, <3>3, <3>4, <3>5 DEF Knows, InStage, Handling, Own
  <2>5. CASE Current(p) \in Implementations
    <3>1. Current(p) \notin {"integrate", "repair"}
      BY <2>2, <2>5
    <3> QED BY <1>5, <1>7, <2>5, <3>1 DEF Adopt
  <2> QED BY <2>1, <2>3, <2>4, <2>5 DEF Current, Workers
<1> QED BY <1>6, <1>7

\* The nodes a turn has before it are of the stage it began in.
LEMMA StageNodesOfStage ==
  ASSUME NEW s, NEW seen
  PROVE  /\ StageNodes(s, seen) \in Seq({n \in Nodes : StageOf(n) = s})
         /\ StageNodes(s, seen) = <<>> => s \notin {"repairing", "verifying", "reviewing", "packaging"}
<1> DEFINE Mine(u) == {n \in Nodes : StageOf(n) = u}
<1>1. \A u : \A n \in Mine(u) : <<n>> \in Seq(Mine(u))
  OBVIOUS
<1>2. \A u : <<>> \in Seq(Mine(u))
  OBVIOUS
<1>3. CASE s = "implementing"
  <2>1. /\ Subtasks[1] \in Mine(s)
        /\ Decomposed => Subtasks[2] \in Mine(s)
    BY <1>3, KnownNodes, SubtasksAssumption DEF Decomposed, Implementations, Range, StageOf
  <2>2. /\ ToRun(Subtasks[1], seen) \in Seq(Mine(s))
        /\ (IF Decomposed THEN ToRun(Subtasks[2], seen) ELSE <<>>) \in Seq(Mine(s))
    BY <1>1, <1>2, <2>1 DEF ToRun
  <2> QED BY <1>3, <2>2, ConcatProperties DEF StageNodes
<1>4. CASE s # "implementing"
  <2>1. /\ "repair" \in Mine("repairing") /\ "verify" \in Mine("verifying")
        /\ "review" \in Mine("reviewing") /\ "package" \in Mine("packaging")
    BY KnownNodes DEF StageOf
  <2>2. /\ <<"repair">> \in Seq(Mine("repairing")) /\ <<"verify">> \in Seq(Mine("verifying"))
        /\ <<"review">> \in Seq(Mine("reviewing")) /\ <<"package">> \in Seq(Mine("packaging"))
    BY <1>1, <2>1
  <2>3. <<"repair">> # <<>> /\ <<"verify">> # <<>> /\ <<"review">> # <<>> /\ <<"package">> # <<>>
    OBVIOUS
  <2> HIDE DEF Mine
  <2>4. /\ StageNodes(s, seen) \in Seq(Mine(s))
        /\ StageNodes(s, seen) = <<>> => s \notin {"repairing", "verifying", "reviewing", "packaging"}
    BY <1>2, <1>4, <2>2, <2>3 DEF StageNodes
  <2> QED BY <2>4 DEF Mine
<1> QED BY <1>3, <1>4

LEMMA LookKnows ==
  ASSUME InPlace, NEW p \in Processes, NEW t \in Tasks, t = Own(p), Look(p)
  PROVE  Knows(p, t)
<1> DEFINE s    == task[t].state
           seen == [n \in Nodes |-> node[t][n].status]
           todo == StageNodes(s, seen)
           turn == [Unstarted EXCEPT !.task = t, !.from = s, !.head = task[t].head,
                      !.repairs = task[t].repairs, !.seen = seen, !.todo = todo,
                      !.late = process[p].late]
           out  == In(t, {"running", "cancel_requested", "reconciliation_required"}) # {}
           where == CASE s \in AtRest \/ (cancelRequested[t] /\ out) -> "returned"
                      [] s \in Driven /\ cancelRequested[t] /\ ~out -> "cancel"
                      [] s \in Driven /\ ~cancelRequested[t] /\ todo = <<>>   -> AfterStage(s)
                      [] s \in Driven /\ ~cancelRequested[t] /\ todo # <<>>   -> "node"
<1>1. process'[p] = Then(turn, where) /\ s \in AtRest \cup Driven
  BY DEF Look, InPlace
<1>2. UNCHANGED task
  BY DEF Look, NoStoreChange, allVars, storeVars, taskVars
<1>3. /\ todo \in Seq({n \in Nodes : StageOf(n) = s})
      /\ todo = <<>> => s \notin {"repairing", "verifying", "reviewing", "packaging"}
  BY StageNodesOfStage
<1>4. /\ AfterStage(s) \in {"join", "advance"} /\ AtRest \cap Driven = {}
      /\ AfterStage(s) = "advance" => s # "implementing"
  BY DEF AfterStage, AtRest, Driven, Settled, Working
<1>5. /\ turn.task = t /\ turn.from = s /\ turn.todo = todo
  BY DEF Unstarted
<1>6. \A pc : DOMAIN turn = DOMAIN Unstarted /\ "pc" \in DOMAIN Unstarted
  BY DEF Unstarted
<1>7. /\ where \in {"returned", "cancel", "join", "advance", "node"}
      /\ where = "advance" => todo = <<>> /\ s # "implementing"
  <2> HIDE DEF s, todo, out
  <2>1. \/ s \in AtRest \/ (cancelRequested[t] /\ out)
        \/ s \in Driven /\ cancelRequested[t] /\ ~out
        \/ s \in Driven /\ ~cancelRequested[t] /\ todo = <<>>
        \/ s \in Driven /\ ~cancelRequested[t] /\ todo # <<>>
    BY <1>1
  <2> QED BY <1>4, <2>1
<1> HIDE DEF turn, where
<1>8. ASSUME NEW pc, pc \notin Ended, where = pc
      PROVE  process'[p] = [turn EXCEPT !.pc = pc]
  BY <1>1, <1>8 DEF Then
<1>9. ASSUME NEW pc, NEW row, row = [turn EXCEPT !.pc = pc]
      PROVE  /\ row.pc = pc /\ row.task = t /\ row.from = s /\ row.todo = todo
  BY <1>5, <1>6, <1>9 DEF Unstarted, turn
<1>10. CASE where \in {"returned", "cancel", "join"}
  <2>1. process'[p].pc = where
    <3>1. CASE where = "returned"
      BY <1>1, <3>1 DEF Then, Unstarted, Ended
    <3>2. CASE where # "returned"
      BY <1>8, <1>9, <1>10, <3>2 DEF Ended
    <3> QED BY <3>1, <3>2
  <2> QED BY <1>10, <2>1 DEF Knows, Free, Ended
<1>11. CASE where \in {"advance", "node"}
  <2>1. /\ process'[p].pc = where /\ process'[p].task = t /\ process'[p].from = s
        /\ process'[p].todo = todo
    <3>1. process'[p] = [turn EXCEPT !.pc = where]
      BY <1>8, <1>11 DEF Ended
    <3> HIDE DEF s, todo
    <3> QED BY <1>9, <3>1
  <2>2. OfStage(process'[p], s)
    BY <1>3, <2>1 DEF OfStage, Still
  <2>3. where = "advance" => Finished(process'[p], node'[t])
    BY <1>3, <1>7, <2>1 DEF Finished
  <2>4. InStage(process'[p], s, node'[t])
    <3> HIDE DEF s, todo
    <3> QED BY <1>11, <2>1, <2>2, <2>3 DEF InStage, Handling
  <2> QED BY <1>2, <2>1, <2>4 DEF Knows
<1> QED BY <1>7, <1>10, <1>11

\* The end of the implementation.
LEMMA JoinKnows ==
  ASSUME InPlace, TaskTypeOK, GraphTables, NEW p \in Processes, NEW t \in Tasks, t = Own(p),
         Join(p) \/ RunIntegration(p) \/ Merge(p) \/ Integrated(p),
         InStage(process[p], task[t].state, node[t])
  PROVE  Knows(p, t)
<1>1. process[p] \in ProcessRow /\ Placed(process[p])
  BY DEF InPlace
<1>2. task'[t].state = task[t].state
  BY MostStepsRest DEF Resting
<1>3. ASSUME RunIntegration(p) \/ Merge(p) \/ Integrated(p)
      PROVE  /\ Still(task[t].state, "implementing") /\ process[p].from = "implementing"
             /\ Decomposed /\ "integrate" \in Nodes
  BY <1>1, <1>3, KnownNodes DEF RunIntegration, Merge, Integrated, At, InStage, Placed
<1>4. CASE Join(p)
  <2> DEFINE done  == \A n \in Implementations : node[t][n].status = "succeeded"
             where == CASE task[t].state # "implementing"           -> "look"
                        [] task[t].state = "implementing" /\ ~done  -> "returned"
                        [] OTHER -> IF Decomposed /\ node[t]["integrate"].status # "succeeded"
                                    THEN "integrate" ELSE "advance"
             row   == [process[p] EXCEPT !.from = "implementing"]
  <2>1. process'[p] = Then(row, where) /\ UNCHANGED node
    BY <1>4 DEF Join, InPlace, NoStoreChange, NoGraphChange, graphVars
  <2>2. /\ where \in {"look", "returned", "integrate", "advance"}
        /\ where \in {"integrate", "advance"} => task[t].state = "implementing"
        /\ where = "advance" => done /\ (Decomposed => Done(node[t], "integrate"))
    <3> HIDE DEF done
    <3>1. \/ task[t].state # "implementing" \/ (task[t].state = "implementing" /\ ~done)
          \/ task[t].state = "implementing" /\ done
      OBVIOUS
    <3> QED BY <3>1 DEF Done
  <2>3. /\ row \in ProcessRow /\ row.task = t /\ row.from = "implementing"
    <3>1. "implementing" \in States
      BY DEF States, Working
    <3> QED BY <1>1, <3>1 DEF ProcessRow, Own
  <2> HIDE DEF row, where
  <2>4. where \in Points
    BY <2>2 DEF Points, Ended
  <2>5. process'[p].pc = where
    BY <2>1, <2>3, <2>4, ThenType
  <2>6. CASE where \in {"look", "returned"}
    BY <2>5, <2>6 DEF Knows, Free, Ended
  <2>7. CASE where \in {"integrate", "advance"}
    <3>1. process'[p].task = t /\ process'[p].from = "implementing"
      <4>1. process'[p] = [row EXCEPT !.pc = where]
        BY <2>1, <2>3, <2>4, <2>7, ThenType DEF Ended
      <4> QED BY <2>3, <4>1 DEF ProcessRow
    <3>2. where = "advance" => Built(node'[t])
      BY <2>1, <2>2, VerifyFollows DEF Built, Done
    <3>3. where = "advance" => Finished(process'[p], node'[t])
      BY <3>1, <3>2 DEF Finished
    <3> QED BY <1>2, <2>2, <2>5, <2>7, <3>1, <3>3 DEF Knows, InStage, Handling, Still
  <2> QED BY <2>2, <2>6, <2>7
<1>5. CASE RunIntegration(p)
  <2> DEFINE row == [[process[p] EXCEPT !.todo = <<"integrate">>] EXCEPT !.pc = "merge"]
  <2>1. process' = [process EXCEPT ![p] = row]
    BY <1>1, <1>5 DEF RunIntegration, InPlace, ProcessRow
  <2>2. row.pc = "merge" /\ row.task = process[p].task /\ row.from = process[p].from
    BY <1>1 DEF ProcessRow
  <2> HIDE DEF row
  <2>3. process'[p] = row
    BY <2>1 DEF InPlace
  <2> QED BY <1>2, <1>3, <1>5, <2>2, <2>3 DEF Knows, InStage, Handling, Own
<1>6. CASE Merge(p)
  <2>1. PICK new : process' = [process EXCEPT ![p] =
                                 [[process[p] EXCEPT !.head = new] EXCEPT !.pc = "adopt"]]
    BY <1>1, <1>6 DEF Merge, InPlace, ProcessRow
  <2> DEFINE row == [[process[p] EXCEPT !.head = new] EXCEPT !.pc = "adopt"]
  <2>2. /\ row.pc = "adopt" /\ row.task = process[p].task /\ row.from = process[p].from
        /\ row.todo = <<"integrate">>
    BY <1>1, <1>6 DEF ProcessRow, Merge, At, Placed
  <2> HIDE DEF row
  <2>3. process'[p] = row
    BY <2>1 DEF InPlace, row
  <2>4. <<"integrate">> \in Seq({n \in Nodes : StageOf(n) = "implementing"})
    <3>1. "integrate" \in {n \in Nodes : StageOf(n) = "implementing"}
      BY <1>3, <1>6 DEF StageOf
    <3> QED BY <3>1
  <2>5. OfStage(row, task[t].state)
    BY <1>3, <1>6, <2>2, <2>4 DEF OfStage
  <2> QED BY <1>2, <1>3, <1>6, <2>2, <2>3, <2>5 DEF Knows, InStage, Handling, Own
<1>7. CASE Integrated(p)
  <2>1. /\ MoveNode(t, "integrate", "succeeded", NoExec) /\ Goto(p, "advance")
        /\ "succeeded" \in NodeStatuses /\ "advance" \in Points \ Ended
    BY <1>7 DEF Integrated, NodeStatuses, Points, Ended
  <2>2. /\ process'[p].pc = "advance" /\ process'[p].task = t
        /\ process'[p].from = "implementing"
    BY <1>3, <1>7, <2>1, GotoRow
  <2>3. Done(node'[t], "integrate")
    BY <1>3, <1>7, <2>1, NodeIsMoved DEF Done
  <2>4. Built(node'[t])
    BY <1>3, <1>7, <2>3, VerifyFollows DEF Built
  <2> QED BY <1>2, <2>2, <2>4 DEF Knows, InStage, Handling, Finished
<1> QED BY <1>4, <1>5, <1>6, <1>7

\* A repaired candidate's quality nodes are undone, one after the other.
LEMMA RequalifyKnows ==
  ASSUME InPlace, TaskTypeOK, GraphTables, NEW p \in Processes, NEW t \in Tasks, t = Own(p),
         Requalify(p), InStage(process[p], task[t].state, node[t])
  PROVE  Knows(p, t)
<1>1. /\ process[p] \in ProcessRow /\ process[p].pc = "requalify"
      /\ process[p].todo \in {<<"verify", "review">>, <<"review">>}
  BY DEF InPlace, Placed, Requalify, At
<1>2. /\ task'[t].state = task[t].state /\ Still(task[t].state, "repairing")
      /\ process[p].todo = <<"review">> => ~Done(node[t], "verify")
  BY <1>1, MostStepsRest DEF Resting, InStage
<1> DEFINE n   == Current(p)
           pc  == IF n = "review" THEN "advance" ELSE "requalify"
           row == [[[process[p] EXCEPT !.todo = Tail(process[p].todo)] EXCEPT !.from = "repairing"]
                                EXCEPT !.pc = pc]
<1>3. process' = [process EXCEPT ![p] = row]
  BY <1>1 DEF Requalify, InPlace, ProcessRow
<1>4. /\ row.pc = pc /\ row.task = process[p].task /\ row.from = "repairing"
      /\ row.todo = Tail(process[p].todo)
  BY <1>1 DEF ProcessRow
<1>5. process'[p] = row
  BY <1>3 DEF InPlace
<1>6. n \in {"verify", "review"} /\ {"verify", "review"} \subseteq Nodes
  BY <1>1, KnownNodes DEF Current
<1>7. ~Done(node'[t], n) /\ \A m \in Nodes : m # n => node'[t][m] = node[t][m]
  <2>1. CASE node[t][n].status \in {"failed", "succeeded"}
    <3>1. MoveNode(t, n, "pending", NoExec) /\ "pending" \in NodeStatuses
      BY <2>1 DEF Requalify, NodeStatuses
    <3>2. node'[t][n].status = "pending" /\ \A m \in Nodes : m # n => node'[t][m] = node[t][m]
      BY <1>6, <3>1, NodeIsMoved
    <3> QED BY <3>2 DEF Done
  <2>2. CASE node[t][n].status \notin {"failed", "succeeded"}
    BY <2>2 DEF Requalify, Done
  <2> QED BY <2>1, <2>2
<1> HIDE DEF row
<1>8. CASE process[p].todo = <<"verify", "review">>
  <2>1. n = "verify" /\ row.todo = <<"review">>
    BY <1>4, <1>8 DEF Current
  <2> QED BY <1>2, <1>4, <1>5, <1>7, <2>1 DEF Knows, InStage, Handling, Own
<1>9. CASE process[p].todo = <<"review">>
  <2>1. n = "review"
    BY <1>9 DEF Current
  <2>2. ~Done(node'[t], "verify") /\ ~Done(node'[t], "review")
    BY <1>2, <1>6, <1>7, <1>9, <2>1 DEF Done
  <2>3. Finished(row, node'[t])
    BY <1>4, <2>2 DEF Finished
  <2> QED BY <1>4, <1>5, <2>1, <2>3 DEF Knows, InStage, Handling, Own
<1> QED BY <1>1, <1>8, <1>9

\* The end of a quality stage.
LEMMA SettlingKnows ==
  ASSUME InPlace, TaskTypeOK, GraphTables, NEW p \in Processes, NEW t \in Tasks, t = Own(p),
         SettleNode(p) \/ CountRejection(p),
         InStage(process[p], task[t].state, node[t])
  PROVE  Knows(p, t)
<1>1. process[p] \in ProcessRow /\ Placed(process[p])
  BY DEF InPlace
<1>2. CASE SettleNode(p)
  <2> DEFINE v == process[p].verdict
             n == Current(p)
  <2>1. /\ process[p].pc = "verdict" /\ v \in {"passed", "rejected", "stopped"}
        /\ n \in Quality /\ (n = "package" => v = "passed") /\ OfStage(process[p], task[t].state)
        /\ process[p].todo # <<>>
    BY <1>1, <1>2 DEF SettleNode, At, Placed, InStage, Handling, Handles, Current
  <2>2. n \in Nodes /\ process[p].from = StageOf(n)
    BY <2>1, StageOfHead DEF Current
  <2> DEFINE where  == CASE v = "passed" -> "advance" [] v = "rejected" -> "count"
                         [] v = "stopped" -> "block"
             target == IF v = "passed" THEN "succeeded" ELSE "failed"
  <2>3. MoveNode(t, n, target, Call(p)) /\ Goto(p, where)
    BY <1>2 DEF SettleNode
  <2>4. /\ where \in {"advance", "count", "block"}
        /\ where = "advance" => v = "passed"
        /\ where = "count" => v = "rejected"
    BY <2>1
  <2>5. target \in NodeStatuses /\ Call(p) \in Executions \cup {NoExec}
    BY <1>1 DEF NodeStatuses, Call, ProcessRow
  <2>6. v = "passed" => Done(node'[t], n)
    BY <2>2, <2>3, <2>5, NodeIsMoved DEF Done
  <2> HIDE DEF where
  <2>7. where \in Points \ Ended
    BY <2>4 DEF Points, Ended
  <2>8. /\ process'[p].pc = where /\ process'[p].task = t
        /\ process'[p].from = StageOf(n) /\ process'[p].verdict = v
    BY <2>2, <2>3, <2>7, GotoRow
  <2>9. CASE where = "advance"
    <3>1. v = "passed"
      BY <2>4, <2>9
    <3>2. Finished(process'[p], node'[t])
      BY <2>1, <2>6, <2>8, <3>1 DEF Finished, Quality, StageOf
    <3> QED BY <2>8, <2>9, <3>2 DEF Knows, InStage, Handling
  <2>10. CASE where = "count"
    <3>1. v = "rejected" /\ n \in {"verify", "review"}
      BY <2>1, <2>4, <2>10 DEF Quality
    <3> QED BY <2>8, <2>10, <3>1 DEF Knows, InStage, Handling, StageOf
  <2>11. CASE where = "block"
    BY <2>8, <2>11 DEF Knows, Free
  <2> QED BY <2>4, <2>9, <2>10, <2>11
<1>3. CASE CountRejection(p)
  <2>1. process[p].verdict = "rejected" /\ process[p].from \in {"verifying", "reviewing"}
    BY <1>3 DEF CountRejection, At, InStage
  <2>2. PICK pc \in {"look", "advance"} : Goto(p, pc)
    BY <1>3 DEF CountRejection
  <2>3. pc \in Points \ Ended
    BY DEF Points, Ended
  <2>4. /\ process'[p].pc = pc /\ process'[p].task = t
        /\ process'[p].from = process[p].from /\ process'[p].verdict = "rejected"
    BY <2>1, <2>2, <2>3, GotoRow
  <2>5. Finished(process'[p], node'[t])
    BY <2>1, <2>4 DEF Finished
  <2> QED BY <2>4, <2>5 DEF Knows, InStage, Handling, Free
<1> QED BY <1>2, <1>3

LEMMA UnparkKnows ==
  ASSUME InPlace, TaskTypeOK, AuthTables, NEW p \in Processes, NEW t \in Tasks, t = Own(p),
         Unpark(p), InStage(process[p], task[t].state, node[t])
  PROVE  Knows(p, t)
<1>1. Goto(p, "restore") /\ "restore" \in Points \ Ended
  BY DEF Unpark, Points, Ended
<1>2. /\ process'[p].pc = "restore" /\ process'[p].task = t
      /\ process'[p].todo = process[p].todo
  BY <1>1, GotoRow
<1>3. ~Done(node[t], Head(process[p].todo)) /\ UNCHANGED node
  BY DEF Unpark, At, InStage, NoGraphChange, graphVars
<1>4. task'[t].state # "authentication_required"
  <2>1. MoveTo(t, checkpoint[t].stage)
    BY DEF Unpark, ResumeAfterAuthentication
  <2>2. task'[t].state = checkpoint[t].stage
    BY <2>1, OneTaskMoves
  <2>3. checkpoint[t] \in CheckpointRow
    BY DEF AuthTables
  <2> QED BY <2>2, <2>3 DEF CheckpointRow, Stages
<1> QED BY <1>2, <1>3, <1>4 DEF Knows, InStage, Handling

\* Whatever it does.
LEMMA StepKnows ==
  ASSUME InPlace, TaskTypeOK, AuthTables, GraphTables, NEW p \in Processes,
         NEW t \in Tasks, t = Own(p), Step(p) \/ Fail(p),
         InStage(process[p], task[t].state, node[t])
  PROVE  Knows(p, t)
<1>1. Forgets(p) => Knows(p, t)
  BY ForgottenIsFree DEF Knows
<1>2. GoesOn(p) => Knows(p, t)
  BY GoingOnKnows
<1>3. EngineRefused(p) => Current(p) \in Workers
  BY DEF EngineRefused
<1>4. Engine(p) \/ EngineRefused(p) => Forgets(p) \/ GoesOn(p)
  BY <1>3 DEF Engine, Forgets, GoesOn
<1>5. CASE \/ CreateWorkspace(p) \/ RecordWorkspace(p) \/ OpenWorkspace(p) \/ Inspect(p)
           \/ ReconcileFound(p) \/ RestoreNode(p) \/ RereadForCancel(p) \/ CancelTask(p)
           \/ Advance(p) \/ Block(p) \/ SkipParkedNode(p) \/ FailAssignment(p) \/ Checkpoint(p)
           \/ CallOff(p) \/ GiveUp(p) \/ RefuseMerge(p) \/ Fail(p)
  BY <1>1, <1>5 DEF Forgets
<1>6. CASE ResetNode(p) \/ Engine(p) \/ EngineRefused(p) \/ ParkNode(p) \/ Commit(p)
  BY <1>1, <1>2, <1>4, <1>6 DEF GoesOn
<1>7. CASE RunNode(p) \/ RecordVerdict(p) \/ Package(p)
  BY <1>2, <1>7, RecordingKnows DEF GoesOn
<1>8. CASE Succeed(p) \/ Adopt(p)
  BY <1>2, <1>8, LeavingKnows DEF GoesOn
<1>9. CASE Look(p) \/ Join(p) \/ RunIntegration(p) \/ Merge(p) \/ Integrated(p)
  BY <1>9, LookKnows, JoinKnows
<1>10. CASE Requalify(p) \/ SettleNode(p) \/ CountRejection(p) \/ Unpark(p)
  BY <1>10, RequalifyKnows, SettlingKnows, UnparkKnows
<1> QED BY <1>5, <1>6, <1>7, <1>8, <1>9, <1>10 DEF Step

-----------------------------------------------------------------------------
(* Any step.                                                               *)

LEMMA FitsStep ==
  ASSUME TaskTypeOK, HeadsKnown, AuthTables, GraphTables, InPlace, AllFit, AllInStage,
         [WorkflowNext]_workflowVars
  PROVE  AllFit'
<1>1. ASSUME UNCHANGED node, UNCHANGED <<task, checkpoint>> PROVE AllFit'
  BY <1>1, FitsAtRest DEF Resting
<1>2. CASE UNCHANGED workflowVars
  BY <1>1, <1>2 DEF workflowVars, allVars, storeVars, taskVars, authVars, graphVars
<1>3. ASSUME NEW t \in Tasks, Submit(t) PROVE AllFit'
  <2>1. /\ task[t].state = "absent" /\ UNCHANGED node /\ UNCHANGED checkpoint
    BY <1>3 DEF Submit, Exists, OnTaskOnly, NoGraphChange, graphVars, authVars
  <2>2. \A u \in Tasks : task'[u].state = IF u = t THEN "contracted" ELSE task[u].state
    BY <1>3, SubmitStep
  <2>3. Standing(t)' = "contracted" /\ Standing(t) = "absent"
    BY <2>1, <2>2 DEF Standing
  <2>4. \A u \in Tasks : u # t => Standing(u)' = Standing(u)
    BY <2>1, <2>2 DEF Standing
  <2>5. Fits(node[t], "contracted")
    BY <2>3 DEF AllFit, Fits, Reviewed
  <2> QED BY <2>1, <2>3, <2>4, <2>5, FitsWhereItGoes
<1>4. ASSUME NEW p \in Processes, Begin(p) \/ Fail(p) PROVE AllFit'
  BY <1>1, <1>4 DEF Begin, BeginStart, BeginResume, BeginCancel, Fail, RequestTaskCancellation,
     NoStoreChange, NoGraphChange, allVars, storeVars, taskVars, authVars, graphVars
<1>5. CASE LoginActions /\ NoGraphChange
  BY <1>5, LoginsRest, FitsAtRest DEF NoGraphChange, graphVars
<1>6. ASSUME NEW p \in Processes, Step(p) PROVE AllFit'
  <2>1. Drives(p) => InStage(process[p], task[Own(p)].state, node[Own(p)])
    BY DEF AllInStage
  <2>2. CASE MovesNode(p)
    <3>1. UNCHANGED node \/ MovesHarmlessly(p)
      BY <2>1, <2>2, MoversDrive, MovesAreHarmless
    <3>2. Resting
      BY <2>2, MostStepsRest DEF MovesNode
    <3> QED BY <3>1, <3>2, FitsAtRest, FitsWhenNodesMove
  <2>3. CASE MovesTask(p)
    BY <2>1, <2>3, TasksFit
  <2>4. CASE \/ CreateWorkspace(p) \/ RecordWorkspace(p) \/ Inspect(p) \/ RereadForCancel(p)
             \/ Look(p) \/ SkipParkedNode(p) \/ Engine(p) \/ EngineRefused(p) \/ Commit(p)
             \/ Adopt(p) \/ Join(p) \/ Merge(p) \/ RecordVerdict(p) \/ Package(p)
    <3>1. Resting
      BY <2>4, MostStepsRest
    <3> QED BY <1>6, <2>2, <3>1, OthersMoveNone, FitsAtRest
  <2> QED BY <1>6, <2>2, <2>3, <2>4 DEF Step, MovesNode, MovesTask
<1> QED BY <1>2, <1>3, <1>4, <1>5, <1>6 DEF WorkflowNext

\* Nodes are as they were, and tasks are at most submitted or cancelled.
Meanwhile ==
  /\ UNCHANGED node
  /\ \A u \in Tasks : \/ task'[u].state \in {task[u].state, "cancelled"}
                      \/ task[u].state = "absent" /\ task'[u].state = "contracted"

LEMMA MeanwhileStays ==
  ASSUME InPlace, AllInStage, Meanwhile, NEW q \in Processes, Drives(q), process'[q] = process[q]
  PROVE  InStage(process'[q], task'[Own(q)'].state, node'[Own(q)'])
<1>1. Own(q)' = Own(q) /\ Placed(process[q])
  BY DEF Own, InPlace
<1>2. Own(q) \in Tasks
  BY <1>1 DEF Placed, Own, Drives, Live
<1>3. process[q].pc \in Handling \cup {"adopt"} => process[q].todo # <<>>
  BY <1>1 DEF Placed, Handles
<1>4. InStage(process[q], task[Own(q)].state, node[Own(q)])
  BY DEF AllInStage
<1>5. InStage(process[q], task'[Own(q)].state, node[Own(q)])
  BY <1>2, <1>3, <1>4, InStageMeanwhile DEF Meanwhile
<1> QED BY <1>1, <1>5 DEF Meanwhile

\* What does not move the nodes of a driver moves no task of one.
LEMMA OthersMeanwhile ==
  ASSUME TaskTypeOK, HeadsKnown, AuthTables, InPlace,
         \/ UNCHANGED workflowVars
         \/ \E t \in Tasks : Submit(t)
         \/ \E p \in Processes : Begin(p) \/ RereadForCancel(p) \/ CancelTask(p) \/ Fail(p)
         \/ LoginActions /\ NoGraphChange
  PROVE  Meanwhile
<1>1. UNCHANGED <<node, task>> => Meanwhile
  BY DEF Meanwhile
<1>2. CASE UNCHANGED workflowVars
  BY <1>1, <1>2 DEF workflowVars, allVars, storeVars, taskVars, graphVars
<1>3. ASSUME NEW t \in Tasks, Submit(t) PROVE Meanwhile
  <2>1. task[t].state = "absent" /\ UNCHANGED node
    BY <1>3 DEF Submit, Exists, OnTaskOnly, NoGraphChange, graphVars
  <2> QED BY <1>3, <2>1, SubmitStep DEF Meanwhile
<1>4. ASSUME NEW p \in Processes, Begin(p) \/ RereadForCancel(p) \/ Fail(p) PROVE Meanwhile
  BY <1>1, <1>4 DEF Begin, BeginStart, BeginResume, BeginCancel, RereadForCancel, Fail,
     RequestTaskCancellation, NoStoreChange, NoGraphChange, allVars, storeVars, taskVars, graphVars
<1>5. ASSUME NEW p \in Processes, CancelTask(p) PROVE Meanwhile
  <2>1. Own(p) \in Tasks
    BY <1>5 DEF CancelTask, At, InPlace, Placed, Own, Ended
  <2>2. Transition(Own(p), process[p].from, "cancelled") /\ UNCHANGED node
    BY <1>5 DEF CancelTask, OnTaskOnly, NoGraphChange, graphVars
  <2> QED BY <2>1, <2>2, OneTaskMoves DEF Meanwhile
<1>6. CASE LoginActions /\ NoGraphChange
  <2>1. Resting /\ UNCHANGED node
    BY <1>6, LoginsRest DEF NoGraphChange, graphVars
  <2> QED BY <2>1 DEF Resting, Meanwhile
<1> QED BY <1>2, <1>3, <1>4, <1>5, <1>6

\* A command begins where it knows nothing, or with the node of its checkpoint.
LEMMA BeginKnows ==
  ASSUME InPlace, NEW p \in Processes, NEW t \in Tasks,
         BeginStart(p, t) \/ BeginResume(p, t) \/ BeginCancel(p, t)
  PROVE  Knows(p, t)
<1>1. process[p] \in ProcessRow
  BY DEF InPlace
<1>2. CASE BeginResume(p, t)
  <2> DEFINE row(n) == [[[process[p] EXCEPT !.task = t] EXCEPT !.todo = <<n>>] EXCEPT !.pc = "unpark"]
  <2>1. PICK n \in Nodes : ParkedNodes(t) = {n} /\ process' = [process EXCEPT ![p] = row(n)]
    BY <1>1, <1>2 DEF BeginResume, InPlace
  <2>2. row(n).pc = "unpark" /\ row(n).task = t /\ row(n).todo = <<n>>
    BY <1>1 DEF ProcessRow
  <2> HIDE DEF row
  <2>3. process'[p] = row(n)
    BY <2>1 DEF InPlace
  <2>4. n \in ParkedNodes(t)
    BY <2>1
  <2>5. ~Done(node[t], n) /\ Head(<<n>>) = n
    BY <2>4 DEF ParkedNodes, Done
  <2>6. UNCHANGED node
    BY <1>2 DEF BeginResume, NoStoreChange, NoGraphChange, graphVars
  <2> QED BY <2>2, <2>3, <2>5, <2>6 DEF Knows, InStage, Handling
<1>3. CASE BeginStart(p, t) \/ BeginCancel(p, t)
  <2> DEFINE mine == [process[p] EXCEPT !.task = t]
  <2>1. PICK pc \in {"workspace", "returned", "inspect", "reread"} :
          process' = [process EXCEPT ![p] = Then(mine, pc)]
    BY <1>3 DEF BeginStart, BeginCancel, Settled
  <2>2. mine \in ProcessRow /\ pc \in Points
    BY <1>1 DEF ProcessRow, Points, Ended
  <2> HIDE DEF mine
  <2>3. process'[p].pc = pc
    BY <2>1, <2>2, ThenType DEF InPlace
  <2> QED BY <2>1, <2>3 DEF Knows, Free, Ended
<1> QED BY <1>2, <1>3

LEMMA KnowsInStage ==
  ASSUME NEW p \in Processes, NEW t, Knows(p, t)
  PROVE  InStage(process'[p], task'[Own(p)'].state, node'[Own(p)'])
BY FreeInStage DEF Knows, Own

LEMMA StepsAreAlone ==
  ASSUME InPlace, TaskTypeOK, HeadsKnown, GraphTables, NEW p \in Processes, Step(p) \/ Fail(p)
  PROVE  Only(p) /\ Live(p)
<1>1. Only(p)
  BY StepOnNodes DEF StandsBy, WorksOn, Takes, LetsGo, Goes
<1>2. Live(p)
  BY DEF Step, Engine, Fail, CreateWorkspace, RecordWorkspace, OpenWorkspace, Inspect, ReconcileFound,
     Unpark, RestoreNode, RereadForCancel, CancelTask, Look, Advance, Block, ResetNode,
     SkipParkedNode, RunNode, Reserve, StartCall, CallReturns, CallRaises, EngineRefused,
     FailAssignment, ParkNode, Checkpoint, CallOff, GiveUp, Judged, Commit, Succeed, Adopt,
     Requalify, Join, RunIntegration, Merge, RefuseMerge, Integrated, RecordVerdict, Package,
     SettleNode, CountRejection, At, Live, Ended
<1> QED BY <1>1, <1>2

\* Who does not drive cancels, and ends.
LEMMA BystandersCancel ==
  ASSUME NEW p \in Processes, Step(p) \/ Fail(p), Live(p), ~Drives(p)
  PROVE  RereadForCancel(p) \/ CancelTask(p) \/ Fail(p)
<1>1. process[p].pc \in {"reread", "cancel"}
  BY DEF Drives
<1> QED BY <1>1 DEF Step, Engine, CreateWorkspace, RecordWorkspace, OpenWorkspace, Inspect,
     ReconcileFound, Unpark, RestoreNode, Look, Advance, Block, ResetNode, SkipParkedNode, RunNode,
     Reserve, StartCall, CallReturns, CallRaises, EngineRefused, FailAssignment, ParkNode, Checkpoint,
     CallOff, GiveUp, Judged, Commit, Succeed, Adopt, Requalify, Join, RunIntegration, Merge,
     RefuseMerge, Integrated, RecordVerdict, Package, SettleNode, CountRejection, At

LEMMA StagesStep ==
  ASSUME TaskTypeOK, HeadsKnown, AuthTables, GraphTables, InPlace, OneDriver, AllInStage,
         [WorkflowNext]_workflowVars
  PROVE  AllInStage'
<1> SUFFICES ASSUME NEW q \in Processes, Drives(q)'
             PROVE  InStage(process'[q], task'[Own(q)'].state, node'[Own(q)'])
  BY DEF AllInStage
<1>1. process'[q] = process[q] => Drives(q)
  BY DEF Drives, Live
<1>2. CASE UNCHANGED process /\ Meanwhile
  BY <1>1, <1>2, MeanwhileStays
<1>3. ASSUME UNCHANGED workflowVars \/ (\E t \in Tasks : Submit(t))
               \/ (LoginActions /\ NoGraphChange /\ UNCHANGED process)
      PROVE  UNCHANGED process /\ Meanwhile
  <2>1. UNCHANGED process
    BY <1>3 DEF workflowVars, Submit
  <2> QED BY <1>3, <2>1, OthersMeanwhile
<1>4. ASSUME NEW p \in Processes, Begin(p)
      PROVE  InStage(process'[q], task'[Own(q)'].state, node'[Own(q)'])
  <2>1. CASE q = p
    BY <1>4, <2>1, BeginKnows, KnowsInStage DEF Begin
  <2>2. CASE q # p
    <3>1. process'[q] = process[q]
      BY <1>4, <2>2, BeginInPlace DEF Begin, Goes, Only
    <3> QED BY <1>1, <1>4, <3>1, OthersMeanwhile, MeanwhileStays
  <2> QED BY <2>1, <2>2
<1>5. ASSUME NEW p \in Processes, Step(p) \/ Fail(p)
      PROVE  InStage(process'[q], task'[Own(q)'].state, node'[Own(q)'])
  <2>1. Only(p) /\ Live(p)
    BY <1>5, StepsAreAlone
  <2>2. CASE q = p /\ Drives(p)
    <3>1. Own(p) \in Tasks
      BY <2>1 DEF InPlace, Placed, Live, Own
    <3>2. InStage(process[p], task[Own(p)].state, node[Own(p)])
      BY <2>2 DEF AllInStage
    <3>3. Knows(p, Own(p))
      BY <1>5, <3>1, <3>2, StepKnows
    <3> QED BY <2>2, <3>3, KnowsInStage
  <2>3. ~Drives(p) => RereadForCancel(p) \/ CancelTask(p) \/ Fail(p)
    BY <1>5, <2>1, BystandersCancel
  <2>4. CASE q = p /\ ~Drives(p)
    <3>1. process'[p].pc \in {"cancel"} \cup Ended
      BY <2>3, <2>4, BystandersEnd
    <3> QED BY <2>4, <3>1 DEF Drives, Live
  <2>5. CASE q # p
    <3>1. process'[q] = process[q] /\ Drives(q)
      BY <1>1, <2>1, <2>5 DEF Only
    <3>2. ~Drives(p)
      BY <2>5, <3>1 DEF OneDriver
    <3>3. Meanwhile
      BY <2>3, <3>2, OthersMeanwhile
    <3> QED BY <3>1, <3>3, MeanwhileStays
  <2> QED BY <2>2, <2>4, <2>5
<1> QED BY <1>2, <1>3, <1>4, <1>5 DEF WorkflowNext

-----------------------------------------------------------------------------
(* The call a node waits for.                                              *)

Used(e) == exec[e].status # "unused"

NodesUsed == \A t \in Tasks, n \in Nodes : node[t][n].exec # NoExec => Used(node[t][n].exec)

CallsUsed == \A p \in Processes : Call(p) # NoExec => Used(Call(p))

\* A call that no node of its task has recorded yet, and then one that does.
InCall == {"start", "call", "judge"}

NamesCall(p) ==
  /\ process[p].pc \in InCall => \A n \in Nodes : node[Own(p)][n].exec # Call(p)
  /\ process[p].pc = "checkpoint" =>
       /\ \A n \in Nodes : node[Own(p)][n].exec = Call(p) <=> n = Current(p)
       /\ node[Own(p)][Current(p)].status = "authentication_required"

AllNameCalls == \A p \in Processes : Drives(p) => NamesCall(p)

ParkedNamed ==
  \A t \in Tasks : task[t].state = "authentication_required" => \E n \in Nodes : ParkedNodes(t) = {n}

\* No row of the ledger is taken back.
LEMMA UsedStays ==
  ASSUME LedgerTypeOK, [AuthNext]_allVars \/ Beyond, NEW e \in Executions, Used(e)
  PROVE  Used(e)'
<1>1. exec \in [Executions -> ExecRow \cup {Unused}] /\ exec[e] \in ExecRow
  BY UsedRow DEF LedgerTypeOK, Used
<1>2. ASSUME NEW f \in Executions, NEW row, exec' = [exec EXCEPT ![f] = row], row.status # "unused"
      PROVE  Used(e)'
  BY <1>1, <1>2 DEF Used
<1>3. ASSUME NEW t, NEW f \in Executions, NEW role, NEW timeout, ReserveExecution(t, f, role, timeout)
      PROVE  Used(e)'
  <2> DEFINE row == [status |-> "reserved", task |-> t, role |-> role, alloc |-> timeout,
                     elapsed |-> 0, result |-> "none"]
  <2>1. exec' = [exec EXCEPT ![f] = row] /\ row.status # "unused"
    BY <1>3 DEF ReserveExecution
  <2> HIDE DEF row
  <2> QED BY <1>2, <2>1
<1>4. ASSUME NEW f \in Executions, NEW status, status # "unused",
             exec' = [exec EXCEPT ![f].status = status]
      PROVE  Used(e)'
  <2> DEFINE row == [exec[f] EXCEPT !.status = status]
  <2>1. row.status = status
    <3>1. exec[f] \in ExecRow \cup {Unused}
      BY <1>1
    <3> QED BY <3>1 DEF ExecRow, Unused
  <2>2. exec' = [exec EXCEPT ![f] = row]
    BY <1>4
  <2> HIDE DEF row
  <2> QED BY <1>2, <1>4, <2>1, <2>2
<1>5. ASSUME NEW f \in Executions, NEW report \in AnyReport, FinishExecution(f, report)
      PROVE  Used(e)'
  <2> DEFINE row == [exec[f] EXCEPT !.status = report.status, !.elapsed = report.elapsed,
                                    !.result = report.result]
  <2>1. exec' = [exec EXCEPT ![f] = row]
    BY <1>5, FinishStep DEF FinishExecution
  <2>2. row.status = report.status /\ report.status # "unused"
    <3>1. exec[f] \in ExecRow
      BY <1>5, UsedRow DEF FinishExecution, Active
    <3> QED BY <3>1 DEF ExecRow, AnyReport, Outcomes
  <2> HIDE DEF row
  <2> QED BY <1>2, <2>1, <2>2
<1>6. ASSUME NEW Which, exec' = [f \in Executions |-> IF f \in Which
                 THEN [exec[f] EXCEPT !.status = "reconciliation_required"] ELSE exec[f]]
      PROVE  Used(e)'
  BY <1>1, <1>6 DEF ExecRow, Used
<1>7. ASSUME NEW t \in Tasks, RequestTaskCancellation(t) PROVE Used(e)'
  BY <1>1, <1>7 DEF RequestTaskCancellation, ExecRow, Used
<1>8. ASSUME LedgerNext PROVE Used(e)'
  <2>1. Reports \subseteq AnyReport
    BY ReportsAssumption DEF AnyReport
  <2>2. ASSUME NEW f \in Executions, StartExecution(f) \/ RequestCancellation(f) PROVE Used(e)'
    BY <1>4, <2>2 DEF StartExecution, RequestCancellation
  <2>3. ASSUME NEW f \in Executions, NEW resolution \in Resolutions, ResolveUncertainty(f, resolution)
        PROVE  Used(e)'
    BY <1>4, <2>3 DEF ResolveUncertainty, Resolutions
  <2>4. ReconcileActive => Used(e)'
    BY <1>6 DEF ReconcileActive
  <2>5. (\E t \in Tasks, f \in Executions, v \in evidence : RecoverReviewFormat(t, f, v)) => Used(e)'
    BY DEF RecoverReviewFormat, Used
  <2> QED BY <1>3, <1>5, <1>8, <2>1, <2>2, <2>3, <2>4, <2>5 DEF LedgerNext
<1>9. UNCHANGED exec => Used(e)'
  BY DEF Used
<1>10. ASSUME AuthActions PROVE UNCHANGED exec
  BY <1>10, LoginsLeaveStore DEF AuthActions, CheckpointAuthentication, ResumeAfterAuthentication,
     storeVars, ledgerVars
<1>11. CASE [AuthNext]_allVars
  BY <1>8, <1>9, <1>10, <1>11 DEF AuthNext, StoreNext, ledgerVars, allVars, storeVars
<1>12. CASE Beyond
  BY <1>5, <1>7, <1>9, <1>12 DEF Beyond, Submit, OnTaskOnly, ledgerVars
<1> QED BY <1>11, <1>12

\* The steps that have nothing to do with the call in hand, nor come to one.
Quietly(p) ==
  /\ process'[p].exec \in {process[p].exec, NoExec}
  /\ process'[p].pc \notin InCall \cup {"checkpoint"}

LEMMA MostStepsAreQuiet ==
  ASSUME InPlace, TaskTypeOK, HeadsKnown, GraphTables,
         NEW p \in Processes, Step(p) \/ Fail(p) \/ Begin(p),
         ~Reserve(p), ~StartCall(p), \A report \in Reports : ~CallReturns(p, report), ~ParkNode(p)
  PROVE  Quietly(p)
<1>1. process[p] \in ProcessRow /\ process \in [Processes -> ProcessRow]
  BY DEF InPlace
<1> DEFINE Away == Points \ (InCall \cup {"checkpoint"})
<1>2. ASSUME NEW row \in ProcessRow, row.exec \in {process[p].exec, NoExec}, NEW pc \in Away,
             process'[p] = Then(row, pc)
      PROVE  Quietly(p)
  <2>1. Then(row, pc).pc = pc
    BY ThenType
  <2>2. Then(row, pc).exec \in {row.exec, NoExec}
    BY DEF Then, Unstarted, ProcessRow
  <2> QED BY <1>2, <2>1, <2>2 DEF Quietly
<1>3. ASSUME NEW pc \in Away, Goto(p, pc) PROVE Quietly(p)
  <2>1. process'[p] = Then(process[p], pc)
    BY <1>1, <1>3 DEF Goto
  <2> QED BY <1>1, <1>2, <2>1
<1>4. CASE \/ CreateWorkspace(p) \/ RecordWorkspace(p) \/ OpenWorkspace(p) \/ Inspect(p)
           \/ ReconcileFound(p) \/ Unpark(p) \/ RestoreNode(p) \/ CancelTask(p) \/ Advance(p)
           \/ Block(p) \/ SkipParkedNode(p) \/ CallRaises(p) \/ EngineRefused(p)
           \/ FailAssignment(p) \/ Checkpoint(p) \/ CallOff(p) \/ GiveUp(p) \/ RefuseMerge(p)
           \/ Integrated(p) \/ RecordVerdict(p) \/ CountRejection(p) \/ Fail(p)
  <2>1. \E pc \in Away : Goto(p, pc)
    BY <1>4 DEF CreateWorkspace, RecordWorkspace, OpenWorkspace, Inspect, ReconcileFound, Unpark,
       RestoreNode, CancelTask, Advance, Block, SkipParkedNode, CallRaises, EngineRefused,
       FailAssignment, Checkpoint, CallOff, GiveUp, RefuseMerge, Integrated, RecordVerdict,
       CountRejection, Fail, Points, Ended, InCall
  <2> QED BY <1>3, <2>1
<1>5. CASE SettleNode(p)
  <2>1. process[p].verdict \in {"passed", "rejected", "stopped"}
    BY <1>5 DEF SettleNode, At, InPlace, Placed
  <2>2. \E pc \in Away : Goto(p, pc)
    BY <1>5, <2>1 DEF SettleNode, Points, Ended, InCall
  <2> QED BY <1>3, <2>2
<1>6. ASSUME NEW row, process' = [process EXCEPT ![p] = row], row.pc \in Away,
             row.exec = process[p].exec
      PROVE  Quietly(p)
  BY <1>1, <1>6 DEF Quietly
<1>7. ASSUME LeaveNode(p) PROVE Quietly(p)
  BY <1>1, <1>7 DEF LeaveNode, ProcessRow, Quietly, InCall
<1>8. CASE ResetNode(p) \/ RunNode(p)
  <2>1. CASE ResetNode(p)
    <3> DEFINE row == [process[p] EXCEPT !.seen[Current(p)] = "pending"]
    <3>1. process' = [process EXCEPT ![p] = row] /\ process[p].pc = "node"
      BY <1>1, <2>1 DEF ResetNode, At
    <3>2. row.pc \in Away /\ row.exec = process[p].exec
      BY <1>1, <3>1 DEF ProcessRow, Points, InCall
    <3> HIDE DEF row
    <3> QED BY <1>6, <3>1, <3>2
  <2>2. CASE RunNode(p)
    <3> DEFINE from == IF Current(p) \in Workers THEN task[Own(p)].state ELSE process[p].from
               pc   == IF Current(p) = "package" THEN "package" ELSE "reserve"
               row  == [[process[p] EXCEPT !.from = from] EXCEPT !.pc = pc]
    <3>1. process' = [process EXCEPT ![p] = row]
      BY <1>1, <2>2 DEF RunNode, ProcessRow
    <3> HIDE DEF from
    <3>2. row.pc \in Away /\ row.exec = process[p].exec
      BY <1>1 DEF ProcessRow, Points, InCall
    <3> HIDE DEF row
    <3> QED BY <1>6, <3>1, <3>2
  <2> QED BY <1>8, <2>1, <2>2
<1>9. CASE Commit(p)
  <2>1. CASE OnTaskBranch(Current(p))
    BY <1>1, <1>9, <2>1 DEF Commit, ProcessRow, Quietly, InCall
  <2>2. CASE ~OnTaskBranch(Current(p))
    BY <1>3, <1>9, <2>2 DEF Commit, Points, InCall
  <2> QED BY <2>1, <2>2
<1>10. CASE Succeed(p)
  BY <1>3, <1>7, <1>10 DEF Succeed, Points, InCall
<1>11. CASE Adopt(p)
  <2>1. \/ Goto(p, "integrated") \/ LeaveNode(p)
        \/ process' = [process EXCEPT ![p].todo = <<"verify", "review">>, ![p].pc = "requalify"]
    <3>1. Current(p) \in Workers \cup {"integrate"}
      BY <1>11 DEF Adopt, At, InPlace, Placed, Current
    <3> QED BY <1>11, <3>1 DEF Adopt, Workers
  <2>2. "integrated" \in Away
    BY DEF Points, InCall
  <2>3. process' = [process EXCEPT ![p].todo = <<"verify", "review">>, ![p].pc = "requalify"]
          => Quietly(p)
    BY <1>1 DEF ProcessRow, Quietly, InCall
  <2> QED BY <1>3, <1>7, <2>1, <2>2, <2>3
<1>12. CASE Requalify(p) \/ RunIntegration(p) \/ Merge(p) \/ Package(p)
  BY <1>1, <1>12 DEF Requalify, RunIntegration, Merge, Package, ProcessRow, Quietly, InCall
<1>13. ASSUME NEW row, row.exec \in {process[p].exec, NoExec}, NEW pc, process'[p] = Then(row, pc),
              process'[p].pc \notin InCall \cup {"checkpoint"}
       PROVE  Quietly(p)
  BY <1>13 DEF Then, Unstarted, Quietly
<1>14. ASSUME NEW from, NEW pc, process'[p] = Then([process[p] EXCEPT !.from = from], pc),
              RereadForCancel(p) \/ Join(p)
       PROVE  Quietly(p)
  <2> DEFINE row == [process[p] EXCEPT !.from = from]
  <2>1. row.exec = process[p].exec
    BY <1>1 DEF ProcessRow
  <2>2. process'[p].pc \notin InCall \cup {"checkpoint"}
    BY <1>14, RereadGoes DEF Goes, InCall
  <2>3. process'[p] = Then(row, pc)
    BY <1>14
  <2> HIDE DEF row
  <2> QED BY <1>13, <2>1, <2>2, <2>3
<1>15. CASE RereadForCancel(p)
  <2> DEFINE pc == IF task[Own(p)].state \in Settled THEN "returned" ELSE "cancel"
  <2>1. process'[p] = Then([process[p] EXCEPT !.from = task[Own(p)].state], pc)
    BY <1>1, <1>15 DEF RereadForCancel
  <2> HIDE DEF pc
  <2> QED BY <1>14, <1>15, <2>1
<1>16. CASE Join(p)
  <2> DEFINE done == \A n \in Implementations : node[Own(p)][n].status = "succeeded"
             pc   == CASE task[Own(p)].state # "implementing"           -> "look"
                       [] task[Own(p)].state = "implementing" /\ ~done  -> "returned"
                       [] OTHER -> IF Decomposed /\ node[Own(p)]["integrate"].status # "succeeded"
                                   THEN "integrate" ELSE "advance"
  <2>1. process'[p] = Then([process[p] EXCEPT !.from = "implementing"], pc)
    BY <1>1, <1>16 DEF Join
  <2> HIDE DEF pc
  <2> QED BY <1>14, <1>16, <2>1
<1>17. CASE Look(p)
  <2>1. process'[p].pc \notin InCall \cup {"checkpoint"}
    BY <1>17, LookInPlace DEF Goes, InCall
  <2>2. process'[p].exec = NoExec
    <3> DEFINE t    == Own(p)
               s    == task[t].state
               seen == [n \in Nodes |-> node[t][n].status]
               todo == StageNodes(s, seen)
               turn == [Unstarted EXCEPT !.task = t, !.from = s, !.head = task[t].head,
                          !.repairs = task[t].repairs, !.seen = seen, !.todo = todo,
                          !.late = process[p].late]
               out  == In(t, {"running", "cancel_requested", "reconciliation_required"}) # {}
               where == CASE s \in AtRest \/ (cancelRequested[t] /\ out) -> "returned"
                          [] s \in Driven /\ cancelRequested[t] /\ ~out -> "cancel"
                          [] s \in Driven /\ ~cancelRequested[t] /\ todo = <<>>   -> AfterStage(s)
                          [] s \in Driven /\ ~cancelRequested[t] /\ todo # <<>>   -> "node"
    <3>1. process'[p] = Then(turn, where)
      BY <1>1, <1>17 DEF Look
    <3>2. turn.exec = NoExec
      BY DEF Unstarted
    <3> HIDE DEF turn, where
    <3> QED BY <3>1, <3>2 DEF Then, Unstarted
  <2> QED BY <2>1, <2>2 DEF Quietly
<1>18. CASE Begin(p)
  <2>1. PICK t \in Tasks : BeginStart(p, t) \/ BeginResume(p, t) \/ BeginCancel(p, t)
    BY <1>18 DEF Begin
  <2>2. process'[p].pc \notin InCall \cup {"checkpoint"}
    BY <2>1, BeginInPlace DEF Goes, Begun, InCall
  <2>3. CASE BeginStart(p, t) \/ BeginCancel(p, t)
    <3> DEFINE row == [process[p] EXCEPT !.task = t]
    <3>1. PICK pc \in {"workspace", "returned", "inspect", "reread"} : process'[p] = Then(row, pc)
      BY <1>1, <2>3 DEF BeginStart, BeginCancel, Settled
    <3>2. row.exec = process[p].exec
      BY <1>1 DEF ProcessRow
    <3> HIDE DEF row
    <3> QED BY <1>13, <2>2, <3>1, <3>2
  <2>4. CASE BeginResume(p, t)
    BY <1>1, <2>2, <2>4 DEF BeginResume, ProcessRow, Quietly
  <2> QED BY <2>1, <2>3, <2>4
<1> QED BY <1>4, <1>5, <1>8, <1>9, <1>10, <1>11, <1>12, <1>15, <1>16, <1>17, <1>18 DEF Step, Engine

LEMMA CallGoesOn ==
  ASSUME InPlace, LedgerTypeOK, NEW p \in Processes,
         \/ Reserve(p) \/ StartCall(p) \/ (\E report \in Reports : CallReturns(p, report))
         \/ ParkNode(p)
  PROVE  /\ process'[p].task = Own(p) /\ process'[p].todo = process[p].todo
         /\ \/ /\ process'[p].pc = "start" /\ UNCHANGED node
               /\ process'[p].exec \in Executions
               /\ ~Used(process'[p].exec) /\ exec'[process'[p].exec].status # "unused"
            \/ /\ process[p].pc \in InCall /\ process'[p].pc \in InCall
               /\ process'[p].exec = Call(p) /\ UNCHANGED node
            \/ /\ ParkNode(p) /\ process[p].pc = "judge" /\ process'[p].pc = "checkpoint"
               /\ process'[p].exec = Call(p)
<1>1. process[p] \in ProcessRow /\ process \in [Processes -> ProcessRow]
  BY DEF InPlace
<1>2. process'[p].task = Own(p) /\ process'[p].todo = process[p].todo
  BY GoesOnRow DEF GoesOn
<1>3. Reserve(p) \/ StartCall(p) \/ (\E report \in Reports : CallReturns(p, report)) => UNCHANGED node
  BY DEF Reserve, StartCall, CallReturns, OnLedgerOnly, NoGraphChange, graphVars
<1>4. CASE Reserve(p)
  <2>1. PICK e \in Executions, timeout \in Timeouts :
          /\ ReserveExecution(Own(p), e, NodeRole(Current(p)), timeout)
          /\ process' = [process EXCEPT ![p].exec = e, ![p].pc = "start"]
    BY <1>4 DEF Reserve
  <2>2. process'[p].exec = e /\ process'[p].pc = "start"
    BY <1>1, <2>1 DEF ProcessRow
  <2>3. ~Used(e)
    BY <2>1 DEF ReserveExecution, Used, Unused
  <2>4. exec'[e].status = "reserved"
    BY <2>1 DEF ReserveExecution, LedgerTypeOK
  <2> QED BY <1>2, <1>3, <1>4, <2>2, <2>3, <2>4
<1>5. CASE StartCall(p) \/ (\E report \in Reports : CallReturns(p, report))
  <2>1. /\ process[p].pc \in InCall /\ process'[p].pc \in InCall
        /\ process'[p].exec = Call(p)
    <3>1. CASE StartCall(p)
      BY <1>1, <3>1 DEF StartCall, At, ProcessRow, InCall, Call
    <3>2. ASSUME NEW report \in Reports, CallReturns(p, report)
          PROVE  /\ process[p].pc \in InCall /\ process'[p].pc \in InCall
                 /\ process'[p].exec = Call(p)
      BY <1>1, <3>2 DEF CallReturns, At, ProcessRow, InCall, Call
    <3> QED BY <1>5, <3>1, <3>2
  <2> QED BY <1>2, <1>3, <1>5, <2>1
<1>6. CASE ParkNode(p)
  <2>1. Goto(p, "checkpoint") /\ process[p].pc = "judge" /\ "checkpoint" \in Points \ Ended
    BY <1>6 DEF ParkNode, At, Points, Ended
  <2>2. process'[p].pc = "checkpoint" /\ process'[p].exec = Call(p)
    BY <2>1, GotoRow DEF Call
  <2> QED BY <1>2, <1>6, <2>1, <2>2
<1> QED BY <1>4, <1>5, <1>6

LEMMA NodesMove ==
  ASSUME InPlace, AllInStage, [WorkflowNext]_workflowVars
  PROVE  UNCHANGED node \/ \E p \in Processes : MovesHarmlessly(p)
<1>1. UNCHANGED workflowVars \/ (\E t \in Tasks : Submit(t)) \/ (LoginActions /\ NoGraphChange)
        => UNCHANGED node
  BY DEF workflowVars, graphVars, Submit, OnTaskOnly, NoGraphChange
<1>2. ASSUME NEW p \in Processes, Step(p) \/ Begin(p) \/ Fail(p)
      PROVE  UNCHANGED node \/ MovesHarmlessly(p)
  <2>1. CASE MovesNode(p)
    BY <2>1, MoversDrive, MovesAreHarmless DEF AllInStage
  <2>2. CASE ~MovesNode(p)
    BY <1>2, <2>2, OthersMoveNone
  <2> QED BY <2>1, <2>2
<1> QED BY <1>1, <1>2 DEF WorkflowNext

\* What a node or a process names has a row.
LEMMA NodesUsedStep ==
  ASSUME InPlace, GraphTables, LedgerTypeOK, TaskTypeOK, AllInStage, NodesUsed, CallsUsed,
         [WorkflowNext]_workflowVars
  PROVE  NodesUsed'
<1> SUFFICES ASSUME NEW t \in Tasks, NEW n \in Nodes, node'[t][n].exec # NoExec
             PROVE  exec'[node'[t][n].exec].status # "unused"
  BY DEF NodesUsed, Used
<1>1. ASSUME NEW e \in Executions \cup {NoExec}, e # NoExec, Used(e)
      PROVE  exec'[e].status # "unused"
  <2>1. Used(e)'
    BY <1>1, UsedStays, StepOfTheStore
  <2> QED BY <2>1 DEF Used
<1>2. node[t][n].exec \in Executions \cup {NoExec}
  BY DEF GraphTables, NodeRow
<1>3. node'[t][n].exec = node[t][n].exec => exec'[node'[t][n].exec].status # "unused"
  BY <1>1, <1>2 DEF NodesUsed
<1>4. ASSUME NEW p \in Processes, MovesHarmlessly(p) PROVE exec'[node'[t][n].exec].status # "unused"
  <2>1. PICK m \in Nodes, target \in NodeStatuses, e \in {NoExec, Call(p)} :
          MoveNode(Own(p), m, target, e) /\ Own(p) \in Tasks
    BY <1>4 DEF MovesHarmlessly
  <2>2. e \in Executions \cup {NoExec}
    BY DEF InPlace, ProcessRow, Call
  <2>3. node'[t][n].exec \in {node[t][n].exec, e}
    BY <2>1, <2>2, NodeIsMoved
  <2>4. e # NoExec => Used(e)
    BY <2>1 DEF CallsUsed
  <2> QED BY <1>1, <1>3, <2>2, <2>3, <2>4
<1> QED BY <1>3, <1>4, NodesMove

LEMMA CallsUsedStep ==
  ASSUME InPlace, GraphTables, LedgerTypeOK, TaskTypeOK, HeadsKnown, CallsUsed,
         [WorkflowNext]_workflowVars
  PROVE  CallsUsed'
<1> SUFFICES ASSUME NEW q \in Processes, process'[q].exec # NoExec
             PROVE  exec'[process'[q].exec].status # "unused"
  BY DEF CallsUsed, Call, Used
<1>1. process[q].exec \in Executions \cup {NoExec}
  BY DEF InPlace, ProcessRow
<1>2. process'[q].exec = process[q].exec => exec'[process'[q].exec].status # "unused"
  <2> SUFFICES ASSUME process'[q].exec = process[q].exec
               PROVE  exec'[process[q].exec].status # "unused"
    OBVIOUS
  <2> DEFINE e == process[q].exec
  <2>1. e \in Executions /\ Used(e)
    BY <1>1 DEF CallsUsed, Call
  <2>2. Used(e)'
    BY <2>1, UsedStays, StepOfTheStore
  <2> QED BY <2>2 DEF Used
<1>3. ASSUME NEW p \in Processes, Step(p) \/ Begin(p) \/ Fail(p) PROVE exec'[process'[q].exec].status # "unused"
  <2>1. CASE q # p
    <3>1. Only(p)
      BY <1>3, StepsAreAlone, BeginInPlace DEF Begin, Goes
    <3> QED BY <1>2, <2>1, <3>1 DEF Only
  <2>2. CASE q = p /\ (\/ Reserve(p) \/ StartCall(p)
                       \/ (\E report \in Reports : CallReturns(p, report)) \/ ParkNode(p))
    BY <1>2, <2>2, CallGoesOn DEF Used, Call
  <2>3. CASE q = p /\ ~(\/ Reserve(p) \/ StartCall(p)
                        \/ (\E report \in Reports : CallReturns(p, report)) \/ ParkNode(p))
    BY <1>2, <1>3, <2>3, MostStepsAreQuiet DEF Quietly
  <2> QED BY <2>1, <2>2, <2>3
<1> QED BY <1>2, <1>3 DEF WorkflowNext, workflowVars, Submit

LEMMA AllNameCallsStep ==
  ASSUME InPlace, GraphTables, LedgerTypeOK, TaskTypeOK, HeadsKnown, OneDriver, NodesUsed,
         AllNameCalls, [WorkflowNext]_workflowVars
  PROVE  AllNameCalls'
<1> SUFFICES ASSUME NEW q \in Processes, Drives(q)'
             PROVE  NamesCall(q)'
  BY DEF AllNameCalls
<1>1. process'[q] = process[q] /\ UNCHANGED node => NamesCall(q)'
  BY DEF AllNameCalls, NamesCall, Drives, Live, Own, Call, Current
<1>2. ASSUME UNCHANGED workflowVars \/ (\E t \in Tasks : Submit(t))
               \/ (LoginActions /\ NoGraphChange /\ UNCHANGED process)
      PROVE  NamesCall(q)'
  BY <1>1, <1>2 DEF workflowVars, graphVars, Submit, OnTaskOnly, NoGraphChange
<1>3. ASSUME NEW p \in Processes, Step(p) \/ Begin(p) \/ Fail(p), q # p PROVE NamesCall(q)'
  <2>1. Only(p)
    BY <1>3, StepsAreAlone, BeginInPlace DEF Begin, Goes
  <2>2. process'[q] = process[q] /\ Drives(q)
    BY <1>3, <2>1 DEF Only, Drives, Live
  <2>3. ~MovesNode(p)
    BY <1>3, <2>2, MoversDrive DEF OneDriver
  <2> QED BY <1>1, <1>3, <2>2, <2>3, OthersMoveNone
<1>4. ASSUME Step(q) \/ Begin(q) \/ Fail(q) PROVE NamesCall(q)'
  <2>1. CASE ~(\/ Reserve(q) \/ StartCall(q) \/ (\E report \in Reports : CallReturns(q, report))
               \/ ParkNode(q))
    BY <1>4, <2>1, MostStepsAreQuiet DEF Quietly, NamesCall
  <2>2. CASE \/ Reserve(q) \/ StartCall(q) \/ (\E report \in Reports : CallReturns(q, report))
             \/ ParkNode(q)
    <3>1. Drives(q) /\ Own(q) \in Tasks /\ Own(q)' = Own(q)
      BY <2>2, CallGoesOn DEF Reserve, StartCall, CallReturns, ParkNode, At, Drives, Live, Ended,
         InPlace, Placed, Own
    <3>2. process'[q].todo = process[q].todo /\ Current(q)' = Current(q) /\ NamesCall(q)
      BY <2>2, <3>1, CallGoesOn DEF Current, AllNameCalls
    <3>3. CASE /\ process'[q].pc = "start" /\ UNCHANGED node
               /\ process'[q].exec \in Executions /\ ~Used(process'[q].exec)
      <4>1. process'[q].exec # NoExec
        BY <3>3, AuthAssumption
      <4>2. \A n \in Nodes : node[Own(q)][n].exec # process'[q].exec
        BY <3>1, <3>3, <4>1 DEF NodesUsed
      <4> QED BY <3>1, <3>3, <4>2 DEF NamesCall, Call
    <3>4. CASE /\ process[q].pc \in InCall /\ process'[q].pc \in InCall
               /\ process'[q].exec = Call(q) /\ UNCHANGED node
      BY <3>1, <3>2, <3>4 DEF NamesCall, Call, InCall
    <3>5. CASE /\ ParkNode(q) /\ process[q].pc = "judge" /\ process'[q].pc = "checkpoint"
               /\ process'[q].exec = Call(q)
      <4>1. Call(q) \in Executions /\ Call(q) # NoExec /\ Current(q) \in Nodes
        BY <3>5, AuthAssumption DEF InPlace, Placed, ProcessRow, Call, Current, Handling, Handles
      <4>2. /\ \A m \in Nodes : m # Current(q) => node'[Own(q)][m] = node[Own(q)][m]
            /\ node'[Own(q)][Current(q)].status = "authentication_required"
            /\ node'[Own(q)][Current(q)].exec = Call(q)
        BY <3>1, <3>5, <4>1, NodeIsMoved DEF ParkNode, NodeStatuses
      <4>3. \A n \in Nodes : node[Own(q)][n].exec # Call(q)
        BY <3>2, <3>5 DEF NamesCall, InCall
      <4>4. \A n \in Nodes : node'[Own(q)][n].exec = Call(q) <=> n = Current(q)
        BY <4>1, <4>2, <4>3
      <4> QED BY <3>1, <3>2, <3>5, <4>2, <4>4 DEF NamesCall, Call, InCall
    <3> QED BY <2>2, <3>3, <3>4, <3>5, CallGoesOn
  <2> QED BY <2>1, <2>2
<1> QED BY <1>2, <1>3, <1>4 DEF WorkflowNext

\* Only a checkpoint parks a task, and its row stays while the task is parked.
LEMMA OnlyCheckpointsPark ==
  ASSUME TaskTypeOK, HeadsKnown, AuthTables, InPlace, [WorkflowNext]_workflowVars,
         NEW t \in Tasks, task'[t].state = "authentication_required"
  PROVE  \/ task[t].state = "authentication_required" /\ checkpoint'[t].exec = checkpoint[t].exec
         \/ \E p \in Processes : Checkpoint(p) /\ t = Own(p)
<1> DEFINE Stays == /\ task[t].state = "authentication_required"
                    /\ checkpoint'[t].exec = checkpoint[t].exec
<1>1. Resting => Stays
  BY DEF Resting
<1>2. UNCHANGED <<task, checkpoint>> => Resting
  BY DEF Resting
<1>3. CASE UNCHANGED workflowVars
  BY <1>1, <1>2, <1>3 DEF workflowVars, allVars, storeVars, taskVars, authVars
<1>4. ASSUME NEW u \in Tasks, Submit(u) PROVE Stays
  <2>1. UNCHANGED checkpoint
    BY <1>4 DEF Submit, OnTaskOnly, authVars
  <2> QED BY <1>4, <2>1, SubmitStep
<1>5. ASSUME NEW p \in Processes, Begin(p) \/ Fail(p) PROVE Stays
  BY <1>1, <1>2, <1>5 DEF Begin, BeginStart, BeginResume, BeginCancel, Fail, RequestTaskCancellation,
     NoStoreChange, NoGraphChange, allVars, storeVars, taskVars, authVars
<1>6. CASE LoginActions
  BY <1>1, <1>6, LoginsRest
<1>7. ASSUME NEW p \in Processes, MovesTask(p), ~Checkpoint(p) PROVE Stays
  <2>1. Own(p) \in Tasks
    BY <1>7 DEF InPlace, Placed, Own, MovesTask, OpenWorkspace, ReconcileFound, Unpark, CancelTask,
       Advance, Block, CountRejection, At, Ended
  <2>2. ASSUME NEW u, u = Own(p), NEW from, NEW to, UNCHANGED checkpoint,
               Transition(u, from, to) \/ (MoveTo(u, "blocked") /\ to = "blocked" /\ from = task[u].state)
        PROVE  Stays
    <3>1. to # "authentication_required"
      BY <2>2 DEF Transition, Transitions, Onward, Working
    <3>2. task'[u].state = to /\ \A v \in Tasks : v # u => task'[v].state = task[v].state
      BY <2>1, <2>2, OneTaskMoves
    <3> QED BY <2>2, <3>1, <3>2
  <2>3. CASE OpenWorkspace(p) \/ CancelTask(p) \/ Advance(p) \/ Block(p)
    <3>1. UNCHANGED checkpoint
      BY <2>3 DEF OpenWorkspace, CancelTask, Advance, Block, OnTaskOnly, authVars
    <3>2. \E from, to : Transition(Own(p), from, to)
      BY <2>3 DEF OpenWorkspace, CancelTask, Advance, Block
    <3> QED BY <2>2, <3>1, <3>2
  <2>4. CASE ReconcileFound(p)
    <3>1. UNCHANGED checkpoint
      BY <2>4 DEF ReconcileFound, OnLedgerOnly, authVars
    <3>2. task'[t] = task[t] \/ task'[t] = [task[t] EXCEPT !.state = "blocked"]
      BY <2>4 DEF ReconcileFound, ReconcileActive, storeVars, taskVars
    <3>3. task[t] \in TaskRow
      BY DEF TaskTypeOK
    <3> QED BY <3>1, <3>2, <3>3 DEF TaskRow
  <2>5. CASE Unpark(p)
    <3>1. PICK u \in Tasks : u = Own(p)
      BY <2>1
    <3>2. /\ MoveTo(u, checkpoint[u].stage)
          /\ checkpoint' = [checkpoint EXCEPT ![u].status = "resumed"]
      BY <2>5, <3>1 DEF Unpark, ResumeAfterAuthentication
    <3>3. /\ task'[u].state = checkpoint[u].stage
          /\ \A v \in Tasks : v # u => task'[v].state = task[v].state
      BY <3>2, OneTaskMoves
    <3>4. checkpoint[u].stage # "authentication_required"
      BY DEF AuthTables, CheckpointRow, Stages
    <3> QED BY <3>2, <3>3, <3>4 DEF AuthTables
  <2>6. CASE CountRejection(p)
    <3>1. PICK u \in Tasks : u = Own(p)
      BY <2>1
    <3>2. PICK s \in Signatures : RecordFailure(u, s) /\ UNCHANGED checkpoint
      BY <2>6, <3>1 DEF CountRejection, OnTaskOnly, authVars
    <3>3. CASE task' = [task EXCEPT ![u].repairs = @ + 1]
      <4>1. task[t] \in TaskRow
        BY DEF TaskTypeOK
      <4>2. task'[t] = task[t] \/ task'[t] = [task[t] EXCEPT !.repairs = @ + 1]
        BY <3>3 DEF TaskTypeOK
      <4> QED BY <3>2, <4>1, <4>2 DEF TaskRow
    <3> QED BY <2>2, <3>1, <3>2, <3>3 DEF RecordFailure
  <2> QED BY <1>7, <2>3, <2>4, <2>5, <2>6 DEF MovesTask
<1>8. ASSUME NEW p \in Processes, Checkpoint(p), t # Own(p) PROVE Stays
  <2>1. Own(p) \in Tasks
    BY <1>8 DEF InPlace, Placed, Own, Checkpoint, At, Ended
  <2>2. PICK u \in Tasks : u = Own(p)
    BY <2>1
  <2>3. PICK c, s, refs : CheckpointAuthentication(u, Call(p), c, s, refs)
    BY <1>8, <2>2 DEF Checkpoint
  <2>4. MoveTo(u, "authentication_required") /\ checkpoint'[t] = checkpoint[t]
    BY <1>8, <2>2, <2>3 DEF CheckpointAuthentication, AuthTables
  <2>5. \A v \in Tasks : v # u => task'[v].state = task[v].state
    BY <2>4, OneTaskMoves
  <2> QED BY <1>8, <2>2, <2>4, <2>5
<1>9. ASSUME NEW p \in Processes, Step(p), ~MovesTask(p) PROVE Resting
  BY <1>9, MostStepsRest DEF Step, MovesTask
<1> QED BY <1>1, <1>3, <1>4, <1>5, <1>6, <1>7, <1>8, <1>9 DEF WorkflowNext

LEMMA ParkedNamedStep ==
  ASSUME TaskTypeOK, HeadsKnown, AuthTables, GraphTables, InPlace, AllInStage, AllNameCalls,
         ParkedNamed, [WorkflowNext]_workflowVars
  PROVE  ParkedNamed'
<1> SUFFICES ASSUME NEW t \in Tasks, task'[t].state = "authentication_required"
             PROVE  \E n \in Nodes : ParkedNodes(t)' = {n}
  BY DEF ParkedNamed
<1>1. CASE task[t].state = "authentication_required" /\ checkpoint'[t].exec = checkpoint[t].exec
  <2>1. ASSUME NEW p \in Processes, MovesHarmlessly(p) PROVE node'[t] = node[t]
    <3>1. PICK m \in Nodes, target \in NodeStatuses, e \in {NoExec, Call(p)} :
            MoveNode(Own(p), m, target, e) /\ Harmless(Own(p), m, target) /\ Own(p) \in Tasks
      BY <2>1 DEF MovesHarmlessly
    <3>2. e \in Executions \cup {NoExec} /\ Own(p) # t
      BY <1>1, <3>1 DEF InPlace, ProcessRow, Call, Harmless
    <3> QED BY <3>1, <3>2, NodeIsMoved
  <2>2. node'[t] = node[t]
    BY <2>1, NodesMove
  <2>3. ParkedNodes(t)' = ParkedNodes(t)
    BY <1>1, <2>2 DEF ParkedNodes
  <2> QED BY <1>1, <2>3 DEF ParkedNamed
<1>2. ASSUME NEW p \in Processes, Checkpoint(p), t = Own(p) PROVE \E n \in Nodes : ParkedNodes(t)' = {n}
  <2>1. process[p].pc = "checkpoint" /\ Drives(p) /\ UNCHANGED node
    BY <1>2 DEF Checkpoint, At, Drives, Live, Ended, NoGraphChange, graphVars
  <2>2. Current(p) \in Nodes
    BY <2>1 DEF InPlace, Placed, Handling, Handles, Current
  <2>3. PICK c, s, refs : CheckpointAuthentication(t, Call(p), c, s, refs)
    BY <1>2 DEF Checkpoint
  <2>4. checkpoint'[t].exec = Call(p)
    BY <2>3 DEF CheckpointAuthentication, AuthTables
  <2>5. /\ \A n \in Nodes : node[t][n].exec = Call(p) <=> n = Current(p)
        /\ node[t][Current(p)].status = "authentication_required"
    BY <1>2, <2>1 DEF AllNameCalls, NamesCall
  <2>6. ParkedNodes(t)' = {Current(p)}
    BY <2>1, <2>2, <2>4, <2>5 DEF ParkedNodes
  <2> QED BY <2>2, <2>6
<1> QED BY <1>1, <1>2, OnlyCheckpointsPark

-----------------------------------------------------------------------------
(* The invariant, and the theorems.                                        *)

OneDriverInvariant ==
  /\ WorkflowInvariant /\ OneDriver
  /\ AllFit /\ AllInStage
  /\ NodesUsed /\ CallsUsed /\ AllNameCalls /\ ParkedNamed

LEMMA OneDriverInitOK == WorkflowInit => OneDriverInvariant
<1> SUFFICES ASSUME WorkflowInit PROVE OneDriverInvariant
  OBVIOUS
<1>1. WorkflowInvariant
  BY WorkflowInitOK
<1>2. \A p \in Processes : ~Drives(p) /\ Call(p) = NoExec
  BY DEF WorkflowInit, Unstarted, Drives, Live, Call
<1>3. \A t \in Tasks : task[t].state = "absent"
  BY DEF WorkflowInit, AuthInit, StoreInit, TaskInit, AbsentTask
<1>4. \A t \in Tasks, n \in Nodes : node[t][n].exec = NoExec /\ ~Done(node[t], n)
  BY DEF WorkflowInit, GraphInit, InitialNode, Done
<1>5. AllFit
  <2>1. {"verify", "review"} \subseteq Nodes
    BY KnownNodes
  <2>2. \A t \in Tasks : Standing(t) = "absent"
    BY <1>3 DEF Standing
  <2> QED BY <1>4, <2>1, <2>2 DEF AllFit, Fits, Reviewed
<1>6. OneDriver /\ AllInStage /\ CallsUsed /\ AllNameCalls
  BY <1>2 DEF OneDriver, AllInStage, CallsUsed, AllNameCalls
<1>7. NodesUsed /\ ParkedNamed
  BY <1>3, <1>4 DEF NodesUsed, ParkedNamed
<1> QED BY <1>1, <1>5, <1>6, <1>7 DEF OneDriverInvariant

LEMMA OneDriverStepOK ==
  ASSUME OneDriverInvariant, [WorkflowNext /\ OneDriver']_workflowVars
  PROVE  OneDriverInvariant'
<1> USE DEF OneDriverInvariant
<1>1. TaskTypeOK /\ HeadsKnown /\ AuthTables /\ GraphTables /\ InPlace /\ LedgerTypeOK
  BY DEF WorkflowInvariant, AuthInvariant, Ledger
<1>2. [WorkflowNext]_workflowVars
  OBVIOUS
<1>3. WorkflowInvariant'
  BY <1>2, WorkflowStepOK
<1>4. OneDriver'
  BY DEF workflowVars, OneDriver, Drives, Live
<1>5. AllFit' /\ AllInStage'
  BY <1>1, <1>2, FitsStep, StagesStep
<1>6. NodesUsed' /\ CallsUsed'
  BY <1>1, <1>2, NodesUsedStep, CallsUsedStep
<1>7. AllNameCalls' /\ ParkedNamed'
  BY <1>1, <1>2, AllNameCallsStep, ParkedNamedStep
<1> QED BY <1>3, <1>4, <1>5, <1>6, <1>7

\* With one start or resume at a time, what each of them has read of its task
\* and its nodes stays true until it acts on it, whatever was killed before and
\* whoever cancels meanwhile.
THEOREM OneDriverInvariantHolds == OneDriverSpec => []OneDriverInvariant
BY OneDriverInitOK, OneDriverStepOK, PTL DEF OneDriverSpec

\* No stage of a task is entered before the node of the one before it has
\* succeeded for the candidate in hand, and a repaired candidate starts with its
\* quality nodes undone, however often its commands are killed and started again.
THEOREM StagesAreEarned == OneDriverSpec => []StagesFollowNodes
<1>1. OneDriverInvariant => StagesFollowNodes
  <2> SUFFICES ASSUME AllFit PROVE StagesFollowNodes
    BY DEF OneDriverInvariant
  <2> SUFFICES ASSUME NEW t \in Tasks
               PROVE  /\ task[t].state \in Reviewed \cup {"implemented", "verifying", "verified", "reviewing"}
                           => \A n \in Predecessors("verify") : Done(node[t], n)
                      /\ task[t].state \in Reviewed \cup {"verified", "reviewing"} => Done(node[t], "verify")
                      /\ task[t].state \in Reviewed => Done(node[t], "review")
                      /\ task[t].state = "awaiting_pr_approval" => Done(node[t], "package")
                      /\ task[t].state = "implemented"
                           => ~Done(node[t], "verify") /\ ~Done(node[t], "review")
    BY DEF StagesFollowNodes, Done
  <2>1. Fits(node[t], Standing(t))
    BY DEF AllFit
  <2>2. task[t].state # "authentication_required" => Standing(t) = task[t].state
    BY DEF Standing
  <2> QED BY <2>1, <2>2 DEF Fits, Built, Reviewed
<1> QED BY <1>1, OneDriverInvariantHolds, PTL

\* A parked task can always be resumed: its checkpoint names the one node that
\* waits for the login, though the node, the checkpoint and the call that failed
\* are recorded by three transactions and the command may be killed between them.
THEOREM CheckpointsNameNodes == OneDriverSpec => []CheckpointNamesNode
<1>1. OneDriverInvariant => CheckpointNamesNode
  BY FS_Singleton DEF OneDriverInvariant, ParkedNamed, CheckpointNamesNode
<1> QED BY <1>1, OneDriverInvariantHolds, PTL

-----------------------------------------------------------------------------
(* The calls of a task that are out.                                       *)

\* Rewriting one row of the ledger, seen from every task.
LEMMA ActiveRewritten ==
  ASSUME LedgerTypeOK, NEW e \in Executions, NEW row, exec' = [exec EXCEPT ![e] = row], NEW u
  PROVE  /\ In(u, Active)' \subseteq In(u, Active) \cup {e}
         /\ row.task # u \/ row.status \notin Active => In(u, Active)' = In(u, Active) \ {e}
         /\ row.task = exec[e].task /\ row.status \in Active /\ exec[e].status \in Active
              => In(u, Active)' = In(u, Active)
BY DEF LedgerTypeOK, In

\* Only a reservation adds a call to them, a report takes one away and a restart
\* all of them.
LEMMA CallsStay ==
  ASSUME InPlace, LedgerTypeOK,
         \/ UNCHANGED exec
         \/ \E p \in Processes : Begin(p) \/ Fail(p) \/ StartCall(p)
                                  \/ (Step(p) /\ ~Engine(p) /\ ~ReconcileFound(p))
         \/ \E t \in Tasks : Submit(t)
         \/ LoginActions
  PROVE  \A u : In(u, Active)' = In(u, Active)
<1> SUFFICES ASSUME NEW u PROVE In(u, Active)' = In(u, Active)
  OBVIOUS
<1>1. UNCHANGED exec => In(u, Active)' = In(u, Active)
  BY DEF In
<1>2. ASSUME NEW t \in Tasks, RequestTaskCancellation(t) PROVE In(u, Active)' = In(u, Active)
  <2>1. ASSUME NEW e \in Executions
        PROVE  exec'[e].task = u /\ exec'[e].status \in Active
                 <=> exec[e].task = u /\ exec[e].status \in Active
    <3>1. CASE e \in In(t, {"running"})
      <4>1. exec[e].status = "running" /\ exec'[e] = [exec[e] EXCEPT !.status = "cancel_requested"]
        BY <1>2, <3>1 DEF In, RequestTaskCancellation
      <4>2. exec[e] \in ExecRow
        BY <4>1, UsedRow
      <4> QED BY <4>1, <4>2 DEF ExecRow, Active
    <3>2. CASE e \notin In(t, {"running"})
      BY <1>2, <3>2 DEF RequestTaskCancellation
    <3> QED BY <3>1, <3>2
  <2> QED BY <2>1 DEF In
<1>3. ASSUME NEW p \in Processes, Begin(p) PROVE In(u, Active)' = In(u, Active)
  BY <1>1, <1>2, <1>3 DEF Begin, BeginStart, BeginResume, BeginCancel, NoStoreChange, allVars,
     storeVars, ledgerVars
<1>4. ASSUME NEW p \in Processes, StartCall(p) PROVE In(u, Active)' = In(u, Active)
  <2> DEFINE e == Call(p)
             row == [exec[e] EXCEPT !.status = "running"]
  <2>1. /\ e \in Executions /\ exec[e].status = "reserved"
        /\ exec' = [exec EXCEPT ![e] = row]
    BY <1>4 DEF StartCall, StartExecution, At, InPlace, Placed, Call
  <2>2. exec[e] \in ExecRow
    BY <2>1, UsedRow
  <2>3. row.task = exec[e].task /\ row.status = "running"
    BY <2>2 DEF ExecRow
  <2> HIDE DEF e, row
  <2> QED BY <2>1, <2>3, ActiveRewritten DEF Active
<1>5. ASSUME NEW p \in Processes, Fail(p) \/ (Step(p) /\ ~Engine(p) /\ ~ReconcileFound(p))
      PROVE  UNCHANGED exec
  <2>1. CASE \/ RecordWorkspace(p) \/ OpenWorkspace(p) \/ CancelTask(p) \/ Advance(p) \/ Block(p)
             \/ Adopt(p) \/ RecordVerdict(p) \/ Package(p) \/ CountRejection(p)
    BY <2>1 DEF RecordWorkspace, OpenWorkspace, CancelTask, Advance, Block, Adopt, RecordVerdict,
       Package, CountRejection, OnTaskOnly, ledgerVars
  <2>2. CASE Unpark(p) \/ Checkpoint(p)
    BY <2>2 DEF Unpark, Checkpoint, ResumeAfterAuthentication, CheckpointAuthentication, ledgerVars
  <2>3. CASE UNCHANGED allVars
    BY <2>3 DEF allVars, storeVars, ledgerVars
  <2>4. CASE ~(\/ RecordWorkspace(p) \/ OpenWorkspace(p) \/ CancelTask(p) \/ Advance(p) \/ Block(p)
               \/ Adopt(p) \/ RecordVerdict(p) \/ Package(p) \/ CountRejection(p)
               \/ Unpark(p) \/ Checkpoint(p))
    <3>1. UNCHANGED allVars
      BY <1>5, <2>4 DEF Step, Fail, CreateWorkspace, Inspect, RestoreNode, RereadForCancel, Look,
         ResetNode, SkipParkedNode, RunNode, EngineRefused, FailAssignment, ParkNode, CallOff, GiveUp,
         Commit, Succeed, Requalify, Join, RunIntegration, Merge, RefuseMerge, Integrated, SettleNode,
         NoStoreChange, OnNodeOnly
    <3> QED BY <2>3, <3>1
  <2> QED BY <2>1, <2>2, <2>4
<1>6. ASSUME (\E t \in Tasks : Submit(t)) \/ LoginActions PROVE UNCHANGED exec
  BY <1>6, LoginsLeaveStore DEF Submit, OnTaskOnly, storeVars, ledgerVars
<1> QED BY <1>1, <1>3, <1>4, <1>5, <1>6

\* What a call that is reserved, or reported, makes of them.
LEMMA CallsChange ==
  ASSUME InPlace, LedgerTypeOK, NEW p \in Processes, NEW t \in Tasks, t = Own(p),
         Reserve(p) \/ CallRaises(p) \/ (\E report \in Reports : CallReturns(p, report))
  PROVE  \/ /\ Reserve(p)
            /\ task[t].state \in {"implementing", "repairing", "verifying", "reviewing"}
            /\ In(t, Active)' \subseteq In(t, Active) \cup {process'[p].exec}
            /\ \A u : u # t => In(u, Active)' = In(u, Active)
         \/ /\ ~Reserve(p)
            /\ \A u : In(u, Active)' = In(u, Active) \ {Call(p)}
<1>1. process[p] \in ProcessRow /\ process \in [Processes -> ProcessRow]
  BY DEF InPlace
<1>2. CASE Reserve(p)
  <2>1. PICK e \in Executions, timeout \in Timeouts :
          /\ ReserveExecution(t, e, NodeRole(Current(p)), timeout)
          /\ process' = [process EXCEPT ![p].exec = e, ![p].pc = "start"]
    BY <1>2 DEF Reserve
  <2> DEFINE row == [status |-> "reserved", task |-> t, role |-> NodeRole(Current(p)),
                     alloc |-> timeout, elapsed |-> 0, result |-> "none"]
  <2>2. exec' = [exec EXCEPT ![e] = row] /\ row.task = t /\ exec[e] = Unused
    BY <2>1 DEF ReserveExecution
  <2>3. process'[p].exec = e
    BY <1>1, <2>1 DEF ProcessRow
  <2>4. task[t].state \in {"implementing", "repairing", "verifying", "reviewing"}
    BY <2>1 DEF ReserveExecution, CallAllowed, NodeRole, RoleState
  <2> HIDE DEF row
  <2>5. In(t, Active)' \subseteq In(t, Active) \cup {e}
    BY <2>2, ActiveRewritten
  <2>6. \A u : e \notin In(u, Active)
    BY <2>2 DEF In, Unused, Active
  <2>7. ASSUME NEW u, u # t PROVE In(u, Active)' = In(u, Active)
    <3>1. In(u, Active)' = In(u, Active) \ {e}
      BY <2>2, <2>7, ActiveRewritten
    <3>2. e \notin In(u, Active)
      BY <2>6
    <3> QED BY <3>1, <3>2
  <2> QED BY <1>2, <2>3, <2>4, <2>5, <2>7
<1>3. ASSUME NEW report, report \in AnyReport, FinishExecution(Call(p), report), process[p].pc = "call"
      PROVE  /\ ~Reserve(p)
             /\ \A u : In(u, Active)' = In(u, Active) \ {Call(p)}
  <2> DEFINE e == Call(p)
             row == [exec[e] EXCEPT !.status = report.status, !.elapsed = report.elapsed,
                                    !.result = report.result]
  <2>1. ~Reserve(p) /\ e \in Executions
    BY <1>3 DEF Reserve, At, InPlace, Placed, Call
  <2>2. exec' = [exec EXCEPT ![e] = row] /\ exec[e].status \in Active
    BY <1>3 DEF FinishExecution
  <2>3. exec[e] \in ExecRow
    BY <2>1, <2>2, UsedRow DEF Active
  <2>4. row.status \notin Active
    BY <1>3, <2>3 DEF ExecRow, AnyReport, Outcomes, Active
  <2> HIDE DEF e, row
  <2>5. \A u : In(u, Active)' = In(u, Active) \ {e}
    BY <2>1, <2>2, <2>4, ActiveRewritten
  <2> QED BY <2>1, <2>5 DEF e
<1>4. CASE CallRaises(p)
  <2>1. [status |-> "failed", elapsed |-> 0, result |-> "other"] \in AnyReport
    BY DEF AnyReport, Outcomes, Results
  <2> QED BY <1>3, <1>4, <2>1 DEF CallRaises, At
<1>5. CASE \E report \in Reports : CallReturns(p, report)
  <2>1. Reports \subseteq AnyReport
    BY ReportsAssumption DEF AnyReport
  <2> QED BY <1>3, <1>5, <2>1 DEF CallReturns, At
<1> QED BY <1>2, <1>4, <1>5

-----------------------------------------------------------------------------
(* What a step does to the tasks and to their candidates.                  *)

\* Where a task stands, and how it came there, is as it was.
Stands(u) ==
  /\ task'[u].state = task[u].state /\ task'[u].moved = task[u].moved
  /\ checkpoint'[u].stage = checkpoint[u].stage

AllStand == \A u \in Tasks : Stands(u)

\* All candidates are as they were, and what everybody is told of them.
Untouched == UNCHANGED worktree /\ \A u \in Tasks : task'[u].head = task[u].head

\* A row of the transition table is taken.
Turns(t, from, to) ==
  /\ <<from, to>> \in Transitions
  /\ task[t].state = from /\ task'[t].state = to /\ task'[t].moved = <<from, to>>
  /\ \A u \in Tasks : u # t => Stands(u)
  /\ Untouched

\* Tasks are blocked without one.
Stops(T) ==
  /\ \A u \in Tasks : task'[u].moved = task[u].moved
  /\ \A u \in T : task'[u].state = "blocked"
  /\ \A u \in Tasks \ T : Stands(u)
  /\ Untouched

\* A task is parked, or taken up again where it was.
Pauses(t) ==
  /\ Standing(t)' = Standing(t) /\ Standing(t) \in Stages
  /\ task'[t].moved = task[t].moved
  /\ {task[t].state, task'[t].state} \subseteq Stages \cup {"authentication_required"}
  /\ \A u \in Tasks : u # t => Stands(u)
  /\ Untouched

Submits(t) ==
  /\ task[t].state = "absent" /\ task'[t].state = "contracted"
  /\ task'[t].moved = <<"received", "contracted">>
  /\ \A u \in Tasks : u # t => Stands(u)
  /\ Untouched

\* The steps that make a candidate, and those that tell of it.
Makes(p) == CreateWorkspace(p) \/ Commit(p) \/ Merge(p)
Tells(p) == RecordWorkspace(p) \/ Adopt(p)

LEMMA TransitionTurns ==
  ASSUME TaskTypeOK, NEW t \in Tasks, NEW from, NEW to, Transition(t, from, to),
         UNCHANGED <<checkpoint, worktree>>
  PROVE  Turns(t, from, to)
<1>1. task \in [Tasks -> TaskRow] /\ task[t] \in TaskRow
  BY DEF TaskTypeOK
<1> DEFINE row == [[task[t] EXCEPT !.state = to] EXCEPT !.moved = <<from, to>>]
<1>2. task' = [task EXCEPT ![t] = row]
  BY <1>1 DEF Transition, TaskRow
<1>3. row.state = to /\ row.moved = <<from, to>> /\ row.head = task[t].head
  BY <1>1 DEF TaskRow
<1> HIDE DEF row
<1>4. task'[t] = row /\ \A u \in Tasks : u # t => task'[u] = task[u]
  BY <1>1, <1>2
<1> QED BY <1>3, <1>4 DEF Transition, Turns, Stands, Untouched

\* What a move does to the rows.
LEMMA MoveToMoves ==
  ASSUME TaskTypeOK, NEW t \in Tasks, NEW to, MoveTo(t, to)
  PROVE  /\ task'[t].state = to /\ task'[t].moved = task[t].moved /\ task'[t].head = task[t].head
         /\ \A u \in Tasks : u # t => task'[u] = task[u]
<1>1. task \in [Tasks -> TaskRow] /\ task[t] \in TaskRow
  BY DEF TaskTypeOK
<1> QED BY <1>1 DEF MoveTo, TaskRow

LEMMA LoginsStand ==
  ASSUME AuthTables, LoginActions, UNCHANGED worktree
  PROVE  AllStand /\ Untouched
<1>1. UNCHANGED task
  BY LoginsLeaveStore DEF storeVars, taskVars
<1> QED BY <1>1, LoginsRest DEF Resting, AllStand, Stands, Untouched

LEMMA SubmitSubmits ==
  ASSUME TaskTypeOK, NEW t \in Tasks, Submit(t)
  PROVE  Submits(t)
<1> DEFINE row == [[[task[t] EXCEPT !.state = "contracted"] EXCEPT !.contract = TRUE]
                             EXCEPT !.moved = <<"received", "contracted">>]
<1>1. task \in [Tasks -> TaskRow] /\ task[t] \in TaskRow
  BY DEF TaskTypeOK
<1>2. task' = [task EXCEPT ![t] = row]
  BY <1>1 DEF Submit, TaskRow
<1>3. /\ row.state = "contracted" /\ row.moved = <<"received", "contracted">>
      /\ row.head = task[t].head
  BY <1>1 DEF TaskRow
<1> HIDE DEF row
<1>4. task'[t] = row /\ \A u \in Tasks : u # t => task'[u] = task[u]
  BY <1>1, <1>2
<1>5. UNCHANGED <<worktree, checkpoint>> /\ task[t].state = "absent"
  BY DEF Submit, Exists, OnTaskOnly, NoGraphChange, authVars
<1> QED BY <1>3, <1>4, <1>5 DEF Submits, Stands, Untouched

\* The steps that do nothing to either.
LEMMA MostStepsTouchNothing ==
  ASSUME NEW p \in Processes,
         \/ Begin(p) \/ Fail(p)
         \/ /\ Step(p) /\ ~Makes(p) /\ ~Tells(p) /\ ~MovesTask(p)
  PROVE  UNCHANGED <<task, checkpoint, worktree>>
<1>1. CASE RecordVerdict(p) \/ Package(p)
  BY <1>1 DEF RecordVerdict, Package, AddEvidence, OnTaskOnly, NoGraphChange, authVars
<1>2. CASE Engine(p)
  BY <1>2 DEF Engine, Reserve, StartCall, CallReturns, CallRaises, ReserveExecution, StartExecution,
     FinishExecution, OnLedgerOnly, NoGraphChange, taskVars, authVars
<1>3. CASE Begin(p)
  BY <1>3 DEF Begin, BeginStart, BeginResume, BeginCancel, RequestTaskCancellation, NoStoreChange,
     NoGraphChange, allVars, storeVars, taskVars, authVars
<1>4. CASE ~(RecordVerdict(p) \/ Package(p) \/ Engine(p) \/ Begin(p))
  <2>1. UNCHANGED <<allVars, worktree>>
    BY <1>4 DEF Step, Fail, Makes, Tells, MovesTask, Inspect, RestoreNode, RereadForCancel, Look,
       ResetNode, SkipParkedNode, RunNode, EngineRefused, FailAssignment, ParkNode, CallOff, GiveUp,
       Succeed, Requalify, Join, RunIntegration, RefuseMerge, Integrated, SettleNode, NoStoreChange,
       NoGraphChange, OnNodeOnly
  <2> QED BY <2>1 DEF allVars, storeVars, taskVars, authVars
<1> QED BY <1>1, <1>2, <1>3, <1>4

\* Candidates are made and told of where no task is moved.
LEMMA MakersStand ==
  ASSUME TaskTypeOK, InPlace, Worktrees, NEW p \in Processes, NEW t \in Tasks, t = Own(p),
         Makes(p) \/ Tells(p)
  PROVE  /\ AllStand
         /\ \A u \in Tasks : u # t => worktree'[u] = worktree[u] /\ task'[u].head = task[u].head
         /\ Makes(p) => UNCHANGED task
         /\ Tells(p) => UNCHANGED worktree
<1>1. CASE Makes(p)
  <2>1. UNCHANGED <<task, checkpoint>>
    BY <1>1 DEF Makes, CreateWorkspace, Commit, Merge, allVars, storeVars, taskVars, authVars
  <2>2. \A u \in Tasks : u # t => worktree'[u] = worktree[u]
    BY <1>1 DEF Makes, CreateWorkspace, Commit, Merge, Worktrees
  <2>3. Tells(p) => UNCHANGED worktree
    BY DEF Tells, RecordWorkspace, Adopt, OnTaskOnly, NoGraphChange
  <2> QED BY <2>1, <2>2, <2>3 DEF AllStand, Stands
<1>2. CASE Tells(p)
  <2>1. UNCHANGED <<worktree, checkpoint>>
    BY <1>2 DEF Tells, RecordWorkspace, Adopt, OnTaskOnly, NoGraphChange, authVars
  <2>2. PICK r : \/ task' = [task EXCEPT ![t].head = r]
                 \/ task' = [task EXCEPT ![t].workspace = TRUE, ![t].head = r]
    BY <1>2 DEF Tells, RecordWorkspace, Adopt, SetWorkspace, SetHead
  <2>3. task \in [Tasks -> TaskRow] /\ task[t] \in TaskRow
    BY DEF TaskTypeOK
  <2>4. /\ task'[t].state = task[t].state /\ task'[t].moved = task[t].moved
        /\ \A u \in Tasks : u # t => task'[u] = task[u]
    BY <2>2, <2>3 DEF TaskRow
  <2>5. Makes(p) => UNCHANGED task
    BY DEF Makes, CreateWorkspace, Commit, Merge, allVars, storeVars, taskVars
  <2> QED BY <2>1, <2>4, <2>5 DEF AllStand, Stands
<1> QED BY <1>1, <1>2

\* The steps that move a task.
LEMMA MoversChange ==
  ASSUME TaskTypeOK, AuthTables, AllInStep, InPlace,
         NEW p \in Processes, NEW t \in Tasks, t = Own(p), MovesTask(p)
  PROVE  \/ \E from, to : /\ Turns(t, from, to)
                          /\ \/ to \in {"workspace_ready", "cancelled", "blocked"}
                             \/ /\ Advance(p) /\ from = process[p].from
                                /\ to = IF process[p].verdict = "rejected" THEN "repairing"
                                                                           ELSE Onwards[from]
         \/ CountRejection(p) /\ Stops({t}) /\ task[t].state \in {"verifying", "reviewing"}
         \/ \E T \in SUBSET Tasks : ReconcileFound(p) /\ Stops(T) /\ \A u \in T : In(u, Active) # {}
         \/ (Unpark(p) \/ Checkpoint(p)) /\ Pauses(t)
         \/ AllStand /\ Untouched
<1>1. CASE OpenWorkspace(p) \/ CancelTask(p) \/ Advance(p) \/ Block(p)
  <2>1. UNCHANGED <<checkpoint, worktree>>
    BY <1>1 DEF OpenWorkspace, CancelTask, Advance, Block, OnTaskOnly, NoGraphChange, authVars
  <2>2. PICK from, to :
          /\ Transition(t, from, to)
          /\ \/ to \in {"workspace_ready", "cancelled", "blocked"}
             \/ /\ Advance(p) /\ from = process[p].from
                /\ to = IF process[p].verdict = "rejected" THEN "repairing" ELSE Onwards[from]
    BY <1>1 DEF OpenWorkspace, CancelTask, Advance, Block
  <2> QED BY <2>1, <2>2, TransitionTurns
<1>2. CASE CountRejection(p)
  <2>1. PICK s \in Signatures : RecordFailure(t, s)
    BY <1>2 DEF CountRejection
  <2>2. UNCHANGED <<checkpoint, worktree>>
    BY <1>2 DEF CountRejection, OnTaskOnly, NoGraphChange, authVars
  <2>3. CASE MoveTo(t, "blocked")
    <3>1. Stops({t})
      BY <2>2, <2>3, MoveToMoves DEF Stops, Stands, Untouched
    <3> QED BY <1>2, <2>1, <3>1 DEF RecordFailure
  <2>4. CASE task' = [task EXCEPT ![t].repairs = @ + 1]
    <3>1. task \in [Tasks -> TaskRow] /\ task[t] \in TaskRow
      BY DEF TaskTypeOK
    <3>2. /\ task'[t].state = task[t].state /\ task'[t].moved = task[t].moved
          /\ task'[t].head = task[t].head
          /\ \A u \in Tasks : u # t => task'[u] = task[u]
      BY <2>4, <3>1 DEF TaskRow
    <3> QED BY <2>2, <3>2 DEF AllStand, Stands, Untouched
  <2> QED BY <2>1, <2>3, <2>4 DEF RecordFailure
<1>3. CASE ReconcileFound(p)
  <2>1. UNCHANGED <<checkpoint, worktree>>
    BY <1>3 DEF ReconcileFound, OnLedgerOnly, NoGraphChange, authVars
  <2>2. CASE UNCHANGED storeVars
    BY <2>1, <2>2 DEF storeVars, taskVars, AllStand, Stands, Untouched
  <2>3. CASE ReconcileActive
    <3> DEFINE T == {u \in Tasks : \E e \in LostCalls : exec[e].task = u}
    <3>1. \A u \in Tasks : task[u] \in TaskRow
      BY DEF TaskTypeOK
    <3>2. \A u \in Tasks : task'[u] = IF u \in T THEN [task[u] EXCEPT !.state = "blocked"] ELSE task[u]
      BY <2>3 DEF ReconcileActive
    <3>3. /\ \A u \in Tasks : task'[u].moved = task[u].moved /\ task'[u].head = task[u].head
          /\ \A u \in T : task'[u].state = "blocked"
          /\ \A u \in Tasks \ T : task'[u] = task[u]
      <4> HIDE DEF T
      <4>1. ASSUME NEW u \in Tasks
            PROVE  /\ task'[u].moved = task[u].moved /\ task'[u].head = task[u].head
                   /\ u \in T => task'[u].state = "blocked"
                   /\ u \notin T => task'[u] = task[u]
        BY <3>1, <3>2 DEF TaskRow
      <4>2. T \subseteq Tasks
        BY DEF T
      <4> QED BY <4>1, <4>2
    <3>4. \A u \in T : In(u, Active) # {}
      BY DEF LostCalls, In
    <3>5. T \in SUBSET Tasks
      OBVIOUS
    <3> HIDE DEF T
    <3>6. Stops(T)
      BY <2>1, <3>3 DEF Stops, Stands, Untouched
    <3> QED BY <1>3, <3>4, <3>5, <3>6
  <2> QED BY <1>3, <2>2, <2>3 DEF ReconcileFound
<1>4. CASE Unpark(p)
  <2>1. /\ task[t].state = "authentication_required" /\ MoveTo(t, checkpoint[t].stage)
        /\ checkpoint' = [checkpoint EXCEPT ![t].status = "resumed"] /\ UNCHANGED worktree
    BY <1>4 DEF Unpark, ResumeAfterAuthentication, NoGraphChange
  <2>2. checkpoint \in [Tasks -> CheckpointRow]
    BY DEF AuthTables
  <2>3. checkpoint[t].stage \in Stages
    BY <1>4 DEF Unpark, ResumeAfterAuthentication, AllInStep, InStep, Parked, ActiveStatuses
  <2>4. \A u \in Tasks : u # t => checkpoint'[u] = checkpoint[u]
    BY <2>1, <2>2
  <2>5. Standing(t) = checkpoint[t].stage /\ Standing(t)' = checkpoint[t].stage
    <3>1. task'[t].state = checkpoint[t].stage
      BY <2>1, MoveToMoves
    <3> QED BY <2>1, <2>3, <3>1 DEF Standing, Stages
  <2> QED BY <1>4, <2>1, <2>3, <2>4, <2>5, MoveToMoves DEF Pauses, Stands, Untouched
<1>5. CASE Checkpoint(p)
  <2>1. PICK c, s, refs : CheckpointAuthentication(t, Call(p), c, s, refs)
    BY <1>5 DEF Checkpoint
  <2>2. /\ MoveTo(t, "authentication_required") /\ task[t].state \in Stages
        /\ checkpoint'[t].stage = task[t].state
        /\ \A u \in Tasks : u # t => checkpoint'[u] = checkpoint[u]
    BY <2>1 DEF CheckpointAuthentication, Interrupted, AuthTables
  <2>3. UNCHANGED worktree
    BY <1>5 DEF Checkpoint, NoGraphChange
  <2>4. task'[t].state = "authentication_required" /\ task'[t].moved = task[t].moved
    BY <2>2, MoveToMoves
  <2>5. Standing(t) = task[t].state /\ Standing(t)' = task[t].state
    BY <2>2, <2>4 DEF Standing, Stages
  <2> QED BY <1>5, <2>2, <2>3, <2>4, <2>5, MoveToMoves DEF Pauses, Stands, Untouched
<1> QED BY <1>1, <1>2, <1>3, <1>4, <1>5 DEF MovesTask

-----------------------------------------------------------------------------
(* What a driver knows of its calls and of its candidate.                  *)

\* Where it goes on only when no call of its task is out.
Going == {"restore", "node", "reserve", "judge", "checkpoint", "succeed", "adopt", "requalify",
          "join", "integrate", "merge", "integrated", "package", "verdict", "count", "advance"}

\* For a task in state s, with head h, worktree w and the calls A out.
Works(row, s, h, w, A) ==
  /\ row.pc \in Going => A = {}
  /\ row.pc \in {"start", "call"} => A \subseteq {row.exec}
  /\ row.pc = "look" => A = {} \/ s \in {"blocked", "cancelled"}
  /\ row.pc = "workspace" => s \in {"contracted", "cancelled"}
  /\ row.pc = "record" => w = BaseRevision
  /\ row.pc = "adopt" \/ (row.pc = "succeed" /\ OnTaskBranch(Head(row.todo))) => row.head = w
  /\ \/ row.pc \in {"node", "reserve", "start", "call", "judge"}
     \/ row.pc = "succeed" /\ ~OnTaskBranch(Head(row.todo))
     => row.head = h
  /\ row.pc \in {"judge", "verdict"} /\ Head(row.todo) = "verify" /\ row.verdict = "passed" => w = h
  /\ row.pc = "advance" /\ row.verdict = "rejected" => row.from # "review_complete"

WorksOf(p) ==
  Works(process[p], task[Own(p)].state, task[Own(p)].head, worktree[Own(p)], In(Own(p), Active))

AllWork == \A p \in Processes : Drives(p) => WorksOf(p)

\* Where it knows nothing of them.
Loose == {"open", "inspect", "reconcile", "unpark", "excepted", "block", "reread", "cancel"} \cup Ended

LEMMA LooseWorks ==
  ASSUME NEW row, NEW s, NEW h, NEW w, NEW A, row.pc \in Loose
  PROVE  Works(row, s, h, w, A)
BY DEF Works, Loose, Ended, Going

\* Somebody else cancels or submits the task.
LEMMA WorksMeanwhile ==
  ASSUME NEW row, NEW s, NEW v, NEW h, NEW w, NEW A, Works(row, s, h, w, A),
         v \in {s, "cancelled"} \/ (s = "absent" /\ v = "contracted")
  PROVE  Works(row, v, h, w, A)
BY DEF Works

\* p knows it after its step on t, or knows nothing.
WorksAfter(p, t) ==
  \/ process'[p].pc \in Loose
  \/ /\ process'[p].task = t
     /\ Works(process'[p], task'[t].state, task'[t].head, worktree'[t], In(t, Active)')

\* The steps after which it knows nothing.
LetsBe(p) ==
  \/ RecordWorkspace(p) \/ OpenWorkspace(p) \/ ReconcileFound(p) \/ RereadForCancel(p)
  \/ CancelTask(p) \/ FailAssignment(p) \/ CallOff(p) \/ GiveUp(p) \/ RefuseMerge(p)
  \/ CallRaises(p) \/ EngineRefused(p) \/ Fail(p)

LEMMA LooseAfter ==
  ASSUME InPlace, NEW p \in Processes, LetsBe(p)
  PROVE  process'[p].pc \in Loose
<1>1. CASE RereadForCancel(p)
  BY <1>1, BystandersEnd DEF Loose
<1>2. CASE ~RereadForCancel(p)
  <2>1. \E pc \in Loose : Goto(p, pc)
    BY <1>2 DEF LetsBe, RecordWorkspace, OpenWorkspace, ReconcileFound, CancelTask, FailAssignment,
       CallOff, GiveUp, RefuseMerge, CallRaises, EngineRefused, Fail, Loose, Ended
  <2>2. Loose \subseteq Points
    BY DEF Loose, Points, Ended
  <2> QED BY <2>1, <2>2, GotoKeeps
<1> QED BY <1>1, <1>2

LEMMA GotoHead ==
  ASSUME InPlace, NEW p \in Processes, NEW pc \in Points \ Ended, Goto(p, pc)
  PROVE  /\ process'[p].pc = pc /\ process'[p].task = Own(p) /\ process'[p].head = process[p].head
         /\ process'[p].todo = process[p].todo /\ process'[p].from = process[p].from
         /\ process'[p].verdict = process[p].verdict /\ process'[p].exec = process[p].exec
<1>1. process[p] \in ProcessRow
  BY DEF InPlace
<1>2. process'[p] = [process[p] EXCEPT !.pc = pc]
  BY GotoKeeps
<1> QED BY <1>1, <1>2 DEF ProcessRow, Own

\* The steps of a driver that neither move its task, nor touch its candidate,
\* nor take a call.
Passes(p) ==
  \/ Inspect(p) \/ RestoreNode(p) \/ Look(p) \/ ResetNode(p) \/ SkipParkedNode(p) \/ RunNode(p)
  \/ StartCall(p) \/ ParkNode(p) \/ Succeed(p) \/ Requalify(p) \/ Join(p) \/ RunIntegration(p)
  \/ Integrated(p) \/ RecordVerdict(p) \/ Package(p) \/ SettleNode(p)

LEMMA PassesBy ==
  ASSUME InPlace, LedgerTypeOK, NEW p \in Processes, NEW t \in Tasks, Passes(p)
  PROVE  task'[t] = task[t] /\ worktree'[t] = worktree[t] /\ In(t, Active)' = In(t, Active)
<1>1. CASE StartCall(p)
  <2>1. In(t, Active)' = In(t, Active)
    BY <1>1, CallsStay
  <2> QED BY <1>1, <2>1 DEF StartCall, StartExecution, OnLedgerOnly, NoGraphChange, taskVars
<1>2. CASE RecordVerdict(p) \/ Package(p)
  BY <1>2 DEF RecordVerdict, Package, AddEvidence, OnTaskOnly, NoGraphChange, ledgerVars, In
<1>3. CASE ~(StartCall(p) \/ RecordVerdict(p) \/ Package(p))
  <2>1. UNCHANGED <<allVars, worktree>>
    BY <1>3 DEF Passes, Inspect, RestoreNode, Look, ResetNode, SkipParkedNode, RunNode, ParkNode,
       Succeed, Requalify, Join, RunIntegration, Integrated, SettleNode, NoStoreChange,
       NoGraphChange, OnNodeOnly
  <2> QED BY <2>1 DEF allVars, storeVars, taskVars, ledgerVars, In
<1> QED BY <1>1, <1>2, <1>3

\* Those of them that only go on.
LEMMA GoingWorks ==
  ASSUME InPlace, LedgerTypeOK, NEW p \in Processes, NEW t \in Tasks, t = Own(p),
         \/ Inspect(p) \/ RestoreNode(p) \/ SkipParkedNode(p) \/ ParkNode(p) \/ RecordVerdict(p)
         \/ Succeed(p) /\ OnTaskBranch(Current(p))
         \/ Integrated(p) \/ SettleNode(p),
         InStage(process[p], task[t].state, node[t]),
         Works(process[p], task[t].state, task[t].head, worktree[t], In(t, Active))
  PROVE  WorksAfter(p, t)
<1>1. task'[t] = task[t] /\ worktree'[t] = worktree[t] /\ In(t, Active)' = In(t, Active)
  BY PassesBy DEF Passes
<1>2. ASSUME NEW pc \in Points \ Ended, Goto(p, pc),
             Works([process[p] EXCEPT !.pc = pc], task[t].state, task[t].head, worktree[t],
                   In(t, Active))
      PROVE  WorksAfter(p, t)
  <2>1. process'[p] = [process[p] EXCEPT !.pc = pc] /\ process'[p].task = t
    BY <1>2, GotoKeeps, GotoHead DEF Own
  <2> QED BY <1>1, <1>2, <2>1 DEF WorksAfter
<1>3. process[p] \in ProcessRow
  BY DEF InPlace
<1>4. ASSUME NEW pc, NEW row, row = [process[p] EXCEPT !.pc = pc]
      PROVE  /\ row.pc = pc /\ row.head = process[p].head /\ row.todo = process[p].todo
             /\ row.from = process[p].from /\ row.verdict = process[p].verdict
  BY <1>3, <1>4 DEF ProcessRow
<1>5. CASE Inspect(p)
  <2>1. CASE In(t, Active) = {}
    <3> DEFINE row == [process[p] EXCEPT !.pc = "look"]
    <3>1. Goto(p, "look") /\ "look" \in Points \ Ended
      BY <1>5, <2>1 DEF Inspect, Points, Ended
    <3>2. row.pc = "look"
      BY <1>4
    <3> HIDE DEF row
    <3>3. Works(row, task[t].state, task[t].head, worktree[t], In(t, Active))
      BY <2>1, <3>2 DEF Works, Going
    <3> QED BY <1>2, <3>1, <3>3 DEF row
  <2>2. CASE In(t, Active) # {}
    <3>1. Goto(p, "reconcile") /\ "reconcile" \in Points
      BY <1>5, <2>2 DEF Inspect, Points
    <3>2. process'[p].pc = "reconcile"
      BY <3>1, GotoKeeps
    <3> QED BY <3>2 DEF WorksAfter, Loose
  <2> QED BY <2>1, <2>2
<1>6. ASSUME NEW pc \in {"look", "join", "checkpoint", "count"}, Goto(p, pc), process[p].pc \in Going
      PROVE  WorksAfter(p, t)
  <2> DEFINE row == [process[p] EXCEPT !.pc = pc]
  <2>1. row.pc = pc /\ pc \in Points \ Ended
    BY <1>4 DEF Points, Ended
  <2> HIDE DEF row
  <2>2. In(t, Active) = {}
    BY <1>6 DEF Works
  <2>3. Works(row, task[t].state, task[t].head, worktree[t], In(t, Active))
    BY <2>1, <2>2 DEF Works, Going
  <2> QED BY <1>2, <1>6, <2>1, <2>3 DEF row
<1>7. CASE RestoreNode(p) \/ SkipParkedNode(p) \/ ParkNode(p)
  <2>1. \E pc \in {"look", "join", "checkpoint", "count"} : Goto(p, pc) /\ process[p].pc \in Going
    BY <1>7 DEF RestoreNode, SkipParkedNode, ParkNode, At, Going
  <2> QED BY <1>6, <2>1
<1>8. CASE RecordVerdict(p)
  <2> DEFINE row == [process[p] EXCEPT !.pc = "verdict"]
  <2>1. /\ Goto(p, "verdict") /\ "verdict" \in Points \ Ended /\ process[p].pc = "judge"
    BY <1>8 DEF RecordVerdict, Judged, At, Points, Ended
  <2>2. row.pc = "verdict" /\ row.todo = process[p].todo /\ row.verdict = process[p].verdict
    BY <1>4
  <2> HIDE DEF row
  <2>3. In(t, Active) = {}
    BY <2>1 DEF Works, Going
  <2>4. Works(row, task[t].state, task[t].head, worktree[t], In(t, Active))
    BY <2>1, <2>2, <2>3 DEF Works, Going
  <2> QED BY <1>2, <2>1, <2>4 DEF row
<1>9. CASE Succeed(p) /\ OnTaskBranch(Current(p))
  <2> DEFINE row == [process[p] EXCEPT !.pc = "adopt"]
  <2>1. /\ Goto(p, "adopt") /\ "adopt" \in Points \ Ended /\ process[p].pc = "succeed"
        /\ OnTaskBranch(Head(process[p].todo))
    BY <1>9 DEF Succeed, At, Points, Ended, Current
  <2>2. row.pc = "adopt" /\ row.head = process[p].head
    BY <1>4
  <2> HIDE DEF row
  <2>3. In(t, Active) = {} /\ process[p].head = worktree[t]
    BY <2>1 DEF Works, Going
  <2>4. Works(row, task[t].state, task[t].head, worktree[t], In(t, Active))
    BY <2>2, <2>3 DEF Works, Going
  <2> QED BY <1>2, <2>1, <2>4 DEF row
<1>10. ASSUME Goto(p, "advance"), process[p].pc \in Going,
              process[p].verdict = "rejected" => process[p].from # "review_complete"
       PROVE  WorksAfter(p, t)
  <2> DEFINE row == [process[p] EXCEPT !.pc = "advance"]
  <2>1. "advance" \in Points \ Ended
    BY DEF Points, Ended
  <2>2. row.pc = "advance" /\ row.from = process[p].from /\ row.verdict = process[p].verdict
    BY <1>4
  <2> HIDE DEF row
  <2>3. In(t, Active) = {}
    BY <1>10 DEF Works
  <2>4. Works(row, task[t].state, task[t].head, worktree[t], In(t, Active))
    BY <1>10, <2>2, <2>3 DEF Works, Going
  <2> QED BY <1>2, <1>10, <2>1, <2>4 DEF row
<1>11. CASE Integrated(p)
  BY <1>10, <1>11 DEF Integrated, At, Going, InStage
<1>12. CASE SettleNode(p)
  <2>1. process[p].pc = "verdict" /\ process[p].verdict \in {"passed", "rejected", "stopped"}
    BY <1>12 DEF SettleNode, At, InPlace, Placed
  <2>2. CASE process[p].verdict = "passed"
    BY <1>10, <1>12, <2>1, <2>2 DEF SettleNode, Going
  <2>3. CASE process[p].verdict = "rejected"
    BY <1>6, <1>12, <2>1, <2>3 DEF SettleNode, Going
  <2>4. CASE process[p].verdict = "stopped"
    <3>1. Goto(p, "block") /\ "block" \in Points
      BY <1>12, <2>4 DEF SettleNode, Points
    <3>2. process'[p].pc = "block"
      BY <3>1, GotoKeeps
    <3> QED BY <3>2 DEF WorksAfter, Loose
  <2> QED BY <2>1, <2>2, <2>3, <2>4
<1> QED BY <1>5, <1>7, <1>8, <1>9, <1>11, <1>12

\* And those that note something down as they pass.
LEMMA NotingWorks ==
  ASSUME InPlace, LedgerTypeOK, NEW p \in Processes, NEW t \in Tasks, t = Own(p),
         \/ ResetNode(p) \/ RunNode(p) \/ StartCall(p) \/ Requalify(p) \/ Join(p)
         \/ RunIntegration(p) \/ Package(p)
         \/ Succeed(p) /\ ~OnTaskBranch(Current(p)),
         InStage(process[p], task[t].state, node[t]),
         Works(process[p], task[t].state, task[t].head, worktree[t], In(t, Active))
  PROVE  WorksAfter(p, t)
<1>1. task'[t] = task[t] /\ worktree'[t] = worktree[t] /\ In(t, Active)' = In(t, Active)
  BY PassesBy DEF Passes
<1>2. process[p] \in ProcessRow /\ process \in [Processes -> ProcessRow] /\ process[p].task = t
  BY DEF InPlace, Own
<1>3. ASSUME NEW row, process' = [process EXCEPT ![p] = row], row.task = process[p].task,
             Works(row, task[t].state, task[t].head, worktree[t], In(t, Active))
      PROVE  WorksAfter(p, t)
  BY <1>1, <1>2, <1>3 DEF WorksAfter
<1>4. CASE ResetNode(p)
  <2> DEFINE row == [process[p] EXCEPT !.seen[Current(p)] = "pending"]
  <2>1. process' = [process EXCEPT ![p] = row] /\ process[p].pc = "node"
    BY <1>2, <1>4 DEF ResetNode, At, ProcessRow
  <2>2. row.pc = "node" /\ row.task = process[p].task /\ row.head = process[p].head
    BY <1>2, <2>1 DEF ProcessRow
  <2> HIDE DEF row
  <2>3. Works(row, task[t].state, task[t].head, worktree[t], In(t, Active))
    BY <2>1, <2>2 DEF Works, Going
  <2> QED BY <1>3, <2>1, <2>2, <2>3
<1>5. CASE RunNode(p)
  <2> DEFINE from == IF Current(p) \in Workers THEN task[t].state ELSE process[p].from
             pc   == IF Current(p) = "package" THEN "package" ELSE "reserve"
  <2>1. process' = [process EXCEPT ![p] = [[process[p] EXCEPT !.from = from] EXCEPT !.pc = pc]]
    BY <1>2, <1>5 DEF RunNode, ProcessRow
  <2>2. pc \in {"package", "reserve"}
    OBVIOUS
  <2> HIDE DEF from, pc
  <2> DEFINE row == [[process[p] EXCEPT !.from = from] EXCEPT !.pc = pc]
  <2>3. row.pc = pc /\ row.task = process[p].task /\ row.head = process[p].head
    BY <1>2 DEF ProcessRow
  <2>4. process[p].pc = "node"
    BY <1>5 DEF RunNode, At
  <2>5. process' = [process EXCEPT ![p] = row]
    BY <2>1
  <2> HIDE DEF row
  <2>6. Works(row, task[t].state, task[t].head, worktree[t], In(t, Active))
    BY <2>3, <2>4, <2>2 DEF Works, Going
  <2> QED BY <1>3, <2>3, <2>5, <2>6
<1>6. CASE StartCall(p)
  <2>1. PICK late : process' = [process EXCEPT ![p] =
                                  [[process[p] EXCEPT !.pc = "call"] EXCEPT !.late = late]]
    BY <1>2, <1>6 DEF StartCall, ProcessRow
  <2> DEFINE row == [[process[p] EXCEPT !.pc = "call"] EXCEPT !.late = late]
  <2>2. /\ row.pc = "call" /\ row.task = process[p].task /\ row.head = process[p].head
        /\ row.exec = process[p].exec
    BY <1>2 DEF ProcessRow
  <2>3. process[p].pc = "start" /\ process' = [process EXCEPT ![p] = row]
    BY <1>6, <2>1 DEF StartCall, At
  <2> HIDE DEF row
  <2>4. Works(row, task[t].state, task[t].head, worktree[t], In(t, Active))
    BY <2>2, <2>3 DEF Works, Going
  <2> QED BY <1>3, <2>2, <2>3, <2>4
<1>7. CASE Requalify(p)
  <2> DEFINE todo == Tail(process[p].todo)
             pc   == IF Current(p) = "review" THEN "advance" ELSE "requalify"
  <2>1. process' = [process EXCEPT ![p] =
          [[[process[p] EXCEPT !.todo = todo] EXCEPT !.from = "repairing"] EXCEPT !.pc = pc]]
    BY <1>2, <1>7 DEF Requalify, ProcessRow
  <2>2. pc \in {"advance", "requalify"}
    OBVIOUS
  <2> HIDE DEF todo, pc
  <2> DEFINE row == [[[process[p] EXCEPT !.todo = todo] EXCEPT !.from = "repairing"] EXCEPT !.pc = pc]
  <2>3. row.pc = pc /\ row.task = process[p].task /\ row.from = "repairing"
    BY <1>2 DEF ProcessRow
  <2>4. process[p].pc = "requalify" /\ process' = [process EXCEPT ![p] = row]
    BY <1>7, <2>1 DEF Requalify, At
  <2> HIDE DEF row
  <2>5. Works(row, task[t].state, task[t].head, worktree[t], In(t, Active))
    BY <2>3, <2>4, <2>2 DEF Works, Going
  <2> QED BY <1>3, <2>3, <2>4, <2>5
<1>8. CASE RunIntegration(p)
  <2> DEFINE row == [[process[p] EXCEPT !.todo = <<"integrate">>] EXCEPT !.pc = "merge"]
  <2>1. process' = [process EXCEPT ![p] = row] /\ process[p].pc = "integrate"
    BY <1>2, <1>8 DEF RunIntegration, At, ProcessRow
  <2>2. row.pc = "merge" /\ row.task = process[p].task
    BY <1>2 DEF ProcessRow
  <2> HIDE DEF row
  <2>3. Works(row, task[t].state, task[t].head, worktree[t], In(t, Active))
    BY <2>1, <2>2 DEF Works, Going
  <2> QED BY <1>3, <2>1, <2>2, <2>3
<1>9. CASE Package(p)
  <2> DEFINE row == [[process[p] EXCEPT !.verdict = "passed"] EXCEPT !.pc = "verdict"]
  <2>1. process' = [process EXCEPT ![p] = row] /\ process[p].pc = "package"
    BY <1>2, <1>9 DEF Package, At, ProcessRow
  <2>2. row.pc = "verdict" /\ row.task = process[p].task /\ row.todo = process[p].todo
    BY <1>2 DEF ProcessRow
  <2>3. Head(process[p].todo) = "package"
    BY <2>1 DEF InStage
  <2> HIDE DEF row
  <2>4. Works(row, task[t].state, task[t].head, worktree[t], In(t, Active))
    BY <2>1, <2>2, <2>3 DEF Works, Going
  <2> QED BY <1>3, <2>1, <2>2, <2>4
<1>10. CASE Succeed(p) /\ ~OnTaskBranch(Current(p))
  <2> DEFINE pc  == IF Len(process[p].todo) > 1 THEN "node" ELSE "join"
             row == [[process[p] EXCEPT !.todo = Tail(process[p].todo)] EXCEPT !.pc = pc]
  <2>1. /\ process' = [process EXCEPT ![p] = row] /\ process[p].pc = "succeed"
        /\ ~OnTaskBranch(Head(process[p].todo))
    BY <1>2, <1>10 DEF Succeed, LeaveNode, At, Current, ProcessRow
  <2>2. row.pc \in {"node", "join"} /\ row.task = process[p].task /\ row.head = process[p].head
    BY <1>2 DEF ProcessRow
  <2> HIDE DEF row
  <2>3. Works(row, task[t].state, task[t].head, worktree[t], In(t, Active))
    BY <2>1, <2>2 DEF Works, Going
  <2> QED BY <1>3, <2>1, <2>2, <2>3
<1>11. CASE Join(p)
  <2> DEFINE row == [process[p] EXCEPT !.from = "implementing"]
  <2>1. PICK pc \in {"look", "returned", "integrate", "advance"} :
          process' = [process EXCEPT ![p] = Then(row, pc)]
    <3> DEFINE done == \A n \in Implementations : node[t][n].status = "succeeded"
               where == CASE task[t].state # "implementing"           -> "look"
                          [] task[t].state = "implementing" /\ ~done  -> "returned"
                          [] OTHER -> IF Decomposed /\ node[t]["integrate"].status # "succeeded"
                                      THEN "integrate" ELSE "advance"
    <3>1. process' = [process EXCEPT ![p] = Then(row, where)]
      BY <1>2, <1>11 DEF Join
    <3>2. where \in {"look", "returned", "integrate", "advance"}
      <4> HIDE DEF done
      <4>1. \/ task[t].state # "implementing" \/ (task[t].state = "implementing" /\ ~done)
            \/ task[t].state = "implementing" /\ done
        OBVIOUS
      <4> QED BY <4>1
    <3> HIDE DEF row, where
    <3> QED BY <3>1, <3>2
  <2>2. row \in ProcessRow /\ row.from = "implementing" /\ row.task = process[p].task
    <3>1. "implementing" \in States
      BY DEF States, Working
    <3> QED BY <1>2, <3>1 DEF ProcessRow
  <2>3. process[p].pc = "join" /\ pc \in Points
    BY <1>11 DEF Join, At, Points, Ended
  <2> HIDE DEF row
  <2>4. process'[p] = Then(row, pc)
    BY <1>2, <2>1
  <2>5. CASE pc = "returned"
    BY <2>2, <2>3, <2>4, <2>5, ThenType DEF WorksAfter, Loose, Ended
  <2>6. CASE pc # "returned"
    <3> DEFINE new == [row EXCEPT !.pc = pc]
    <3>1. process' = [process EXCEPT ![p] = new]
      BY <2>1, <2>6 DEF Then, Ended
    <3>2. new.pc = pc /\ new.task = process[p].task /\ new.from = "implementing"
      BY <2>2 DEF ProcessRow
    <3> HIDE DEF new
    <3>3. Works(new, task[t].state, task[t].head, worktree[t], In(t, Active))
      BY <2>3, <2>6, <3>2 DEF Works, Going
    <3> QED BY <1>3, <3>1, <3>2, <3>3
  <2> QED BY <2>5, <2>6
<1> QED BY <1>4, <1>5, <1>6, <1>7, <1>8, <1>9, <1>10, <1>11

\* A turn begins with no call out, and with the head its task has.
LEMMA LookWorks ==
  ASSUME InPlace, LedgerTypeOK, NEW p \in Processes, NEW t \in Tasks, t = Own(p), Look(p),
         Works(process[p], task[t].state, task[t].head, worktree[t], In(t, Active))
  PROVE  WorksAfter(p, t)
<1> DEFINE s    == task[t].state
           seen == [n \in Nodes |-> node[t][n].status]
           todo == StageNodes(s, seen)
           turn == [Unstarted EXCEPT !.task = t, !.from = s, !.head = task[t].head,
                      !.repairs = task[t].repairs, !.seen = seen, !.todo = todo,
                      !.late = process[p].late]
           out  == In(t, {"running", "cancel_requested", "reconciliation_required"}) # {}
           where == CASE s \in AtRest \/ (cancelRequested[t] /\ out) -> "returned"
                      [] s \in Driven /\ cancelRequested[t] /\ ~out -> "cancel"
                      [] s \in Driven /\ ~cancelRequested[t] /\ todo = <<>>   -> AfterStage(s)
                      [] s \in Driven /\ ~cancelRequested[t] /\ todo # <<>>   -> "node"
<1>1. task'[t] = task[t] /\ worktree'[t] = worktree[t] /\ In(t, Active)' = In(t, Active)
  BY PassesBy DEF Passes
<1>2. process'[p] = Then(turn, where) /\ process[p].pc = "look" /\ s \in AtRest \cup Driven
  BY DEF Look, InPlace, At
<1>3. /\ where \in {"returned", "cancel", "join", "advance", "node"}
      /\ where \notin {"returned", "cancel"} => s \notin {"blocked", "cancelled"}
  <2>1. AfterStage(s) \in {"join", "advance"}
    BY DEF AfterStage
  <2>2. s \in Driven => s \notin {"blocked", "cancelled"}
    BY DEF Driven, Working
  <2> HIDE DEF s, todo, out
  <2>3. \/ s \in AtRest \/ (cancelRequested[t] /\ out)
        \/ s \in Driven /\ cancelRequested[t] /\ ~out
        \/ s \in Driven /\ ~cancelRequested[t] /\ todo = <<>>
        \/ s \in Driven /\ ~cancelRequested[t] /\ todo # <<>>
    BY <1>2
  <2>4. AtRest \cap Driven = {}
    BY DEF AtRest, Settled, Driven, Working
  <2> QED BY <2>1, <2>2, <2>3, <2>4
<1>4. turn.task = t /\ turn.head = task[t].head /\ turn.verdict = "none" /\ DOMAIN turn = DOMAIN Unstarted
  BY DEF Unstarted
<1>5. "pc" \in DOMAIN Unstarted
  BY DEF Unstarted
<1> HIDE DEF turn, where
<1>6. CASE where = "returned"
  BY <1>2, <1>6 DEF Then, Unstarted, WorksAfter, Loose, Ended
<1>7. CASE where # "returned"
  <2> DEFINE row == [turn EXCEPT !.pc = where]
  <2>1. process'[p] = row
    BY <1>2, <1>3, <1>7 DEF Then, Ended
  <2>2. row.pc = where /\ row.task = t /\ row.head = task[t].head /\ row.verdict = "none"
    BY <1>4, <1>5 DEF turn, Unstarted
  <2> HIDE DEF row
  <2>3. CASE where = "cancel"
    BY <2>1, <2>2, <2>3 DEF WorksAfter, Loose
  <2>4. CASE where \in {"join", "advance", "node"}
    <3>1. In(t, Active) = {}
      BY <1>2, <1>3, <2>4 DEF Works
    <3>2. Works(row, task[t].state, task[t].head, worktree[t], In(t, Active))
      BY <2>2, <2>4, <3>1 DEF Works, Going
    <3> QED BY <1>1, <2>1, <2>2, <3>2 DEF WorksAfter
  <2> QED BY <1>3, <1>7, <2>3, <2>4
<1> QED BY <1>6, <1>7

\* A task is moved.
LEMMA MovingWorks ==
  ASSUME InPlace, TaskTypeOK, AuthTables, AllInStep, LedgerTypeOK,
         NEW p \in Processes, NEW t \in Tasks, t = Own(p),
         Unpark(p) \/ Checkpoint(p) \/ Advance(p) \/ Block(p) \/ CountRejection(p),
         InStage(process[p], task[t].state, node[t]),
         Works(process[p], task[t].state, task[t].head, worktree[t], In(t, Active))
  PROVE  WorksAfter(p, t)
<1>1. In(t, Active)' = In(t, Active)
  <2>1. UNCHANGED exec
    BY DEF Unpark, Checkpoint, Advance, Block, CountRejection, ResumeAfterAuthentication,
       CheckpointAuthentication, OnTaskOnly, ledgerVars
  <2> QED BY <2>1 DEF In
<1>2. ASSUME NEW pc \in {"restore", "look"}, Goto(p, pc), In(t, Active) = {} PROVE WorksAfter(p, t)
  <2>1. pc \in Points \ Ended
    BY DEF Points, Ended
  <2>2. process'[p].pc = pc /\ process'[p].task = t
    BY <1>2, <2>1, GotoHead
  <2>3. Works(process'[p], task'[t].state, task'[t].head, worktree'[t], In(t, Active)')
    BY <1>1, <1>2, <2>2 DEF Works, Going
  <2> QED BY <2>2, <2>3 DEF WorksAfter
<1>3. CASE Unpark(p)
  <2>1. In(t, Active) = {} /\ Goto(p, "restore")
    BY <1>3 DEF Unpark, ResumeAfterAuthentication, In, Outstanding, Active
  <2> QED BY <1>2, <2>1
<1>4. CASE Checkpoint(p) \/ Advance(p)
  <2>1. process[p].pc \in Going /\ Goto(p, "look")
    BY <1>4 DEF Checkpoint, Advance, At, Going
  <2>2. In(t, Active) = {}
    BY <2>1 DEF Works
  <2> QED BY <1>2, <2>1, <2>2
<1>5. CASE Block(p)
  <2>1. Goto(p, "look") /\ "look" \in Points \ Ended
    BY <1>5 DEF Block, Points, Ended
  <2>2. process'[p].pc = "look" /\ process'[p].task = t
    BY <2>1, GotoHead
  <2>3. task'[t].state = "blocked"
    BY <1>5, OneTaskMoves DEF Block
  <2>4. Works(process'[p], task'[t].state, task'[t].head, worktree'[t], In(t, Active)')
    BY <2>2, <2>3 DEF Works, Going
  <2> QED BY <2>2, <2>4 DEF WorksAfter
<1>6. CASE CountRejection(p)
  <2>1. process[p].pc = "count" /\ process[p].from \in {"verifying", "reviewing"}
    BY <1>6 DEF CountRejection, At, InStage
  <2>2. In(t, Active) = {}
    BY <2>1 DEF Works, Going
  <2>3. CASE Goto(p, "look")
    BY <1>2, <2>2, <2>3
  <2>4. CASE Goto(p, "advance")
    <3>1. "advance" \in Points \ Ended
      BY DEF Points, Ended
    <3>2. /\ process'[p].pc = "advance" /\ process'[p].task = t
          /\ process'[p].from = process[p].from
      BY <2>4, <3>1, GotoHead
    <3>3. Works(process'[p], task'[t].state, task'[t].head, worktree'[t], In(t, Active)')
      BY <1>1, <2>1, <2>2, <3>2 DEF Works, Going
    <3> QED BY <3>2, <3>3 DEF WorksAfter
  <2> QED BY <1>6, <2>3, <2>4 DEF CountRejection
<1> QED BY <1>3, <1>4, <1>5, <1>6

\* A candidate is made, and told of.
LEMMA MakingWorks ==
  ASSUME InPlace, TaskTypeOK, Worktrees, LedgerTypeOK, NEW p \in Processes, NEW t \in Tasks,
         t = Own(p), CreateWorkspace(p) \/ Commit(p) \/ Merge(p) \/ Adopt(p),
         Works(process[p], task[t].state, task[t].head, worktree[t], In(t, Active))
  PROVE  WorksAfter(p, t)
<1>1. process[p] \in ProcessRow /\ process \in [Processes -> ProcessRow] /\ process[p].task = t
  BY DEF InPlace, Own
<1>2. In(t, Active)' = In(t, Active)
  BY DEF CreateWorkspace, Commit, Merge, Adopt, OnTaskOnly, allVars, storeVars, ledgerVars, In
<1>3. ASSUME NEW row, process' = [process EXCEPT ![p] = row], row.task = process[p].task,
             Works(row, task'[t].state, task'[t].head, worktree'[t], In(t, Active))
      PROVE  WorksAfter(p, t)
  BY <1>1, <1>2, <1>3 DEF WorksAfter
<1>4. CASE CreateWorkspace(p)
  <2>1. Goto(p, "record") /\ "record" \in Points \ Ended
    BY <1>4 DEF CreateWorkspace, Points, Ended
  <2>2. process'[p].pc = "record" /\ process'[p].task = t
    BY <2>1, GotoHead
  <2>3. worktree'[t] = BaseRevision
    BY <1>4 DEF CreateWorkspace, Worktrees
  <2>4. Works(process'[p], task'[t].state, task'[t].head, worktree'[t], In(t, Active)')
    BY <2>2, <2>3 DEF Works, Going
  <2> QED BY <2>2, <2>4 DEF WorksAfter
<1>5. CASE Commit(p) /\ OnTaskBranch(Current(p))
  <2> DEFINE new == worktree[t] + 1
             row == [[process[p] EXCEPT !.head = new] EXCEPT !.pc = "succeed"]
  <2>1. process' = [process EXCEPT ![p] = row] /\ process[p].pc = "judge" /\ worktree'[t] = new
    BY <1>1, <1>5 DEF Commit, Judged, At, ProcessRow, Worktrees
  <2>2. /\ row.pc = "succeed" /\ row.task = process[p].task /\ row.head = new
        /\ OnTaskBranch(Head(row.todo))
    BY <1>1, <1>5 DEF ProcessRow, Current
  <2> HIDE DEF new, row
  <2>3. In(t, Active) = {}
    BY <2>1 DEF Works, Going
  <2>4. Works(row, task'[t].state, task'[t].head, worktree'[t], In(t, Active))
    BY <2>1, <2>2, <2>3 DEF Works, Going
  <2> QED BY <1>3, <2>1, <2>2, <2>4
<1>6. CASE Commit(p) /\ ~OnTaskBranch(Current(p))
  <2>1. /\ Goto(p, "succeed") /\ "succeed" \in Points \ Ended /\ process[p].pc = "judge"
        /\ UNCHANGED <<task, worktree>>
    BY <1>6 DEF Commit, Judged, At, Points, Ended, allVars, storeVars, taskVars
  <2>2. /\ process'[p].pc = "succeed" /\ process'[p].task = t /\ process'[p].head = process[p].head
        /\ ~OnTaskBranch(Head(process'[p].todo))
    BY <1>6, <2>1, GotoHead DEF Current
  <2>3. In(t, Active) = {} /\ process[p].head = task[t].head
    BY <2>1 DEF Works, Going
  <2>4. Works(process'[p], task'[t].state, task'[t].head, worktree'[t], In(t, Active)')
    BY <1>2, <2>1, <2>2, <2>3 DEF Works, Going
  <2> QED BY <2>2, <2>4 DEF WorksAfter
<1>7. CASE Merge(p)
  <2> DEFINE new == worktree[t] + 1
             row == [[process[p] EXCEPT !.head = new] EXCEPT !.pc = "adopt"]
  <2>1. process' = [process EXCEPT ![p] = row] /\ process[p].pc = "merge" /\ worktree'[t] = new
    BY <1>1, <1>7 DEF Merge, At, ProcessRow, Worktrees
  <2>2. row.pc = "adopt" /\ row.task = process[p].task /\ row.head = new
    BY <1>1 DEF ProcessRow
  <2> HIDE DEF new, row
  <2>3. In(t, Active) = {}
    BY <2>1 DEF Works, Going
  <2>4. Works(row, task'[t].state, task'[t].head, worktree'[t], In(t, Active))
    BY <2>1, <2>2, <2>3 DEF Works, Going
  <2> QED BY <1>3, <2>1, <2>2, <2>4
<1>8. CASE Adopt(p)
  <2>1. /\ process[p].pc = "adopt" /\ Placed(process[p])
        /\ task' = [task EXCEPT ![t].head = process[p].head]
    BY <1>8 DEF Adopt, At, SetHead, InPlace
  <2>2. In(t, Active) = {}
    BY <2>1 DEF Works, Going
  <2>3. task'[t].head = process[p].head
    BY <2>1 DEF TaskTypeOK, TaskRow
  <2>4. ASSUME LeaveNode(p) PROVE WorksAfter(p, t)
    <3> DEFINE pc  == IF Len(process[p].todo) > 1 THEN "node" ELSE "join"
               row == [[process[p] EXCEPT !.todo = Tail(process[p].todo)] EXCEPT !.pc = pc]
    <3>1. process' = [process EXCEPT ![p] = row]
      BY <1>1, <2>4 DEF LeaveNode, ProcessRow
    <3>2. row.pc \in {"node", "join"} /\ row.task = process[p].task /\ row.head = process[p].head
      BY <1>1 DEF ProcessRow
    <3> HIDE DEF row
    <3>3. Works(row, task'[t].state, task'[t].head, worktree'[t], In(t, Active))
      BY <2>2, <2>3, <3>2 DEF Works, Going
    <3> QED BY <1>3, <3>1, <3>2, <3>3
  <2>5. CASE Current(p) = "integrate"
    <3>1. Goto(p, "integrated") /\ "integrated" \in Points \ Ended
      BY <1>8, <2>5, SubtasksAssumption DEF Adopt, Points, Ended
    <3>2. process'[p].pc = "integrated" /\ process'[p].task = t
      BY <3>1, GotoHead
    <3>3. Works(process'[p], task'[t].state, task'[t].head, worktree'[t], In(t, Active)')
      BY <1>2, <2>2, <3>2 DEF Works, Going
    <3> QED BY <3>2, <3>3 DEF WorksAfter
  <2>6. CASE Current(p) = "repair"
    <3> DEFINE row == [[process[p] EXCEPT !.todo = <<"verify", "review">>] EXCEPT !.pc = "requalify"]
    <3>1. process' = [process EXCEPT ![p] = row]
      <4>1. process' = [process EXCEPT ![p].todo = <<"verify", "review">>, ![p].pc = "requalify"]
        BY <1>8, <2>6, SubtasksAssumption DEF Adopt
      <4> QED BY <1>1, <4>1 DEF ProcessRow
    <3>2. row.pc = "requalify" /\ row.task = process[p].task
      BY <1>1 DEF ProcessRow
    <3> HIDE DEF row
    <3>3. Works(row, task'[t].state, task'[t].head, worktree'[t], In(t, Active))
      BY <2>2, <3>2 DEF Works, Going
    <3> QED BY <1>3, <3>1, <3>2, <3>3
  <2>7. CASE Current(p) \in Implementations
    <3>1. Current(p) \notin {"integrate", "repair"}
      BY <2>7, SubtasksAssumption
    <3> QED BY <1>8, <2>4, <2>7, <3>1 DEF Adopt
  <2>8. \/ process[p].todo = <<"integrate">>
        \/ Head(process[p].todo) \in Workers
    BY <2>1 DEF Placed
  <2> QED BY <2>5, <2>6, <2>7, <2>8 DEF Current, Workers
<1> QED BY <1>4, <1>5, <1>6, <1>7, <1>8

\* A call is reserved, and comes back.
LEMMA CallingWorks ==
  ASSUME InPlace, LedgerTypeOK, NEW p \in Processes, NEW t \in Tasks, t = Own(p),
         Reserve(p) \/ (\E report \in Reports : CallReturns(p, report)),
         Works(process[p], task[t].state, task[t].head, worktree[t], In(t, Active))
  PROVE  WorksAfter(p, t)
<1>1. process[p] \in ProcessRow /\ process \in [Processes -> ProcessRow] /\ process[p].task = t
  BY DEF InPlace, Own
<1>2. UNCHANGED <<task, worktree>>
  BY DEF Reserve, CallReturns, ReserveExecution, FinishExecution, OnLedgerOnly, NoGraphChange, taskVars
<1>3. CASE Reserve(p)
  <2>1. PICK e : process' = [process EXCEPT ![p] = [[process[p] EXCEPT !.exec = e] EXCEPT !.pc = "start"]]
    BY <1>1, <1>3 DEF Reserve, ProcessRow
  <2> DEFINE row == [[process[p] EXCEPT !.exec = e] EXCEPT !.pc = "start"]
  <2>2. row.pc = "start" /\ row.task = process[p].task /\ row.head = process[p].head
    BY <1>1 DEF ProcessRow
  <2>3. process[p].pc = "reserve" /\ process'[p] = row
    BY <1>1, <1>3, <2>1 DEF Reserve, At
  <2> HIDE DEF row
  <2>4. In(t, Active) = {} /\ process[p].head = task[t].head
    BY <2>3 DEF Works, Going
  <2>5. In(t, Active)' \subseteq {row.exec}
    <3>1. In(t, Active)' \subseteq In(t, Active) \cup {process'[p].exec}
      BY <1>3, CallsChange
    <3> QED BY <2>3, <2>4, <3>1
  <2>6. Works(row, task'[t].state, task'[t].head, worktree'[t], In(t, Active)')
    BY <1>2, <2>2, <2>4, <2>5 DEF Works, Going
  <2> QED BY <1>1, <2>2, <2>3, <2>6 DEF WorksAfter
<1>4. CASE \E report \in Reports : CallReturns(p, report)
  <2>1. PICK report \in Reports, v \in UNION {VerdictsOn(Current(p), r) : r \in Reports} :
          /\ process' = [process EXCEPT ![p] = [[process[p] EXCEPT !.verdict = v] EXCEPT !.pc = "judge"]]
          /\ v \in VerdictsOn(Current(p), report) /\ MayReport(p, report) /\ process[p].pc = "call"
    BY <1>1, <1>4 DEF CallReturns, At, ProcessRow
  <2> DEFINE row == [[process[p] EXCEPT !.verdict = v] EXCEPT !.pc = "judge"]
  <2>2. /\ row.pc = "judge" /\ row.task = process[p].task /\ row.head = process[p].head
        /\ row.todo = process[p].todo /\ row.verdict = v
    BY <1>1 DEF ProcessRow
  <2>3. process'[p] = row
    BY <1>1, <2>1
  <2> HIDE DEF row
  <2>4. In(t, Active) \subseteq {Call(p)} /\ process[p].head = task[t].head
    BY <2>1 DEF Works, Call
  <2>5. In(t, Active)' = {}
    <3>1. ~Reserve(p)
      BY <2>1 DEF Reserve, At
    <3>2. In(t, Active)' = In(t, Active) \ {Call(p)}
      BY <1>4, <3>1, CallsChange
    <3> QED BY <2>4, <3>2
  <2>6. Head(row.todo) = "verify" /\ row.verdict = "passed" => worktree[t] = task[t].head
    <3> SUFFICES ASSUME Current(p) = "verify", v = "passed" PROVE worktree[t] = process[p].head
      BY <2>2, <2>4 DEF Current
    <3>1. report.status = "succeeded"
      BY <2>1, SubtasksAssumption DEF VerdictsOn, Workers
    <3> QED BY <2>1, <3>1 DEF MayReport
  <2>7. Works(row, task'[t].state, task'[t].head, worktree'[t], In(t, Active)')
    BY <1>2, <2>2, <2>4, <2>5, <2>6 DEF Works, Going
  <2> QED BY <1>1, <2>2, <2>3, <2>7 DEF WorksAfter
<1> QED BY <1>3, <1>4

\* Whatever it does.
LEMMA StepWorks ==
  ASSUME InPlace, TaskTypeOK, AuthTables, AllInStep, Worktrees, LedgerTypeOK,
         NEW p \in Processes, NEW t \in Tasks, t = Own(p), Step(p) \/ Fail(p),
         InStage(process[p], task[t].state, node[t]),
         Works(process[p], task[t].state, task[t].head, worktree[t], In(t, Active))
  PROVE  WorksAfter(p, t)
<1>1. LetsBe(p) => WorksAfter(p, t)
  BY LooseAfter DEF WorksAfter
<1>2. CASE \/ RecordWorkspace(p) \/ OpenWorkspace(p) \/ ReconcileFound(p) \/ RereadForCancel(p)
           \/ CancelTask(p) \/ FailAssignment(p) \/ CallOff(p) \/ GiveUp(p) \/ RefuseMerge(p)
           \/ EngineRefused(p) \/ Fail(p)
  BY <1>1, <1>2 DEF LetsBe
<1>3. CASE \/ Inspect(p) \/ RestoreNode(p) \/ SkipParkedNode(p) \/ ParkNode(p) \/ RecordVerdict(p)
           \/ Integrated(p) \/ SettleNode(p)
  BY <1>3, GoingWorks
<1>4. CASE ResetNode(p) \/ RunNode(p) \/ Requalify(p) \/ Join(p) \/ RunIntegration(p) \/ Package(p)
  BY <1>4, NotingWorks
<1>5. CASE Succeed(p)
  BY <1>5, GoingWorks, NotingWorks
<1>6. CASE Look(p) \/ Unpark(p) \/ Checkpoint(p) \/ Advance(p) \/ Block(p) \/ CountRejection(p)
  BY <1>6, LookWorks, MovingWorks
<1>7. CASE CreateWorkspace(p) \/ Commit(p) \/ Merge(p) \/ Adopt(p)
  BY <1>7, MakingWorks
<1>8. CASE Engine(p)
  BY <1>1, <1>8, CallingWorks, NotingWorks DEF Engine, LetsBe
<1> QED BY <1>2, <1>3, <1>4, <1>5, <1>6, <1>7, <1>8 DEF Step

\* A command begins where it knows nothing, or with the task as it read it.
LEMMA BeginWorks ==
  ASSUME InPlace, NEW p \in Processes, NEW t \in Tasks,
         BeginStart(p, t) \/ BeginResume(p, t) \/ BeginCancel(p, t)
  PROVE  WorksAfter(p, t)
<1>1. process[p] \in ProcessRow /\ process \in [Processes -> ProcessRow]
  BY DEF InPlace
<1>2. CASE BeginResume(p, t)
  <2>1. PICK n : process' = [process EXCEPT ![p] =
                    [[[process[p] EXCEPT !.task = t] EXCEPT !.todo = <<n>>] EXCEPT !.pc = "unpark"]]
    BY <1>1, <1>2 DEF BeginResume, ProcessRow
  <2>2. process'[p].pc = "unpark"
    BY <1>1, <2>1 DEF ProcessRow
  <2> QED BY <2>2 DEF WorksAfter, Loose
<1>3. CASE BeginStart(p, t) \/ BeginCancel(p, t)
  <2> DEFINE mine == [process[p] EXCEPT !.task = t]
  <2>1. PICK pc \in {"workspace", "returned", "inspect", "reread"} :
          /\ process' = [process EXCEPT ![p] = Then(mine, pc)]
          /\ pc = "workspace" => task[t].state = "contracted" /\ UNCHANGED task
    <3>1. CASE BeginStart(p, t)
      <4>1. UNCHANGED task
        BY <3>1 DEF BeginStart, NoStoreChange, allVars, storeVars, taskVars
      <4>2. \/ task[t].state = "contracted" \/ task[t].state \in Settled
            \/ task[t].state \notin Settled \cup {"contracted"}
        OBVIOUS
      <4> QED BY <3>1, <4>1, <4>2 DEF BeginStart, Settled
    <3>2. CASE BeginCancel(p, t)
      BY <3>2 DEF BeginCancel
    <3> QED BY <1>3, <3>1, <3>2
  <2>2. mine \in ProcessRow /\ mine.task = t /\ pc \in Points
    BY <1>1 DEF ProcessRow, Points, Ended
  <2> HIDE DEF mine
  <2>3. process'[p] = Then(mine, pc) /\ process'[p].pc = pc
    BY <1>1, <2>1, <2>2, ThenType
  <2>4. CASE pc # "workspace"
    BY <2>3, <2>4 DEF WorksAfter, Loose, Ended
  <2>5. CASE pc = "workspace"
    <3>1. process'[p].task = t
      BY <2>2, <2>3, <2>5 DEF Then, Ended, ProcessRow
    <3>2. Works(process'[p], task'[t].state, task'[t].head, worktree'[t], In(t, Active)')
      BY <2>1, <2>3, <2>5 DEF Works, Going
    <3> QED BY <3>1, <3>2 DEF WorksAfter
  <2> QED BY <2>4, <2>5
<1> QED BY <1>2, <1>3

LEMMA WorksAfterward ==
  ASSUME NEW p \in Processes, NEW t, WorksAfter(p, t)
  PROVE  WorksOf(p)'
<1>1. CASE process'[p].pc \in Loose
  BY <1>1, LooseWorks DEF WorksOf
<1>2. CASE process'[p].pc \notin Loose
  <2>1. /\ Own(p)' = t
        /\ Works(process'[p], task'[t].state, task'[t].head, worktree'[t], In(t, Active)')
    BY <1>2 DEF WorksAfter, Own
  <2>2. In(Own(p), Active)' = In(t, Active)'
    BY <2>1 DEF In
  <2> QED BY <2>1, <2>2 DEF WorksOf
<1> QED BY <1>1, <1>2

\* What others do while p drives.
LEMMA WorksMeanwhileStays ==
  ASSUME InPlace, AllWork, Meanwhile, Untouched, NEW q \in Processes, Drives(q),
         process'[q] = process[q], \A u : In(u, Active)' = In(u, Active)
  PROVE  WorksOf(q)'
<1>1. Own(q)' = Own(q) /\ Own(q) \in Tasks
  BY DEF Own, InPlace, Placed, Drives, Live
<1>2. WorksOf(q)
  BY DEF AllWork
<1> DEFINE t == process[q].task
<1>3. /\ task'[t].head = task[t].head /\ worktree'[t] = worktree[t]
      /\ \/ task'[t].state \in {task[t].state, "cancelled"}
         \/ task[t].state = "absent" /\ task'[t].state = "contracted"
  BY <1>1 DEF Meanwhile, Untouched, Own
<1>4. Works(process[q], task'[t].state, task'[t].head, worktree'[t], In(t, Active))
  BY <1>2, <1>3, WorksMeanwhile DEF WorksOf, Own
<1>5. In(t, Active)' = In(t, Active)
  OBVIOUS
<1>6. In(Own(q), Active)' = In(t, Active)
  BY <1>1, <1>5 DEF In, Own
<1> QED BY <1>1, <1>4, <1>6 DEF WorksOf, Own

\* No candidate is touched, and no call begins or ends.
LEMMA OthersTouchNothing ==
  ASSUME TaskTypeOK, AuthTables, InPlace, LedgerTypeOK,
         \/ UNCHANGED workflowVars
         \/ \E t \in Tasks : Submit(t)
         \/ \E p \in Processes : Begin(p) \/ RereadForCancel(p) \/ CancelTask(p) \/ Fail(p)
         \/ LoginActions /\ NoGraphChange
  PROVE  Untouched /\ \A u : In(u, Active)' = In(u, Active)
<1>1. CASE UNCHANGED workflowVars
  BY <1>1 DEF workflowVars, allVars, storeVars, taskVars, ledgerVars, In, Untouched
<1>2. CASE \E t \in Tasks : Submit(t)
  BY <1>2, SubmitSubmits, CallsStay DEF Submits
<1>3. CASE LoginActions /\ NoGraphChange
  BY <1>3, LoginsStand, CallsStay DEF NoGraphChange
<1>4. ASSUME NEW p \in Processes, Begin(p) \/ Fail(p)
      PROVE  Untouched /\ \A u : In(u, Active)' = In(u, Active)
  BY <1>4, MostStepsTouchNothing, CallsStay DEF Untouched
<1>5. ASSUME NEW p \in Processes, RereadForCancel(p)
      PROVE  Untouched /\ \A u : In(u, Active)' = In(u, Active)
  BY <1>5 DEF RereadForCancel, NoStoreChange, NoGraphChange, allVars, storeVars, taskVars, ledgerVars,
     In, Untouched
<1>6. ASSUME NEW p \in Processes, CancelTask(p)
      PROVE  Untouched /\ \A u : In(u, Active)' = In(u, Active)
  <2>1. Own(p) \in Tasks
    BY <1>6 DEF CancelTask, At, InPlace, Placed, Own, Ended
  <2>2. UNCHANGED <<exec, checkpoint, worktree>> /\ Transition(Own(p), process[p].from, "cancelled")
    BY <1>6 DEF CancelTask, OnTaskOnly, NoGraphChange, ledgerVars, authVars
  <2>3. Untouched
    BY <2>1, <2>2, TransitionTurns DEF Turns
  <2> QED BY <2>2, <2>3 DEF In
<1> QED BY <1>1, <1>2, <1>3, <1>4, <1>5, <1>6

LEMMA WorksStep ==
  ASSUME TaskTypeOK, HeadsKnown, AuthTables, AllInStep, GraphTables, Worktrees, InPlace, LedgerTypeOK,
         OneDriver, AllInStage, AllWork, [WorkflowNext]_workflowVars
  PROVE  AllWork'
<1> SUFFICES ASSUME NEW q \in Processes, Drives(q)' PROVE WorksOf(q)'
  BY DEF AllWork
<1>1. process'[q] = process[q] => Drives(q)
  BY DEF Drives, Live
<1>2. ASSUME process'[q] = process[q],
             \/ UNCHANGED workflowVars
             \/ \E t \in Tasks : Submit(t)
             \/ \E p \in Processes : Begin(p) \/ RereadForCancel(p) \/ CancelTask(p) \/ Fail(p)
             \/ LoginActions /\ NoGraphChange
      PROVE  WorksOf(q)'
  BY <1>1, <1>2, OthersMeanwhile, OthersTouchNothing, WorksMeanwhileStays
<1>3. CASE UNCHANGED workflowVars \/ (\E t \in Tasks : Submit(t))
             \/ (LoginActions /\ NoGraphChange /\ UNCHANGED process)
  <2>1. UNCHANGED process
    BY <1>3 DEF workflowVars, Submit
  <2> QED BY <1>2, <1>3, <2>1
<1>4. ASSUME NEW p \in Processes, Begin(p) PROVE WorksOf(q)'
  <2>1. CASE q = p
    BY <1>4, <2>1, BeginWorks, WorksAfterward DEF Begin
  <2>2. CASE q # p
    <3>1. process'[q] = process[q]
      BY <1>4, <2>2, BeginInPlace DEF Begin, Goes, Only
    <3> QED BY <1>2, <1>4, <3>1
  <2> QED BY <2>1, <2>2
<1>5. ASSUME NEW p \in Processes, Step(p) \/ Fail(p) PROVE WorksOf(q)'
  <2>1. Only(p) /\ Live(p)
    BY <1>5, StepsAreAlone
  <2>2. CASE q = p /\ Drives(p)
    <3>1. PICK t \in Tasks : t = Own(p)
      BY <2>1 DEF InPlace, Placed, Live, Own
    <3>2. InStage(process[p], task[t].state, node[t])
      BY <2>2, <3>1 DEF AllInStage
    <3>3. Works(process[p], task[t].state, task[t].head, worktree[t], In(t, Active))
      BY <2>2, <3>1 DEF AllWork, WorksOf
    <3>4. WorksAfter(p, t)
      BY <1>5, <3>1, <3>2, <3>3, StepWorks
    <3> QED BY <2>2, <3>4, WorksAfterward
  <2>3. ~Drives(p) => RereadForCancel(p) \/ CancelTask(p) \/ Fail(p)
    BY <1>5, <2>1, BystandersCancel
  <2>4. CASE q = p /\ ~Drives(p)
    <3>1. process'[p].pc \in {"cancel"} \cup Ended
      BY <2>3, <2>4, BystandersEnd
    <3> QED BY <2>4, <3>1 DEF Drives, Live
  <2>5. CASE q # p
    <3>1. process'[q] = process[q] /\ Drives(q)
      BY <1>1, <2>1, <2>5 DEF Only
    <3>2. ~Drives(p)
      BY <2>5, <3>1 DEF OneDriver
    <3> QED BY <1>2, <2>3, <3>1, <3>2
  <2> QED BY <2>2, <2>4, <2>5
<1> QED BY <1>3, <1>4, <1>5 DEF WorkflowNext

-----------------------------------------------------------------------------
(* The kinds of steps, seen from the candidates.                           *)

\* A candidate nobody is promised is made.
Unready(t) == Standing(t) \in {"contracted", "implementing", "repairing", "cancelled"}

Builds(t) ==
  /\ Unready(t) /\ AllStand
  /\ worktree'[t] \in Revisions \cup {worktree[t]}
  /\ \A u \in Tasks : u # t => worktree'[u] = worktree[u]
  /\ \A u \in Tasks : task'[u].head = task[u].head

\* Everybody is told of it.
Endorses(t) ==
  /\ Unready(t) /\ AllStand
  /\ task'[t].head = worktree[t]
  /\ \A u \in Tasks : u # t => task'[u].head = task[u].head
  /\ UNCHANGED worktree

\* A task moves on, to its package with no call left.
TurnsOn(t) ==
  \E from, to : /\ Turns(t, from, to)
                /\ <<from, to>> # <<"review_complete", "repairing">>
                /\ to = "awaiting_pr_approval" => In(t, Active)' = {}

Halts(T) ==
  /\ Stops(T)
  /\ \A u \in T : task[u].state \in {"verifying", "reviewing"} \/ In(u, Active) # {}

Kinds ==
  \/ AllStand /\ Untouched
  \/ \E t \in Tasks : Submits(t) \/ Builds(t) \/ Endorses(t) \/ TurnsOn(t) \/ Pauses(t)
  \/ \E T \in SUBSET Tasks : Halts(T)

\* Where candidates are made and told of nobody has been promised one.
LEMMA MakersAreUnready ==
  ASSUME InPlace, AuthTables, NEW p \in Processes, NEW t \in Tasks, t = Own(p), Makes(p) \/ Tells(p),
         InStage(process[p], task[t].state, node[t]),
         Works(process[p], task[t].state, task[t].head, worktree[t], In(t, Active))
  PROVE  Unready(t)
<1> SUFFICES task[t].state \in {"contracted", "implementing", "repairing", "cancelled"}
  BY DEF Unready, Standing
<1>1. CASE CreateWorkspace(p)
  BY <1>1 DEF CreateWorkspace, At, Works
<1>2. CASE RecordWorkspace(p)
  BY <1>2 DEF RecordWorkspace, SetWorkspace
<1>3. CASE Merge(p) \/ (Adopt(p) /\ process[p].todo = <<"integrate">>)
  BY <1>3 DEF Merge, Adopt, At, InStage, Still
<1>4. CASE Commit(p) \/ (Adopt(p) /\ process[p].todo # <<"integrate">>)
  <2>1. process[p].pc \in Handling \cup {"adopt"} /\ Current(p) \in Workers /\ process[p].todo # <<>>
    BY <1>4 DEF Commit, Judged, Adopt, At, Handling, InPlace, Placed, Handles, Current
  <2>2. Still(task[t].state, StageOf(Current(p)))
    BY <2>1, StageOfHead DEF InStage, Current
  <2>3. StageOf(Current(p)) \in {"implementing", "repairing"}
    BY <2>1, SubtasksAssumption DEF StageOf, Workers
  <2> QED BY <2>2, <2>3 DEF Still
<1> QED BY <1>1, <1>2, <1>3, <1>4 DEF Makes, Tells

LEMMA MakersBuild ==
  ASSUME TaskTypeOK, InPlace, AuthTables, Worktrees,
         NEW p \in Processes, NEW t \in Tasks, t = Own(p), Makes(p) \/ Tells(p),
         InStage(process[p], task[t].state, node[t]),
         Works(process[p], task[t].state, task[t].head, worktree[t], In(t, Active))
  PROVE  Builds(t) \/ Endorses(t)
<1>1. /\ AllStand /\ Unready(t)
      /\ \A u \in Tasks : u # t => worktree'[u] = worktree[u] /\ task'[u].head = task[u].head
      /\ Makes(p) => UNCHANGED task
      /\ Tells(p) => UNCHANGED worktree
  BY MakersStand, MakersAreUnready
<1>2. CASE Makes(p)
  <2>1. worktree'[t] \in Revisions \cup {worktree[t]}
    BY <1>2, WorkflowAssumption DEF Makes, CreateWorkspace, Commit, Merge, Worktrees
  <2> QED BY <1>1, <1>2, <2>1 DEF Builds
<1>3. CASE Tells(p)
  <2>1. task \in [Tasks -> TaskRow] /\ task[t] \in TaskRow
    BY DEF TaskTypeOK
  <2>2. task'[t].head = worktree[t]
    <3>1. CASE RecordWorkspace(p)
      <4>1. worktree[t] = BaseRevision
        BY <3>1 DEF RecordWorkspace, At, Works
      <4>2. task' = [task EXCEPT ![t] = [[task[t] EXCEPT !.workspace = TRUE] EXCEPT !.head = BaseRevision]]
        BY <2>1, <3>1 DEF RecordWorkspace, SetWorkspace, TaskRow
      <4> QED BY <2>1, <4>1, <4>2 DEF TaskRow
    <3>2. CASE Adopt(p)
      <4>1. process[p].head = worktree[t] /\ task' = [task EXCEPT ![t].head = process[p].head]
        BY <3>2 DEF Adopt, At, Works, SetHead
      <4> QED BY <2>1, <4>1 DEF TaskRow
    <3> QED BY <1>3, <3>1, <3>2 DEF Tells
  <2> QED BY <1>1, <1>3, <2>2 DEF Endorses
<1> QED BY <1>2, <1>3

LEMMA MoversTurn ==
  ASSUME TaskTypeOK, AuthTables, AllInStep, InPlace,
         NEW p \in Processes, NEW t \in Tasks, t = Own(p), MovesTask(p),
         Drives(p) => Works(process[p], task[t].state, task[t].head, worktree[t], In(t, Active))
  PROVE  Kinds
<1>1. \/ \E from, to : /\ Turns(t, from, to)
                       /\ \/ to \in {"workspace_ready", "cancelled", "blocked"}
                          \/ /\ Advance(p) /\ from = process[p].from
                             /\ to = IF process[p].verdict = "rejected" THEN "repairing"
                                                                        ELSE Onwards[from]
      \/ CountRejection(p) /\ Stops({t}) /\ task[t].state \in {"verifying", "reviewing"}
      \/ \E T \in SUBSET Tasks : ReconcileFound(p) /\ Stops(T) /\ \A u \in T : In(u, Active) # {}
      \/ (Unpark(p) \/ Checkpoint(p)) /\ Pauses(t)
      \/ AllStand /\ Untouched
  BY MoversChange
<1>2. ASSUME NEW from, NEW to, Turns(t, from, to), to \in {"workspace_ready", "cancelled", "blocked"}
      PROVE  Kinds
  BY <1>2 DEF Kinds, TurnsOn
<1>3. ASSUME NEW from, NEW to, Turns(t, from, to), Advance(p), from = process[p].from,
             to = IF process[p].verdict = "rejected" THEN "repairing" ELSE Onwards[from]
      PROVE  Kinds
  <2>1. process[p].pc = "advance" /\ Drives(p)
    BY <1>3 DEF Advance, At, Drives, Live, Ended
  <2>2. In(t, Active) = {}
    BY <2>1 DEF Works, Going
  <2>3. In(t, Active)' = {}
    BY <1>3, <2>2 DEF Advance, OnTaskOnly, ledgerVars, In
  <2>4. process[p].verdict = "rejected" => from # "review_complete"
    BY <1>3, <2>1 DEF Works
  <2>5. from = "review_complete" => to = "packaging"
    BY <1>3, <2>4 DEF Onwards
  <2> QED BY <1>3, <2>3, <2>5 DEF Kinds, TurnsOn
<1>4. CASE CountRejection(p) /\ Stops({t}) /\ task[t].state \in {"verifying", "reviewing"}
  BY <1>4 DEF Kinds, Halts
<1>5. ASSUME NEW T \in SUBSET Tasks, Stops(T), \A u \in T : In(u, Active) # {} PROVE Kinds
  BY <1>5 DEF Kinds, Halts
<1>6. CASE Pauses(t) \/ (AllStand /\ Untouched)
  BY <1>6 DEF Kinds
<1> QED BY <1>1, <1>2, <1>3, <1>4, <1>5, <1>6

LEMMA StepIsOfKind ==
  ASSUME TaskTypeOK, AuthTables, AllInStep, Worktrees, InPlace, AllInStage, AllWork,
         [WorkflowNext]_workflowVars
  PROVE  Kinds
<1>1. CASE UNCHANGED workflowVars
  BY <1>1 DEF workflowVars, allVars, storeVars, taskVars, authVars, Kinds, AllStand, Stands, Untouched
<1>2. CASE \E t \in Tasks : Submit(t)
  BY <1>2, SubmitSubmits DEF Kinds
<1>3. CASE LoginActions /\ NoGraphChange
  BY <1>3, LoginsStand DEF Kinds, NoGraphChange
<1>4. ASSUME UNCHANGED <<task, checkpoint, worktree>> PROVE Kinds
  BY <1>4 DEF Kinds, AllStand, Stands, Untouched
<1>5. ASSUME NEW p \in Processes, Begin(p) \/ Step(p) \/ Fail(p) PROVE Kinds
  <2>1. CASE Begin(p) \/ Fail(p) \/ (Step(p) /\ ~Makes(p) /\ ~Tells(p) /\ ~MovesTask(p))
    BY <1>4, <2>1, MostStepsTouchNothing
  <2>2. CASE Makes(p) \/ Tells(p)
    <3>1. process[p].pc \in {"workspace", "judge", "merge", "record", "adopt"}
      BY <2>2 DEF Makes, Tells, CreateWorkspace, Commit, Judged, Merge, RecordWorkspace, Adopt, At
    <3>2. Drives(p)
      BY <3>1 DEF Drives, Live, Ended
    <3>3. PICK t \in Tasks : t = Own(p)
      BY <3>1 DEF InPlace, Placed, Own, Ended
    <3>4. InStage(process[p], task[t].state, node[t])
      BY <3>2, <3>3 DEF AllInStage
    <3>5. Works(process[p], task[t].state, task[t].head, worktree[t], In(t, Active))
      BY <3>2, <3>3 DEF AllWork, WorksOf
    <3> QED BY <2>2, <3>3, <3>4, <3>5, MakersBuild DEF Kinds
  <2>3. CASE MovesTask(p)
    <3>1. PICK t \in Tasks : t = Own(p)
      BY <2>3 DEF MovesTask, OpenWorkspace, ReconcileFound, Unpark, CancelTask, Advance, Block,
         Checkpoint, CountRejection, At, InPlace, Placed, Own, Ended
    <3>2. Drives(p) => Works(process[p], task[t].state, task[t].head, worktree[t], In(t, Active))
      BY <3>1 DEF AllWork, WorksOf
    <3> QED BY <2>3, <3>1, <3>2, MoversTurn
  <2> QED BY <1>5, <2>1, <2>2, <2>3
<1> QED BY <1>1, <1>2, <1>3, <1>5 DEF WorkflowNext

-----------------------------------------------------------------------------
(* What is known of the candidates themselves.                             *)

\* A verified candidate is the one everybody is told of.
Checked ==
  \A t \in Tasks :
    task[t].state = "verifying" /\ Done(node[t], "verify") => worktree[t] = task[t].head

\* A task blocked in its review stays where it is.
HeldLast ==
  \A t \in Tasks : task[t].moved = <<"reviewing", "blocked">> => task[t].state = "blocked"

\* A task that is packaged has no call out: a restart does not block it.
PackagedIdle ==
  \A t \in Tasks : task[t].state = "awaiting_pr_approval" => In(t, Active) = {}

LEMMA HeldLastStep ==
  ASSUME HeldLast, Kinds
  PROVE  HeldLast'
<1> SUFFICES ASSUME NEW u \in Tasks, task'[u].moved = <<"reviewing", "blocked">>
             PROVE  task'[u].state = "blocked"
  BY DEF HeldLast
<1>1. task[u].moved = <<"reviewing", "blocked">> => task[u].state = "blocked"
  BY DEF HeldLast
<1>2. Stands(u) => task'[u].state = "blocked"
  BY <1>1 DEF Stands
<1>3. AllStand => task'[u].state = "blocked"
  BY <1>2 DEF AllStand
<1>4. ASSUME NEW t \in Tasks, Submits(t) PROVE task'[u].state = "blocked"
  <2>1. u # t
    <3>1. <<"received", "contracted">> # <<"reviewing", "blocked">>
      OBVIOUS
    <3> QED BY <1>4, <3>1 DEF Submits
  <2> QED BY <1>2, <1>4, <2>1 DEF Submits
<1>5. ASSUME NEW t \in Tasks, TurnsOn(t) PROVE task'[u].state = "blocked"
  BY <1>2, <1>5 DEF TurnsOn, Turns
<1>6. ASSUME NEW t \in Tasks, Pauses(t) PROVE task'[u].state = "blocked"
  <2>1. u # t
    BY <1>1, <1>6 DEF Pauses, Stages
  <2> QED BY <1>2, <1>6, <2>1 DEF Pauses
<1>7. ASSUME NEW T \in SUBSET Tasks, Halts(T) PROVE task'[u].state = "blocked"
  BY <1>2, <1>7 DEF Halts, Stops
<1> QED BY <1>3, <1>4, <1>5, <1>6, <1>7 DEF Kinds, Builds, Endorses

\* No call is reserved for a packaged task.
LEMMA PackagedReservesNone ==
  ASSUME InPlace, LedgerTypeOK, NEW t \in Tasks, task[t].state = "awaiting_pr_approval",
         In(t, Active) = {}, [WorkflowNext]_workflowVars
  PROVE  In(t, Active)' = {}
<1>1. CASE \/ UNCHANGED exec
           \/ \E p \in Processes : Begin(p) \/ Fail(p) \/ StartCall(p)
                                    \/ (Step(p) /\ ~Engine(p) /\ ~ReconcileFound(p))
           \/ \E u \in Tasks : Submit(u)
           \/ LoginActions
  <2>1. \A u : In(u, Active)' = In(u, Active)
    BY <1>1, CallsStay
  <2> QED BY <2>1
<1>2. ASSUME NEW p \in Processes,
             Reserve(p) \/ CallRaises(p) \/ (\E report \in Reports : CallReturns(p, report))
      PROVE  In(t, Active)' = {}
  <2>1. process[p].pc \in {"reserve", "call"}
    BY <1>2 DEF Reserve, CallRaises, CallReturns, At
  <2>2. PICK v \in Tasks : v = Own(p)
    BY <2>1 DEF InPlace, Placed, Own, Ended
  <2>3. \/ /\ task[v].state \in {"implementing", "repairing", "verifying", "reviewing"}
           /\ \A u : u # v => In(u, Active)' = In(u, Active)
        \/ \A u : In(u, Active)' = In(u, Active) \ {Call(p)}
    BY <1>2, <2>2, CallsChange
  <2>4. CASE /\ task[v].state \in {"implementing", "repairing", "verifying", "reviewing"}
             /\ \A u : u # v => In(u, Active)' = In(u, Active)
    BY <2>4
  <2>5. CASE \A u : In(u, Active)' = In(u, Active) \ {Call(p)}
    <3>1. In(t, Active)' = In(t, Active) \ {Call(p)}
      BY <2>5
    <3> QED BY <3>1
  <2> QED BY <2>3, <2>4, <2>5
<1>3. ASSUME NEW p \in Processes, ReconcileFound(p) PROVE In(t, Active)' = {}
  <2>1. CASE ReconcileActive
    <3>1. ASSUME NEW e \in Executions PROVE ~(exec'[e].task = t /\ exec'[e].status \in Active)
      <4>1. CASE e \in LostCalls
        <5>1. exec'[e] = [exec[e] EXCEPT !.status = "reconciliation_required"]
          BY <2>1, <4>1 DEF ReconcileActive
        <5>2. exec[e] \in ExecRow
          BY <4>1, UsedRow DEF LostCalls, Active
        <5> QED BY <5>1, <5>2 DEF ExecRow, Active
      <4>2. CASE e \notin LostCalls
        <5>1. exec'[e] = exec[e]
          BY <2>1, <4>2 DEF ReconcileActive
        <5> QED BY <4>2, <5>1 DEF LostCalls
      <4> QED BY <4>1, <4>2
    <3> QED BY <3>1 DEF In
  <2>2. CASE UNCHANGED storeVars
    BY <2>2 DEF storeVars, ledgerVars, In
  <2> QED BY <1>3, <2>1, <2>2 DEF ReconcileFound
<1>4. CASE UNCHANGED workflowVars
  BY <1>1, <1>4 DEF workflowVars, allVars, storeVars, ledgerVars
<1> QED BY <1>1, <1>2, <1>3, <1>4 DEF WorkflowNext, Engine

LEMMA PackagedIdleStep ==
  ASSUME InPlace, LedgerTypeOK, PackagedIdle, Kinds, [WorkflowNext]_workflowVars
  PROVE  PackagedIdle'
<1> SUFFICES ASSUME NEW u \in Tasks, task'[u].state = "awaiting_pr_approval"
             PROVE  In(u, Active)' = {}
  BY DEF PackagedIdle, In
<1>1. task[u].state = "awaiting_pr_approval" => In(u, Active)' = {}
  BY PackagedReservesNone DEF PackagedIdle
<1>2. Stands(u) => In(u, Active)' = {}
  BY <1>1 DEF Stands
<1>3. AllStand => In(u, Active)' = {}
  BY <1>2 DEF AllStand
<1>4. ASSUME NEW t \in Tasks, Submits(t) \/ Pauses(t) PROVE In(u, Active)' = {}
  <2>1. u # t
    BY <1>4 DEF Submits, Pauses, Stages
  <2> QED BY <1>2, <1>4, <2>1 DEF Submits, Pauses
<1>5. ASSUME NEW t \in Tasks, TurnsOn(t) PROVE In(u, Active)' = {}
  <2>1. PICK from, to : Turns(t, from, to) /\ (to = "awaiting_pr_approval" => In(t, Active)' = {})
    BY <1>5 DEF TurnsOn
  <2>2. u = t => to = "awaiting_pr_approval"
    BY <2>1 DEF Turns
  <2> QED BY <1>2, <2>1, <2>2 DEF Turns
<1>6. ASSUME NEW T \in SUBSET Tasks, Halts(T) PROVE In(u, Active)' = {}
  BY <1>2, <1>6 DEF Halts, Stops
<1> QED BY <1>3, <1>4, <1>5, <1>6 DEF Kinds, Builds, Endorses

\* A verification succeeds for the revision its task is told to have.
LEMMA VerifyIsEarned ==
  ASSUME InPlace, LedgerTypeOK, GraphTables, AllInStage, AllWork, NEW t \in Tasks,
         [WorkflowNext]_workflowVars, ~Done(node[t], "verify"), Done(node'[t], "verify")
  PROVE  task'[t] = task[t] /\ worktree'[t] = task'[t].head
<1>1. ~UNCHANGED node
  BY DEF Done
<1>2. PICK p \in Processes : MovesNode(p)
  <2>1. ~UNCHANGED workflowVars /\ ~(\E u \in Tasks : Submit(u)) /\ ~(LoginActions /\ NoGraphChange)
    BY <1>1 DEF workflowVars, graphVars, Submit, OnTaskOnly, NoGraphChange
  <2> QED BY <1>1, <2>1, OthersMoveNone DEF WorkflowNext
<1>3. Drives(p) /\ process[p] \in ProcessRow
  BY <1>2, MoversDrive DEF InPlace
<1>4. PICK u \in Tasks : u = Own(p)
  BY <1>3 DEF InPlace, Placed, Own, Drives, Live
<1>5. "verify" \in Nodes
  BY KnownNodes
<1>6. ASSUME NEW n \in Nodes, NEW target \in NodeStatuses, NEW e \in Executions \cup {NoExec},
             MoveNode(u, n, target, e)
      PROVE  u = t /\ n = "verify" /\ target = "succeeded"
  <2>1. /\ \A w \in Tasks : w # u => node'[w] = node[w]
        /\ \A m \in Nodes : m # n => node'[u][m] = node[u][m]
        /\ node'[u][n].status = target
    BY <1>6, NodeIsMoved
  <2>2. u = t
    BY <2>1 DEF Done
  <2>3. n = "verify"
    BY <1>5, <2>1, <2>2 DEF Done
  <2> QED BY <2>1, <2>2, <2>3 DEF Done
<1>7. {"pending", "running", "failed", "authentication_required", "cancelled", "succeeded"}
        \subseteq NodeStatuses /\ Call(p) \in Executions \cup {NoExec}
  BY <1>3 DEF NodeStatuses, ProcessRow, Call
<1>8. InStage(process[p], task[u].state, node[u])
  BY <1>3, <1>4 DEF AllInStage
<1>9. process[p].pc \in Handling => Current(p) \in Nodes
  BY DEF InPlace, Placed, Handles, Current
<1>10. ~(\/ ResetNode(p) \/ RunNode(p) \/ FailAssignment(p) \/ ParkNode(p) \/ CallOff(p) \/ GiveUp(p))
  <2> SUFFICES ASSUME \/ ResetNode(p) \/ RunNode(p) \/ FailAssignment(p) \/ ParkNode(p) \/ CallOff(p)
                      \/ GiveUp(p)
               PROVE  FALSE
    OBVIOUS
  <2>1. process[p].pc \in Handling
    BY DEF ResetNode, RunNode, FailAssignment, ParkNode, CallOff, GiveUp, Judged, At, Handling
  <2>2. \E target \in {"pending", "running", "failed", "authentication_required", "cancelled"},
           e \in Executions \cup {NoExec} : MoveNode(u, Current(p), target, e)
    BY <1>4, <1>7 DEF ResetNode, RunNode, FailAssignment, ParkNode, CallOff, GiveUp
  <2> QED BY <1>6, <1>7, <1>9, <2>1, <2>2
<1>11. ~RestoreNode(p)
  <2> SUFFICES ASSUME RestoreNode(p) PROVE FALSE
    OBVIOUS
  <2>1. process[p].todo # <<>> /\ process[p].todo \in Seq(Nodes)
    BY <1>3 DEF RestoreNode, At, InPlace, Placed, ProcessRow
  <2>2. Current(p) \in Nodes /\ MoveNode(u, Current(p), "pending", NoExec)
    BY <1>4, <2>1 DEF RestoreNode, Current
  <2> QED BY <1>6, <1>7, <2>2
<1>12. ~Succeed(p)
  <2> SUFFICES ASSUME Succeed(p) PROVE FALSE
    OBVIOUS
  <2>1. Current(p) \in Workers /\ Current(p) \in Nodes
    BY <1>9 DEF Succeed, At, InPlace, Placed, Current, Handling
  <2>2. Current(p) # "verify"
    BY <2>1, SubtasksAssumption DEF Workers
  <2>3. MoveNode(u, Current(p), "succeeded", Call(p))
    BY <1>4 DEF Succeed
  <2> QED BY <1>6, <1>7, <2>1, <2>2, <2>3
<1>13. ~Requalify(p)
  <2> SUFFICES ASSUME Requalify(p) PROVE FALSE
    OBVIOUS
  <2>1. Current(p) \in {"verify", "review"} /\ {"verify", "review"} \subseteq Nodes
    BY KnownNodes DEF Requalify, At, InPlace, Placed, Current
  <2>2. MoveNode(u, Current(p), "pending", NoExec)
    BY <1>1, <1>4 DEF Requalify
  <2> QED BY <1>6, <1>7, <2>1, <2>2
<1>14. ~(RunIntegration(p) \/ RefuseMerge(p) \/ Integrated(p))
  <2> SUFFICES ASSUME RunIntegration(p) \/ RefuseMerge(p) \/ Integrated(p) PROVE FALSE
    OBVIOUS
  <2>1. "integrate" \in Nodes
    BY KnownNodes DEF RunIntegration, RefuseMerge, Integrated, At, InPlace, Placed
  <2>2. \E target \in NodeStatuses : MoveNode(u, "integrate", target, NoExec)
    BY <1>4, <1>7 DEF RunIntegration, RefuseMerge, Integrated
  <2> QED BY <1>6, <2>1, <2>2
<1>15. CASE SettleNode(p)
  <2>1. process[p].pc = "verdict" /\ Current(p) \in Nodes
    BY <1>9, <1>15 DEF SettleNode, At, Handling
  <2>2. MoveNode(u, Current(p), IF process[p].verdict = "passed" THEN "succeeded" ELSE "failed", Call(p))
    BY <1>4, <1>15 DEF SettleNode
  <2>3. u = t /\ Current(p) = "verify" /\ process[p].verdict = "passed"
    BY <1>6, <1>7, <2>1, <2>2
  <2>4. WorksOf(p)
    BY <1>3 DEF AllWork
  <2>5. worktree[t] = task[t].head
    BY <1>4, <2>1, <2>3, <2>4 DEF WorksOf, Works, Current
  <2>6. task'[t] = task[t] /\ worktree'[t] = worktree[t]
    BY <1>15, PassesBy DEF Passes
  <2> QED BY <2>5, <2>6
<1> QED BY <1>2, <1>10, <1>11, <1>12, <1>13, <1>14, <1>15 DEF MovesNode

LEMMA CheckedStep ==
  ASSUME InPlace, LedgerTypeOK, GraphTables, AllInStage, AllWork, AllFit, Checked, Kinds,
         [WorkflowNext]_workflowVars
  PROVE  Checked'
<1> SUFFICES ASSUME NEW u \in Tasks, task'[u].state = "verifying", Done(node'[u], "verify")
             PROVE  worktree'[u] = task'[u].head
  BY DEF Checked, Done
<1>1. ~Done(node[u], "verify") => worktree'[u] = task'[u].head
  BY VerifyIsEarned
<1>2. CASE Done(node[u], "verify")
  <2>1. task[u].state = "verifying" => worktree[u] = task[u].head
    BY <1>2 DEF Checked
  <2>2. Stands(u) => task[u].state = "verifying"
    BY DEF Stands
  <2>3. Untouched /\ Stands(u) => worktree'[u] = task'[u].head
    BY <2>1, <2>2 DEF Untouched
  <2>4. CASE AllStand /\ Untouched
    BY <2>3, <2>4 DEF AllStand
  <2>5. ASSUME NEW t \in Tasks, Submits(t) \/ Pauses(t) PROVE worktree'[u] = task'[u].head
    <3>1. u # t
      BY <2>5 DEF Submits, Pauses, Stages
    <3> QED BY <2>3, <2>5, <3>1 DEF Submits, Pauses
  <2>6. ASSUME NEW t \in Tasks, Builds(t) \/ Endorses(t) PROVE worktree'[u] = task'[u].head
    <3>1. AllStand /\ Unready(t)
      BY <2>6 DEF Builds, Endorses
    <3>2. task[u].state = "verifying" /\ u # t
      BY <2>2, <3>1 DEF AllStand, Unready, Standing
    <3> QED BY <2>1, <2>6, <3>2 DEF Builds, Endorses
  <2>7. ASSUME NEW t \in Tasks, TurnsOn(t) PROVE worktree'[u] = task'[u].head
    <3>1. PICK from, to : Turns(t, from, to)
      BY <2>7 DEF TurnsOn
    <3>2. u # t
      <4> SUFFICES ASSUME u = t PROVE FALSE
        OBVIOUS
      <4>1. to = "verifying"
        BY <3>1 DEF Turns
      <4>2. task[u].state = "implemented"
        BY <3>1, <4>1 DEF Turns, Transitions, Onward, Working
      <4>3. Fits(node[u], "implemented")
        BY <4>2 DEF AllFit, Standing
      <4> QED BY <1>2, <4>3 DEF Fits
    <3> QED BY <2>3, <3>1, <3>2 DEF Turns
  <2>8. ASSUME NEW T \in SUBSET Tasks, Halts(T) PROVE worktree'[u] = task'[u].head
    BY <2>3, <2>8 DEF Halts, Stops
  <2> QED BY <2>4, <2>5, <2>6, <2>7, <2>8 DEF Kinds
<1> QED BY <1>1, <1>2

-----------------------------------------------------------------------------
(* The workflow implements CandidatePipeline, step by step.                *)

\* What a step that leaves all candidates alone does to the pipeline.
Advances(t, from, to) ==
  /\ PipelineStage(t) = from /\ PipelineStage(t)' = to
  /\ \A u \in Tasks : u # t => PipelineStage(u)' = PipelineStage(u)

LEMMA UntouchedCandidates ==
  Untouched => UNCHANGED <<worktree, [t \in Tasks |-> task[t].head]>>
BY DEF Untouched

LEMMA PipelineMoves ==
  ASSUME NEW t \in Tasks, NEW from, NEW to, NEW S, from \in S, Advances(t, from, to), Untouched
  PROVE  Pipeline!Move(t, S, to)
<1>1. [u \in Tasks |-> PipelineStage(u)][t] \in S
  BY DEF Advances
<1>2. [u \in Tasks |-> PipelineStage(u)]' = [[u \in Tasks |-> PipelineStage(u)] EXCEPT ![t] = to]
  BY DEF Advances
<1> QED BY <1>1, <1>2, UntouchedCandidates DEF Pipeline!Move

LEMMA PipelineStands ==
  ASSUME \A u \in Tasks : PipelineStage(u)' = PipelineStage(u)
  PROVE  UNCHANGED [u \in Tasks |-> PipelineStage(u)]
OBVIOUS

LEMMA PipelineRests ==
  ASSUME \A u \in Tasks : PipelineStage(u)' = PipelineStage(u), Untouched
  PROVE  UNCHANGED Pipeline!vars
BY PipelineStands, UntouchedCandidates DEF Pipeline!vars

LEMMA StandingStage ==
  ASSUME AuthTables, AuthTables', NEW u \in Tasks, Stands(u)
  PROVE  PipelineStage(u)' = PipelineStage(u)
BY PlaceKept DEF Stands, Standing

\* A commit, an integration and a new worktree build the candidate.
LEMMA BuildsBuild ==
  ASSUME AuthTables, AuthTables', Worktrees, Worktrees', NEW t \in Tasks, Builds(t)
  PROVE  [Pipeline!Next]_(Pipeline!vars)
<1>1. UNCHANGED [u \in Tasks |-> PipelineStage(u)]
  BY StandingStage, PipelineStands DEF Builds, AllStand
<1>2. PipelineStage(t) \in {"building", "stopped"}
  BY PlaceOf DEF Builds, Unready, Place
<1>3. UNCHANGED [u \in Tasks |-> task[u].head]
  BY DEF Builds
<1>4. worktree' = [worktree EXCEPT ![t] = worktree'[t]]
  BY DEF Builds, Worktrees
<1>5. CASE worktree'[t] \in Revisions
  <2>1. Pipeline!Build(t, worktree'[t])
    BY <1>1, <1>2, <1>3, <1>4 DEF Pipeline!Build, Pipeline!Unpromised
  <2> QED BY <1>5, <2>1 DEF Pipeline!Next
<1>6. CASE worktree'[t] = worktree[t]
  BY <1>1, <1>3, <1>4, <1>6 DEF Pipeline!vars, Worktrees
<1> QED BY <1>5, <1>6 DEF Builds

\* set_workspace and set_head endorse it.
LEMMA EndorsesEndorse ==
  ASSUME AuthTables, AuthTables', NEW t \in Tasks, Endorses(t)
  PROVE  Pipeline!Endorse(t)
<1>1. UNCHANGED [u \in Tasks |-> PipelineStage(u)]
  BY StandingStage, PipelineStands DEF Endorses, AllStand
<1>2. PipelineStage(t) \in {"building", "stopped"}
  BY PlaceOf DEF Endorses, Unready, Place
<1>3. [u \in Tasks |-> task[u].head]' = [[u \in Tasks |-> task[u].head] EXCEPT ![t] = worktree[t]]
  BY DEF Endorses
<1> QED BY <1>1, <1>2, <1>3 DEF Endorses, Pipeline!Endorse, Pipeline!Unpromised

\* A verified task has its worktree at its head.
LEMMA VerifiedAtHead ==
  ASSUME InPlace, LedgerTypeOK, GraphTables, AllInStage, AllWork, AllFit', Checked, HeadsKnown,
         NEW t \in Tasks, Turns(t, "verifying", "verified"), [WorkflowNext]_workflowVars
  PROVE  worktree[t] = task[t].head /\ worktree[t] # NoRevision
<1>1. task[t].state = "verifying" /\ task'[t].state = "verified"
      /\ worktree' = worktree /\ task'[t].head = task[t].head
  BY DEF Turns, Untouched
<1>2. Done(node'[t], "verify")
  <2>1. Fits(node'[t], Standing(t)') /\ Standing(t)' = "verified"
    BY <1>1 DEF AllFit, Standing
  <2> QED BY <2>1 DEF Fits
<1>3. worktree[t] = task[t].head
  <2>1. Done(node[t], "verify") => worktree[t] = task[t].head
    BY <1>1 DEF Checked
  <2>2. ~Done(node[t], "verify") => worktree'[t] = task'[t].head
    BY <1>2, VerifyIsEarned
  <2> QED BY <1>1, <2>1, <2>2
<1>4. task[t].head \in Revisions
  BY <1>1 DEF HeadsKnown, Headed, Working
<1> QED BY <1>3, <1>4, NoRevisionAssumption

\* A row of the transition table is a step of the pipeline, or none.
LEMMA TurnsMove ==
  ASSUME AuthTables, AuthTables', NEW t \in Tasks, NEW from, NEW to, Turns(t, from, to),
         <<from, to>> # <<"review_complete", "repairing">>,
         <<from, to>> = <<"verifying", "verified">>
           => worktree[t] = task[t].head /\ worktree[t] # NoRevision
  PROVE  [Pipeline!Next]_(Pipeline!vars)
<1>1. /\ Untouched /\ task[t].state = from /\ task'[t].state = to /\ task'[t].moved = <<from, to>>
      /\ <<from, to>> \in Transitions
  BY DEF Turns
<1>2. \A u \in Tasks : u # t => PipelineStage(u)' = PipelineStage(u)
  BY StandingStage DEF Turns
<1>3. PipelineStage(t)' = Place(to, <<from, to>>)
  <2>1. to # "authentication_required"
    BY <1>1 DEF Transitions, Onward
  <2> QED BY <1>1, <2>1 DEF PipelineStage, Place, BlockedByReview
<1>4. from # "authentication_required" => PipelineStage(t) = Place(from, task[t].moved)
  BY <1>1, PlaceOf DEF Standing
<1>5. from = "authentication_required" => PipelineStage(t) \in {"building", "checked"}
  <2>1. checkpoint[t].stage \in {"implementing", "repairing", "reviewing", "none"}
    BY DEF AuthTables, CheckpointRow, Stages
  <2> QED BY <1>1, <2>1, PlaceOf DEF Standing, Place
<1>6. ASSUME PipelineStage(t)' = PipelineStage(t) PROVE [Pipeline!Next]_(Pipeline!vars)
  BY <1>1, <1>2, <1>6, PipelineRests
<1>7. ASSUME NEW here, NEW there, PipelineStage(t) = here, PipelineStage(t)' = there
      PROVE  Advances(t, here, there)
  BY <1>2, <1>7 DEF Advances
<1>8. CASE <<from, to>> \in {<<"implementing", "implemented">>, <<"repairing", "implemented">>}
  <2>1. Advances(t, "building", "built")
    BY <1>3, <1>4, <1>7, <1>8 DEF Place
  <2>2. Pipeline!Finish(t)
    BY <1>1, <2>1, PipelineMoves DEF Pipeline!Finish
  <2> QED BY <2>2 DEF Pipeline!Next
<1>9. CASE <<from, to>> = <<"verifying", "verified">>
  <2>1. Advances(t, "built", "checked")
    BY <1>3, <1>4, <1>7, <1>9 DEF Place
  <2>2. Pipeline!Check(t)
    BY <1>1, <1>9, <2>1, PipelineMoves DEF Pipeline!Check
  <2> QED BY <2>2 DEF Pipeline!Next
<1>10. CASE <<from, to>> \in {<<"verifying", "repairing">>, <<"reviewing", "repairing">>}
  <2>1. Advances(t, "built", "building") \/ Advances(t, "checked", "building")
    BY <1>3, <1>4, <1>7, <1>10 DEF Place
  <2>2. Pipeline!Rework(t)
    BY <1>1, <2>1, PipelineMoves DEF Pipeline!Rework
  <2> QED BY <2>2 DEF Pipeline!Next
<1>11. CASE <<from, to>> = <<"reviewing", "review_complete">>
  <2>1. Advances(t, "checked", "reviewed")
    BY <1>3, <1>4, <1>7, <1>11 DEF Place
  <2>2. Pipeline!Review(t)
    BY <1>1, <2>1, PipelineMoves DEF Pipeline!Review
  <2> QED BY <2>2 DEF Pipeline!Next
<1>12. CASE <<from, to>> = <<"packaging", "awaiting_pr_approval">>
  <2>1. Advances(t, "reviewed", "packaged")
    BY <1>3, <1>4, <1>7, <1>12 DEF Place
  <2>2. Pipeline!Package(t)
    BY <1>1, <2>1, PipelineMoves DEF Pipeline!Package
  <2> QED BY <2>2 DEF Pipeline!Next
<1>13. CASE <<from, to>> = <<"reviewing", "blocked">>
  <2>1. Advances(t, "checked", "held")
    BY <1>3, <1>4, <1>7, <1>13 DEF Place
  <2>2. Pipeline!Hold(t)
    BY <1>1, <2>1, PipelineMoves DEF Pipeline!Hold
  <2> QED BY <2>2 DEF Pipeline!Next
<1>14. CASE /\ to \in {"blocked", "cancelled"} /\ <<from, to>> # <<"reviewing", "blocked">>
            /\ from \in Working \cup {"authentication_required"}
  <2>1. PipelineStage(t)' = "stopped" /\ PipelineStage(t) # "packaged"
    <3>1. Place(to, <<from, to>>) = "stopped"
      BY <1>14 DEF Place
    <3>2. from # "authentication_required" => Place(from, task[t].moved) # "packaged"
      BY <1>14 DEF Place, Working
    <3> QED BY <1>3, <1>4, <1>5, <3>1, <3>2
  <2>2. [u \in Tasks |-> PipelineStage(u)]'
          = [u \in Tasks |-> IF u \in {t} THEN "stopped" ELSE [v \in Tasks |-> PipelineStage(v)][u]]
    BY <1>2, <2>1
  <2>3. Pipeline!Stop({t})
    BY <1>1, <2>1, <2>2, UntouchedCandidates DEF Pipeline!Stop
  <2> QED BY <2>3 DEF Pipeline!Next
<1>15. CASE <<from, to>> \in {<<"received", "contracted">>, <<"contracted", "workspace_ready">>,
                              <<"workspace_ready", "implementing">>, <<"implemented", "verifying">>,
                              <<"verified", "reviewing">>, <<"review_complete", "packaging">>}
  <2>1. PipelineStage(t)' = PipelineStage(t)
    BY <1>3, <1>4, <1>15 DEF Place
  <2> QED BY <1>6, <2>1
<1>16. \/ <<from, to>> \in Onward
       \/ to \in {"blocked", "cancelled"} /\ from \in Working \cup {"authentication_required"}
  BY <1>1 DEF Transitions
<1> QED BY <1>8, <1>9, <1>10, <1>11, <1>12, <1>13, <1>14, <1>15, <1>16 DEF Onward

\* A restart, or a rejection that cannot be repaired, stops whom it blocks,
\* but for those whose review was held back before.
LEMMA HaltsStop ==
  ASSUME AuthTables, AuthTables', HeldLast, PackagedIdle, NEW T \in SUBSET Tasks, Halts(T)
  PROVE  Pipeline!Next
<1> DEFINE S == {u \in T : PipelineStage(u) # "held"}
<1>1. Untouched
  BY DEF Halts, Stops
<1>2. ASSUME NEW u \in Tasks, u \notin T PROVE PipelineStage(u)' = PipelineStage(u)
  BY <1>2, StandingStage DEF Halts, Stops
<1>3. ASSUME NEW u \in T
      PROVE  PipelineStage(u)' = IF PipelineStage(u) = "held" THEN "held" ELSE "stopped"
  <2>1. task'[u].state = "blocked" /\ task'[u].moved = task[u].moved
    BY DEF Halts, Stops
  <2>2. PipelineStage(u)' = IF task[u].moved = <<"reviewing", "blocked">> THEN "held" ELSE "stopped"
    BY <2>1 DEF PipelineStage, BlockedByReview
  <2>3. task[u].moved = <<"reviewing", "blocked">> <=> PipelineStage(u) = "held"
    <3>1. task[u].moved = <<"reviewing", "blocked">> => task[u].state = "blocked"
      BY DEF HeldLast
    <3>2. PipelineStage(u) = Place(Standing(u), task[u].moved)
      BY PlaceOf
    <3>3. task[u].state = "blocked" => Standing(u) = "blocked"
      BY DEF Standing
    <3> QED BY <3>1, <3>2, <3>3 DEF Place
  <2> QED BY <2>2, <2>3
<1>4. ASSUME NEW u \in T PROVE PipelineStage(u) # "packaged"
  <2>1. task[u].state # "awaiting_pr_approval"
    BY DEF Halts, PackagedIdle
  <2>2. checkpoint[u].stage # "awaiting_pr_approval"
    BY DEF AuthTables, CheckpointRow, Stages
  <2>3. Standing(u) # "awaiting_pr_approval" /\ PipelineStage(u) = Place(Standing(u), task[u].moved)
    BY <2>1, <2>2, PlaceOf DEF Standing
  <2> QED BY <2>3 DEF Place
<1>5. \A u \in Tasks : PipelineStage(u)' = IF u \in S THEN "stopped" ELSE PipelineStage(u)
  BY <1>2, <1>3
<1>6. S \in SUBSET Tasks /\ \A u \in S : PipelineStage(u) # "packaged"
  BY <1>4
<1> HIDE DEF S
<1>7. Pipeline!Stop(S)
  <2>1. [u \in Tasks |-> PipelineStage(u)]'
          = [u \in Tasks |-> IF u \in S THEN "stopped" ELSE [v \in Tasks |-> PipelineStage(v)][u]]
    BY <1>5
  <2>2. \A u \in S : [v \in Tasks |-> PipelineStage(v)][u] # "packaged"
    BY <1>6
  <2> QED BY <1>1, <2>1, <2>2, UntouchedCandidates DEF Pipeline!Stop
<1> QED BY <1>6, <1>7 DEF Pipeline!Next

LEMMA PipelineStep ==
  ASSUME AuthTables, AuthTables', Worktrees, Worktrees', InPlace, LedgerTypeOK, GraphTables,
         HeadsKnown, AllInStage, AllWork, AllFit', Checked, HeldLast, PackagedIdle, Kinds,
         [WorkflowNext]_workflowVars
  PROVE  [Pipeline!Next]_(Pipeline!vars)
<1>1. CASE AllStand /\ Untouched
  <2>1. \A u \in Tasks : PipelineStage(u)' = PipelineStage(u)
    BY <1>1, StandingStage DEF AllStand
  <2> QED BY <1>1, <2>1, PipelineRests
<1>2. ASSUME NEW t \in Tasks, Submits(t) \/ Pauses(t) PROVE [Pipeline!Next]_(Pipeline!vars)
  <2>1. PipelineStage(t)' = PipelineStage(t)
    <3>1. CASE Submits(t)
      BY <3>1 DEF Submits, PipelineStage
    <3>2. CASE Pauses(t)
      <4>1. /\ Standing(t)' = Standing(t) /\ Standing(t) \in Stages
            /\ PipelineStage(t) = Place(Standing(t), task[t].moved)
        BY <3>2, PlaceOf DEF Pauses
      <4>2. PipelineStage(t)' = Place(Standing(t)', task'[t].moved)
        <5>1. checkpoint'[t].stage # "blocked"
          BY DEF AuthTables, CheckpointRow, Stages
        <5> QED BY <5>1 DEF PipelineStage, Place, Standing, BlockedByReview
      <4> QED BY <3>2, <4>1, <4>2 DEF Pauses
    <3> QED BY <1>2, <3>1, <3>2
  <2>2. \A u \in Tasks : PipelineStage(u)' = PipelineStage(u)
    BY <1>2, <2>1, StandingStage DEF Submits, Pauses
  <2> QED BY <1>2, <2>2, PipelineRests DEF Submits, Pauses
<1>3. ASSUME NEW t \in Tasks, Builds(t) \/ Endorses(t) PROVE [Pipeline!Next]_(Pipeline!vars)
  BY <1>3, BuildsBuild, EndorsesEndorse DEF Pipeline!Next
<1>4. ASSUME NEW t \in Tasks, TurnsOn(t) PROVE [Pipeline!Next]_(Pipeline!vars)
  <2> DEFINE Turned(from, to) == Turns(t, from, to) /\ <<from, to>> # <<"review_complete", "repairing">>
  <2>1. \E from, to : Turned(from, to)
    BY <1>4 DEF TurnsOn
  <2>2. ASSUME NEW from, NEW to, Turned(from, to) PROVE [Pipeline!Next]_(Pipeline!vars)
    <3>1. <<from, to>> = <<"verifying", "verified">> =>
            worktree[t] = task[t].head /\ worktree[t] # NoRevision
      BY <2>2, VerifiedAtHead
    <3> QED BY <2>2, <3>1, TurnsMove
  <2> HIDE DEF Turned
  <2> QED BY <2>1, <2>2
<1>5. ASSUME NEW T \in SUBSET Tasks, Halts(T) PROVE [Pipeline!Next]_(Pipeline!vars)
  BY <1>5, HaltsStop
<1> QED BY <1>1, <1>2, <1>3, <1>4, <1>5 DEF Kinds

LEMMA PipelineInit ==
  ASSUME WorkflowInit
  PROVE  Pipeline!Init
<1>1. \A t \in Tasks : task[t].state = "absent" /\ task[t].head = NoRevision
  BY DEF WorkflowInit, AuthInit, StoreInit, TaskInit, AbsentTask
<1>2. \A t \in Tasks : PipelineStage(t) = "building"
  BY <1>1 DEF PipelineStage
<1> QED BY <1>1, <1>2 DEF WorkflowInit, Pipeline!Init

-----------------------------------------------------------------------------
DeliveryInvariant ==
  OneDriverInvariant /\ AllWork /\ Checked /\ HeldLast /\ PackagedIdle

LEMMA DeliveryInitOK == WorkflowInit => DeliveryInvariant
<1> SUFFICES ASSUME WorkflowInit PROVE DeliveryInvariant
  OBVIOUS
<1>1. \A p \in Processes : ~Drives(p)
  BY DEF WorkflowInit, Unstarted, Drives, Live
<1>2. \A t \in Tasks : task[t].state = "absent" /\ task[t].moved # <<"reviewing", "blocked">>
  BY DEF WorkflowInit, AuthInit, StoreInit, TaskInit, AbsentTask
<1> QED BY <1>1, <1>2, OneDriverInitOK DEF DeliveryInvariant, AllWork, Checked, HeldLast, PackagedIdle

LEMMA DeliveryStepOK ==
  ASSUME DeliveryInvariant, [WorkflowNext /\ OneDriver']_workflowVars
  PROVE  DeliveryInvariant' /\ [Pipeline!Next]_(Pipeline!vars)
<1>1. /\ TaskTypeOK /\ HeadsKnown /\ AuthTables /\ AllInStep /\ GraphTables /\ Worktrees /\ InPlace
      /\ LedgerTypeOK /\ OneDriver /\ AllFit /\ AllInStage
      /\ OneDriverInvariant /\ AllWork /\ Checked /\ HeldLast /\ PackagedIdle
  BY DEF DeliveryInvariant, OneDriverInvariant, WorkflowInvariant, AuthInvariant, Ledger
<1>2. [WorkflowNext]_workflowVars
  OBVIOUS
<1>3. OneDriverInvariant' /\ AuthTables' /\ Worktrees' /\ AllFit'
  BY <1>1, OneDriverStepOK DEF OneDriverInvariant, WorkflowInvariant, AuthInvariant
<1>4. AllWork'
  BY <1>1, <1>2, WorksStep
<1>5. Kinds
  BY <1>1, <1>2, StepIsOfKind
<1>6. Checked' /\ HeldLast' /\ PackagedIdle'
  BY <1>1, <1>2, <1>5, CheckedStep, HeldLastStep, PackagedIdleStep
<1>7. [Pipeline!Next]_(Pipeline!vars)
  BY <1>1, <1>2, <1>3, <1>5, PipelineStep
<1> QED BY <1>3, <1>4, <1>6, <1>7 DEF DeliveryInvariant

\* The workflow implements the candidate pipeline: from its check to its package
\* a candidate is the revision that was checked and that everybody is told of,
\* and no step of the pipeline is skipped, whichever command is killed between a
\* commit and the head it records, or between a verdict and its transition.
THEOREM WorkflowDeliversCandidate == OneDriverSpec => CandidateIsDelivered
<1>1. WorkflowInit => Pipeline!Init
  BY PipelineInit
<1>2. DeliveryInvariant /\ [WorkflowNext /\ OneDriver']_workflowVars
        => DeliveryInvariant' /\ [Pipeline!Next]_(Pipeline!vars)
  BY DeliveryStepOK
<1> QED BY <1>1, <1>2, DeliveryInitOK, PTL DEF OneDriverSpec, CandidateIsDelivered, Pipeline!Spec

=============================================================================
