----------------------------- MODULE Phase4State -----------------------------
(***************************************************************************)
(* The graph tables of the Phase 4 workflow (agentkit/phase4_state.py):    *)
(* the nodes of a task's plan and its cancellation flag, kept in the       *)
(* controller's database.  Each operation is one transaction.              *)
(*                                                                         *)
(* The nodes are those build_plan writes; intake, plan and schedule, which *)
(* are written as succeeded and never touched again, are left out with the *)
(* dependencies on them.  The workspace identity of an assignment is left  *)
(* out: comparing it only ever refuses a call.                             *)
(***************************************************************************)
EXTENDS AuthRecovery, Sequences

CONSTANT Subtasks  \* the implementation nodes of the plan, in the order of their rows

VARIABLES
  node,            \* node[t][n]: the row of phase4_nodes
  cancelRequested  \* cancelRequested[t]: cancel_requested of phase4_controls

graphVars == <<node, cancelRequested>>

-----------------------------------------------------------------------------
Implementations == Range(Subtasks)
Decomposed == Len(Subtasks) > 1

ASSUME SubtasksAssumption ==
  /\ Len(Subtasks) \in 1..2
  /\ IsInjective(Subtasks)
  /\ Implementations \cap {"integrate", "verify", "review", "repair", "package"} = {}

Nodes == Implementations \cup (IF Decomposed THEN {"integrate"} ELSE {})
                         \cup {"verify", "review", "repair", "package"}

\* The ordinary edges of the plan; bounded repair edges gate nothing.
Predecessors(n) ==
  CASE n = "integrate" -> Implementations
    [] n = "verify"    -> IF Decomposed THEN {"integrate"} ELSE Implementations
    [] n = "review"    -> {"verify"}
    [] n = "package"   -> {"review"}
    [] OTHER           -> {}

MaxAttempts(n) ==
  CASE n \in {"verify", "review"}                -> 3
    [] n \in Implementations \cup {"repair"}     -> 2
    [] OTHER                                     -> 1

NodeStatuses == {"pending", "dormant", "running", "authentication_required",
                 "failed", "succeeded", "blocked", "cancelled"}

NodeTransitions ==
  [pending                 |-> {"running", "blocked", "cancelled"},
   dormant                 |-> {"running", "cancelled"},
   running                 |-> {"succeeded", "failed", "authentication_required", "cancelled"},
   authentication_required |-> {"pending", "cancelled"},
   failed                  |-> {"pending", "running", "blocked", "cancelled"},
   succeeded               |-> {"pending", "running"},
   blocked                 |-> {},
   cancelled               |-> {}]

NodeRow == [status : NodeStatuses, attempts : 0..3, exec : Executions \cup {NoExec}]

GraphTypeOK ==
  /\ AuthTypeOK
  /\ node \in [Tasks -> [Nodes -> NodeRow]]
  /\ \A t \in Tasks, n \in Nodes : node[t][n].attempts <= MaxAttempts(n)
  /\ cancelRequested \in [Tasks -> BOOLEAN]

InitialNode(n) == [status   |-> IF n = "repair" THEN "dormant" ELSE "pending",
                   attempts |-> 0, exec |-> NoExec]

GraphInit ==
  /\ node = [t \in Tasks |-> [n \in Nodes |-> InitialNode(n)]]
  /\ cancelRequested = [t \in Tasks |-> FALSE]

\* Mutant: attempts are counted and not bounded.
MayRunAgain(t, n) == \A m \in Predecessors(n) : node[t][m].status = "succeeded"

\* What a transition to running demands of the row besides its status.
MayRun(t, n) ==
  /\ node[t][n].attempts < MaxAttempts(n)
  /\ \A m \in Predecessors(n) : node[t][m].status = "succeeded"

\* An absent execution id leaves the one in the row.
SetNode(t, n, target, e) ==
  node' = [node EXCEPT
    ![t][n].status   = target,
    ![t][n].attempts = IF target = "running" THEN @ + 1 ELSE @,
    ![t][n].exec     = IF e = NoExec THEN @ ELSE e]

\* Mutant: the status the node comes from is not looked at.
MoveNodeAnyhow(t, n, target, e) ==
  /\ target = "running" => MayRun(t, n)
  /\ SetNode(t, n, target, e)

\* transition_node.
MoveNode(t, n, target, e) ==
  /\ target \in NodeTransitions[node[t][n].status]
  /\ target = "running" => MayRun(t, n)
  /\ SetNode(t, n, target, e)

\* request_cancellation: the running calls are asked to stop, a reserved one is not.
RequestTaskCancellation(t) ==
  /\ task[t].state \notin {"absent", "cancelled", "awaiting_pr_approval"}
  /\ cancelRequested' = [cancelRequested EXCEPT ![t] = TRUE]
  /\ exec' = [e \in Executions |->
       IF e \in In(t, {"running"}) THEN [exec[e] EXCEPT !.status = "cancel_requested"]
                                   ELSE exec[e]]
  /\ UNCHANGED <<taskVars, budget, recovered, authVars, node>>
=============================================================================
