--------------------------- MODULE Phase4Workflow ---------------------------
(***************************************************************************)
(* The Phase 4 workflow (agentkit/orchestration.py): the processes that    *)
(* run `task start`, `task resume` and `task cancel`, each calling the     *)
(* store one transaction at a time and acting on what it read before.      *)
(* Several may be at work on one task, any may be killed between two       *)
(* calls, and what they leave behind is what the next one finds.           *)
(*                                                                         *)
(* A process stands at a pc, which names its next call.  The reads that    *)
(* follow each other without a write between them are one step, and so are *)
(* a read and the write it is for when the row read is written by this     *)
(* process only or the write checks it again.  A call the store refuses    *)
(* raises; nothing but the wrapper of an assignment catches it, and the    *)
(* process ends.                                                           *)
(*                                                                         *)
(* The Git broker is external: a commit yields a new revision of the       *)
(* task's worktree or is refused.  Revisions are numbered as committed.    *)
(***************************************************************************)
EXTENDS Phase4State

CONSTANTS
  Processes,  \* processes that may be started
  BaseRevision

ASSUME WorkflowAssumption ==
  /\ Revisions \subseteq Nat /\ BaseRevision \in Revisions
  /\ EvidenceKinds \X (0..2) \subseteq EvidenceIds

VARIABLES
  worktree,  \* worktree[t]: the revision of t's worktree, once there is one
  process    \* process[p]: the command p runs, as far as it has come

workflowVars == <<allVars, graphVars, worktree, process>>

-----------------------------------------------------------------------------
Ended == {"returned", "failed"}

Points ==
  {"ready", "workspace", "record", "open", "inspect", "reconcile", "unpark",
   "restore", "look", "reread", "cancel", "node", "reserve", "start", "call", "excepted",
   "judge", "checkpoint", "succeed", "adopt", "join", "integrate", "merge",
   "integrated", "requalify", "package", "verdict", "count", "advance", "block"} \cup Ended

Verdicts == {"none", "passed", "rejected", "stopped", "authentication"}

ProcessRow ==
  [pc      : Points,
   task    : Tasks \cup {NoTask},
   from    : States,                            \* the task state last read
   head    : Revisions \cup {NoRevision},       \* head_revision, or the commit to adopt
   repairs : 0..2,                              \* repair_count
   seen    : [Nodes -> NodeStatuses],           \* the node rows last read
   todo    : Seq(Nodes),                        \* nodes still to run in this stage
   exec    : Executions \cup {NoExec},          \* the call in hand
   verdict : Verdicts,                          \* what came of it
   late    : Nat]  \* history: calls it started after the task's cancellation

WorkflowTypeOK ==
  /\ GraphTypeOK
  /\ worktree \in [Tasks -> Revisions \cup {NoRevision}]
  /\ process \in [Processes -> ProcessRow]

Unstarted == [pc |-> "ready", task |-> NoTask, from |-> "absent", head |-> NoRevision,
              repairs |-> 0, seen |-> [n \in Nodes |-> "pending"], todo |-> <<>>,
              exec |-> NoExec, verdict |-> "none", late |-> 0]

WorkflowInit ==
  /\ AuthInit /\ GraphInit
  /\ worktree = [t \in Tasks |-> NoRevision]
  /\ process = [p \in Processes |-> Unstarted]

At(p, pc) == process[p].pc = pc
Live(p) == process[p].pc \notin Ended \cup {"ready"}

\* The row of a process that goes on to pc; one that ends forgets its locals.
Then(row, pc) == IF pc \in Ended THEN [Unstarted EXCEPT !.pc = pc, !.late = row.late]
                                 ELSE [row EXCEPT !.pc = pc]

Goto(p, pc) == process' = [process EXCEPT ![p] = Then(@, pc)]

Own(p) == process[p].task
Call(p) == process[p].exec
Current(p) == Head(process[p].todo)

Workers == Implementations \cup {"repair"}

NodeRole(n) == CASE n = "repair" -> "repair"
                 [] n = "verify" -> "verification"
                 [] n = "review" -> "reviewer"
                 [] OTHER        -> "implementer"

\* States in which the loop of _drive ends, and those a start returns from.
Settled == {"awaiting_pr_approval", "blocked", "cancelled"}
AtRest == Settled \cup {"authentication_required"}

\* What a step may leave alone, by the table its store call writes.
NoGraphChange == UNCHANGED <<graphVars, worktree>>
OnTaskOnly    == UNCHANGED <<ledgerVars, authVars>> /\ NoGraphChange
OnLedgerOnly  == UNCHANGED authVars /\ NoGraphChange
OnNodeOnly    == UNCHANGED <<allVars, cancelRequested, worktree>>
NoStoreChange == UNCHANGED allVars /\ NoGraphChange

-----------------------------------------------------------------------------
(* task submit.  The root is new and nobody else knows of it: the creation *)
(* of the task, its contract and its plan are one step.                    *)
Submit(t) ==
  /\ ~Exists(t)
  /\ task' = [task EXCEPT ![t].state = "contracted", ![t].contract = TRUE,
                          ![t].moved = <<"received", "contracted">>]
  /\ UNCHANGED <<failures, evidence, approvals, approving, process>>
  /\ OnTaskOnly

(* task start: make the workspace of a contracted task, reconcile calls    *)
(* found outstanding, or else drive.                                       *)

BeginStart(p, t) ==
  /\ At(p, "ready") /\ Exists(t)
  /\ task[t].state # "authentication_required"
  /\ process' = [process EXCEPT ![p] = Then([@ EXCEPT !.task = t],
       CASE task[t].state = "contracted" -> "workspace"
         [] task[t].state \in Settled    -> "returned"
         [] OTHER                        -> "inspect")]
  /\ NoStoreChange

\* The broker refuses when the repository exists.
CreateWorkspace(p) ==
  /\ At(p, "workspace")
  /\ worktree[Own(p)] = NoRevision
  /\ worktree' = [worktree EXCEPT ![Own(p)] = BaseRevision]
  /\ Goto(p, "record")
  /\ UNCHANGED <<allVars, graphVars>>

RecordWorkspace(p) ==
  /\ At(p, "record")
  /\ SetWorkspace(Own(p), BaseRevision)
  /\ Goto(p, "open")
  /\ OnTaskOnly

OpenWorkspace(p) ==
  /\ At(p, "open")
  /\ Transition(Own(p), "contracted", "workspace_ready")
  /\ Goto(p, "inspect")
  /\ OnTaskOnly

Inspect(p) ==
  /\ At(p, "inspect")
  /\ Goto(p, IF In(Own(p), Active) # {} THEN "reconcile" ELSE "look")
  /\ NoStoreChange

ReconcileFound(p) ==
  /\ At(p, "reconcile")
  /\ ReconcileActive \/ (LostCalls = {} /\ UNCHANGED storeVars)
  /\ Goto(p, "returned")
  /\ OnLedgerOnly

(* task resume: the parked task's checkpoint names exactly one node.       *)

ParkedNodes(t) ==
  {n \in Nodes : /\ node[t][n].status = "authentication_required"
                 /\ node[t][n].exec = checkpoint[t].exec}

BeginResume(p, t) ==
  /\ At(p, "ready")
  /\ task[t].state = "authentication_required" /\ Parked(t)
  /\ \E n \in Nodes :
       /\ ParkedNodes(t) = {n}
       /\ process' = [process EXCEPT ![p].task = t, ![p].todo = <<n>>, ![p].pc = "unpark"]
  /\ NoStoreChange

Unpark(p) ==
  /\ At(p, "unpark")
  /\ ResumeAfterAuthentication(Own(p))
  /\ Goto(p, "restore")
  /\ NoGraphChange

RestoreNode(p) ==
  /\ At(p, "restore")
  /\ MoveNode(Own(p), Current(p), "pending", NoExec)
  /\ Goto(p, "look")
  /\ OnNodeOnly

(* task cancel: the flag is set and running calls are asked to stop; when  *)
(* there are none, the command cancels the task itself.                    *)

BeginCancel(p, t) ==
  /\ At(p, "ready")
  /\ RequestTaskCancellation(t)
  /\ process' = [process EXCEPT ![p] = Then([@ EXCEPT !.task = t],
       IF In(t, {"running"}) = {} THEN "reread" ELSE "returned")]
  /\ UNCHANGED worktree

RereadForCancel(p) ==
  /\ At(p, "reread")
  /\ process' = [process EXCEPT ![p] = Then([@ EXCEPT !.from = task[Own(p)].state],
       IF task[Own(p)].state \in Settled THEN "returned" ELSE "cancel")]
  /\ NoStoreChange

CancelTask(p) ==
  /\ At(p, "cancel")
  /\ Transition(Own(p), process[p].from, "cancelled")
  /\ Goto(p, "returned")
  /\ OnTaskOnly

-----------------------------------------------------------------------------
(* _drive: one turn of its loop.                                           *)

\* The nodes a stage runs, in order.
ToRun(n, seen) == IF seen[n] = "succeeded" THEN <<>> ELSE <<n>>

StageNodes(state, seen) ==
  CASE state = "implementing" -> ToRun(Subtasks[1], seen) \o
                                 (IF Decomposed THEN ToRun(Subtasks[2], seen) ELSE <<>>)
    [] state = "repairing"    -> <<"repair">>
    [] state = "verifying"    -> <<"verify">>
    [] state = "reviewing"    -> <<"review">>
    [] state = "packaging"    -> <<"package">>
    [] OTHER                  -> <<>>

\* Nothing to run: the stage is over, or is only passed through.
AfterStage(state) == IF state = "implementing" THEN "join" ELSE "advance"

Driven == Working \ {"received", "contracted"}

\* The loop stops at rest; with the flag set it leaves a task alone whose call
\* is still out, and cancels any other.
Look(p) ==
  LET t    == Own(p)
      s    == task[t].state
      seen == [n \in Nodes |-> node[t][n].status]
      todo == StageNodes(s, seen)
      out  == In(t, {"running", "cancel_requested", "reconciliation_required"}) # {}
      cancelled == cancelRequested[t]
  IN /\ At(p, "look")
     /\ s \in AtRest \cup Driven
     /\ process' = [process EXCEPT ![p] = Then(
          [Unstarted EXCEPT !.task = t, !.from = s, !.head = task[t].head,
             !.repairs = task[t].repairs, !.seen = seen, !.todo = todo, !.late = process[p].late],
          CASE s \in AtRest \/ (cancelled /\ out)          -> "returned"
            [] s \in Driven /\ cancelled /\ ~out           -> "cancel"
            [] s \in Driven /\ ~cancelled /\ todo = <<>>   -> AfterStage(s)
            [] s \in Driven /\ ~cancelled /\ todo # <<>>   -> "node")]
     /\ NoStoreChange

\* The state after a stage that is done, or passed through.
Onwards ==
  [workspace_ready |-> "implementing", implementing |-> "implemented",
   repairing |-> "implemented", implemented |-> "verifying", verifying |-> "verified",
   verified |-> "reviewing", reviewing |-> "review_complete",
   review_complete |-> "packaging", packaging |-> "awaiting_pr_approval"]

Advance(p) ==
  /\ At(p, "advance")
  /\ Transition(Own(p), process[p].from,
       IF process[p].verdict = "rejected" THEN "repairing" ELSE Onwards[process[p].from])
  /\ Goto(p, "look")
  /\ OnTaskOnly

Block(p) ==
  /\ At(p, "block")
  /\ Transition(Own(p), process[p].from, "blocked")
  /\ Goto(p, "look")
  /\ OnTaskOnly

-----------------------------------------------------------------------------
(* One node of a stage, up to its provider or verifier call.               *)

\* A failed node goes through pending; so does a parked repair.
MustReset(p) ==
  LET n == Current(p)
  IN \/ process[p].seen[n] = "failed" /\ n # "package"
     \/ process[p].seen[n] = "authentication_required" /\ n = "repair"

ResetNode(p) ==
  /\ At(p, "node") /\ MustReset(p)
  /\ MoveNode(Own(p), Current(p), "pending", NoExec)
  /\ process' = [process EXCEPT ![p].seen[Current(p)] = "pending"]
  /\ OnNodeOnly

\* An implementation node that waits for a login ends the turn.
SkipParkedNode(p) ==
  /\ At(p, "node")
  /\ Current(p) \in Implementations
  /\ process[p].seen[Current(p)] = "authentication_required"
  /\ Goto(p, "join")
  /\ NoStoreChange

\* An assignment reads its task again, a quality stage does not.
RunNode(p) ==
  LET n == Current(p)
      t == Own(p)
  IN /\ At(p, "node") /\ ~MustReset(p)
     /\ ~(n \in Implementations /\ process[p].seen[n] = "authentication_required")
     /\ MoveNode(t, n, "running", NoExec)
     /\ process' = [process EXCEPT
          ![p].from = IF n \in Workers THEN task[t].state ELSE @,
          ![p].pc   = IF n = "package" THEN "package" ELSE "reserve"]
     /\ OnNodeOnly

(* _run_engine.                                                            *)

Reserve(p) ==
  /\ At(p, "reserve")
  /\ \E e \in Executions, timeout \in Timeouts :
       /\ ReserveExecution(Own(p), e, NodeRole(Current(p)), timeout)
       /\ process' = [process EXCEPT ![p].exec = e, ![p].pc = "start"]
  /\ OnLedgerOnly

StartCall(p) ==
  /\ At(p, "start")
  /\ StartExecution(Call(p))
  /\ process' = [process EXCEPT ![p].pc = "call",
       ![p].late = IF cancelRequested[Own(p)] THEN @ + 1 ELSE @]
  /\ OnLedgerOnly

\* What the caller makes of a report.  A review may find something or be
\* rejected although it succeeded; only a provider's failure is classified.
VerdictsOn(n, report) ==
  CASE n # "verify" /\ report.result = "authentication" -> {"authentication"}
    [] n = "verify" /\ report.status = "succeeded"      -> {"passed"}
    [] n = "verify" /\ report.status = "blocked"        -> {"stopped"}
    [] n = "verify" /\ report.status \in {"failed", "cancelled"} -> {"rejected"}
    [] n = "review" /\ report.status = "succeeded" /\ report.result # "authentication"
         -> {"passed", "rejected", "stopped"}
    [] n \in Workers /\ report.status = "succeeded" /\ report.result # "authentication"
         -> {"passed"}
    [] OTHER -> {"stopped"}

\* Mutant: the verifier does not compare the worktree with the head.
VerifiesAnything(p, report) == TRUE

\* A verification succeeds only on the very revision it was asked to verify.
MayReport(p, report) ==
  Current(p) = "verify" /\ report.status = "succeeded" =>
    worktree[Own(p)] = process[p].head

CallReturns(p, report) ==
  /\ At(p, "call")
  /\ MayReport(p, report)
  /\ FinishExecution(Call(p), report)
  /\ \E v \in VerdictsOn(Current(p), report) :
       process' = [process EXCEPT ![p].verdict = v, ![p].pc = "judge"]
  /\ OnLedgerOnly

\* The callback raises: the call is finished as failed and the exception goes on.
CallRaises(p) ==
  /\ At(p, "call")
  /\ FinishExecution(Call(p), [status |-> "failed", elapsed |-> 0, result |-> "other"])
  /\ Goto(p, IF Current(p) \in Workers THEN "excepted" ELSE "failed")
  /\ OnLedgerOnly

Engine(p) ==
  \/ Reserve(p)
  \/ StartCall(p)
  \/ \E report \in Reports : CallReturns(p, report)
  \/ CallRaises(p)

\* An assignment catches what the store refuses here.
EngineRefused(p) ==
  /\ process[p].pc \in {"reserve", "start", "call"}
  /\ Current(p) \in Workers
  /\ ~ENABLED Engine(p)
  /\ Goto(p, "excepted")
  /\ NoStoreChange

FailAssignment(p) ==
  /\ At(p, "excepted")
  /\ MoveNode(Own(p), Current(p), "failed", NoExec)
  /\ Goto(p, "block")
  /\ OnNodeOnly

-----------------------------------------------------------------------------
(* What follows the call.  An assignment looks at an authentication        *)
(* failure first and at the flag second, a quality stage the other way     *)
(* round; a verification never fails for want of a login.                  *)

Unauthenticated(p) ==
  /\ process[p].verdict = "authentication"
  /\ Current(p) \in Workers \/ ~cancelRequested[Own(p)]

CalledOff(p) == cancelRequested[Own(p)] /\ ~Unauthenticated(p)

\* Mutant: cancellation is left to the next turn of the loop.
JudgedAnyhow(p) == At(p, "judge") /\ ~Unauthenticated(p)

Judged(p) == At(p, "judge") /\ ~Unauthenticated(p) /\ ~CalledOff(p)

\* Mutant: the node does not record the call it waits for.
ParkNodeOnly(p) ==
  /\ At(p, "judge") /\ Unauthenticated(p)
  /\ MoveNode(Own(p), Current(p), "authentication_required", NoExec)
  /\ Goto(p, "checkpoint")
  /\ OnNodeOnly

ParkNode(p) ==
  /\ At(p, "judge") /\ Unauthenticated(p)
  /\ MoveNode(Own(p), Current(p), "authentication_required", Call(p))
  /\ Goto(p, "checkpoint")
  /\ OnNodeOnly

\* A review's checkpoint refers to the passing checks of its candidate.
Checkpoint(p) ==
  LET t      == Own(p)
      checks == {v.id : v \in {w \in evidence :
                   /\ w.task = t /\ w.kind = "independent-check" /\ w.status = "passed"
                   /\ w.revision = process[p].head /\ ~w.stale}}
  IN /\ At(p, "checkpoint")
     /\ \E c \in Contexts, s \in Sessions :
          CheckpointAuthentication(t, Call(p), c, s,
                                   IF Current(p) = "review" THEN checks ELSE {})
     /\ Goto(p, "look")
     /\ NoGraphChange

CallOff(p) ==
  /\ At(p, "judge") /\ CalledOff(p)
  /\ MoveNode(Own(p), Current(p), "cancelled", Call(p))
  /\ Goto(p, "cancel")
  /\ OnNodeOnly

\* The assignment did not succeed, or the broker refuses its changes.
GiveUp(p) ==
  /\ Judged(p) /\ Current(p) \in Workers
  /\ MoveNode(Own(p), Current(p), "failed", Call(p))
  /\ Goto(p, "block")
  /\ OnNodeOnly

\* A part of a decomposed plan is committed to a worktree of its own.
OnTaskBranch(n) == n = "repair" \/ ~Decomposed

Commit(p) ==
  LET new == worktree[Own(p)] + 1
  IN /\ Judged(p) /\ Current(p) \in Workers /\ process[p].verdict = "passed"
     /\ IF OnTaskBranch(Current(p))
        THEN /\ new \in Revisions
             /\ worktree' = [worktree EXCEPT ![Own(p)] = new]
             /\ process' = [process EXCEPT ![p].head = new, ![p].pc = "succeed"]
        ELSE /\ Goto(p, "succeed")
             /\ UNCHANGED worktree
     /\ UNCHANGED <<allVars, graphVars>>

LeaveNode(p) ==
  process' = [process EXCEPT ![p].todo = Tail(@),
    ![p].pc = IF Len(process[p].todo) > 1 THEN "node" ELSE "join"]

Succeed(p) ==
  /\ At(p, "succeed")
  /\ MoveNode(Own(p), Current(p), "succeeded", Call(p))
  /\ IF OnTaskBranch(Current(p)) THEN Goto(p, "adopt") ELSE LeaveNode(p)
  /\ OnNodeOnly

Adopt(p) ==
  /\ At(p, "adopt")
  /\ SetHead(Own(p), process[p].head)
  /\ CASE Current(p) = "integrate" -> Goto(p, "integrated")
       [] Current(p) = "repair"    ->
            process' = [process EXCEPT ![p].todo = <<"verify", "review">>, ![p].pc = "requalify"]
       [] Current(p) \in Implementations -> LeaveNode(p)
  /\ OnTaskOnly

\* Mutant: a repaired candidate keeps its verification and its review.
KeepQuality(p) ==
  /\ At(p, "requalify")
  /\ process' = [process EXCEPT ![p].from = "repairing", ![p].pc = "advance"]
  /\ NoStoreChange

\* After a repair both quality nodes run again.
Requalify(p) ==
  LET n == Current(p)
      t == Own(p)
  IN /\ At(p, "requalify")
     /\ IF node[t][n].status \in {"failed", "succeeded"}
        THEN MoveNode(t, n, "pending", NoExec) ELSE UNCHANGED node
     /\ process' = [process EXCEPT ![p].todo = Tail(@), ![p].from = "repairing",
          ![p].pc = IF n = "review" THEN "advance" ELSE "requalify"]
     /\ OnNodeOnly

(* The end of the implementation: all nodes succeeded, and a decomposed    *)
(* plan is integrated.                                                     *)

\* Mutant: the loop goes on although a node still waits for its login.
JoinForever(p) ==
  /\ At(p, "join")
  /\ process' = [process EXCEPT ![p].from = "implementing", ![p].pc =
       IF \A n \in Implementations : node[Own(p)][n].status = "succeeded"
       THEN IF Decomposed THEN "integrate" ELSE "advance" ELSE "look"]
  /\ NoStoreChange

Join(p) ==
  LET t    == Own(p)
      done == \A n \in Implementations : node[t][n].status = "succeeded"
  IN /\ At(p, "join")
     /\ process' = [process EXCEPT ![p] = Then([@ EXCEPT !.from = "implementing"],
          CASE task[t].state # "implementing"           -> "look"
            [] task[t].state = "implementing" /\ ~done  -> "returned"
            [] OTHER -> IF Decomposed /\ node[t]["integrate"].status # "succeeded"
                        THEN "integrate" ELSE "advance")]
     /\ NoStoreChange

RunIntegration(p) ==
  /\ At(p, "integrate")
  /\ MoveNode(Own(p), "integrate", "running", NoExec)
  /\ process' = [process EXCEPT ![p].todo = <<"integrate">>, ![p].pc = "merge"]
  /\ OnNodeOnly

\* The broker integrates into a worktree that is still at the base.
Merge(p) ==
  LET new == worktree[Own(p)] + 1
  IN /\ At(p, "merge")
     /\ worktree[Own(p)] = BaseRevision /\ new \in Revisions
     /\ worktree' = [worktree EXCEPT ![Own(p)] = new]
     /\ process' = [process EXCEPT ![p].head = new, ![p].pc = "adopt"]
     /\ UNCHANGED <<allVars, graphVars>>

RefuseMerge(p) ==
  /\ At(p, "merge")
  /\ MoveNode(Own(p), "integrate", "failed", NoExec)
  /\ Goto(p, "block")
  /\ OnNodeOnly

Integrated(p) ==
  /\ At(p, "integrated")
  /\ MoveNode(Own(p), "integrate", "succeeded", NoExec)
  /\ Goto(p, "advance")
  /\ OnNodeOnly

(* The end of a quality stage, and the package.                            *)

QualityKind == [verify |-> "independent-check", review |-> "independent-review"]

RecordVerdict(p) ==
  LET kind == QualityKind[Current(p)]
  IN /\ Judged(p) /\ Current(p) \in DOMAIN QualityKind
     /\ AddEvidence(Own(p), <<kind, process[p].repairs>>, process[p].head, kind,
                    IF process[p].verdict = "passed" THEN "passed" ELSE "failed")
     /\ Goto(p, "verdict")
     /\ OnTaskOnly

Package(p) ==
  /\ At(p, "package")
  /\ AddEvidence(Own(p), <<"approval-package", 0>>, process[p].head, "approval-package", "passed")
  /\ process' = [process EXCEPT ![p].verdict = "passed", ![p].pc = "verdict"]
  /\ OnTaskOnly

SettleNode(p) ==
  LET v == process[p].verdict
  IN /\ At(p, "verdict")
     /\ MoveNode(Own(p), Current(p), IF v = "passed" THEN "succeeded" ELSE "failed", Call(p))
     /\ Goto(p, CASE v = "passed"   -> "advance"
                   [] v = "rejected" -> "count"
                   [] v = "stopped"  -> "block")
     /\ OnNodeOnly

CountRejection(p) ==
  /\ At(p, "count")
  /\ \E s \in Signatures : RecordFailure(Own(p), s)
  /\ Goto(p, IF task'[Own(p)].state = "blocked" THEN "look" ELSE "advance")
  /\ OnTaskOnly

-----------------------------------------------------------------------------
\* What p does next.
Step(p) ==
  \/ CreateWorkspace(p) \/ RecordWorkspace(p) \/ OpenWorkspace(p)
  \/ Inspect(p) \/ ReconcileFound(p)
  \/ Unpark(p) \/ RestoreNode(p)
  \/ RereadForCancel(p) \/ CancelTask(p)
  \/ Look(p) \/ Advance(p) \/ Block(p)
  \/ ResetNode(p) \/ SkipParkedNode(p) \/ RunNode(p)
  \/ Engine(p) \/ EngineRefused(p) \/ FailAssignment(p)
  \/ ParkNode(p) \/ Checkpoint(p) \/ CallOff(p) \/ GiveUp(p)
  \/ Commit(p) \/ Succeed(p) \/ Adopt(p) \/ Requalify(p)
  \/ Join(p) \/ RunIntegration(p) \/ Merge(p) \/ RefuseMerge(p) \/ Integrated(p)
  \/ RecordVerdict(p) \/ Package(p) \/ SettleNode(p) \/ CountRejection(p)

Begin(p) == \E t \in Tasks : BeginStart(p, t) \/ BeginResume(p, t) \/ BeginCancel(p, t)

\* p is killed, or a call of it raises.
Fail(p) == Live(p) /\ Goto(p, "failed") /\ NoStoreChange

WorkflowNext ==
  \/ \E t \in Tasks : Submit(t)
  \/ \E p \in Processes : Begin(p) \/ Step(p) \/ Fail(p)
  \/ LoginActions /\ NoGraphChange /\ UNCHANGED process

WorkflowSpec == WorkflowInit /\ [][WorkflowNext]_workflowVars

\* One start or resume at a time, however the one before it ended; cancel any time.
Drives(p) == Live(p) /\ process[p].pc \notin {"reread", "cancel"}
OneDriver == \A p, q \in Processes : Drives(p) /\ Drives(q) => p = q

OneDriverSpec == WorkflowInit /\ [][WorkflowNext /\ OneDriver']_workflowVars

\* A process that is not killed goes on: its provider calls are bounded by
\* timeouts, and a call that is refused raises.
RefusedFail(p) == ~ENABLED Step(p) /\ Fail(p)

FairWorkflowSpec ==
  WorkflowSpec /\ \A p \in Processes :
    WF_workflowVars(Step(p)) /\ WF_workflowVars(RefusedFail(p))

-----------------------------------------------------------------------------
(* The workflow implements CandidatePipeline.                              *)

Pipeline == INSTANCE CandidatePipeline WITH
  stage     <- [t \in Tasks |-> PipelineStage(t)],
  candidate <- worktree,
  endorsed  <- [t \in Tasks |-> task[t].head]

-----------------------------------------------------------------------------
(* Properties. *)

\* With one process at a time, killed anywhere and started again, the candidate
\* from its check to its package is the revision that was checked, and it never
\* skips a step of the pipeline: a kill between commit and set_head leaves the
\* two apart until a failed check or a new commit brings them together.
CandidateIsDelivered == Pipeline!Spec

\* Cancellation is looked at between any two calls: a process starts at most the
\* one call it was about to start when the flag was set, however many nodes its
\* stage has left and however often it is cancelled.  (A live transport looks once
\* more before it launches anything for that one: process.py:45.)
AtMostOneLateStart == \A p \in Processes : process[p].late <= 1

\* Two processes driving one task never have the same node in hand: the row's
\* status is the lock, through failures, restarts and stale reads.
InHand == {"reserve", "start", "call", "excepted", "judge", "succeed", "verdict"}

NodeHasOneDriver ==
  \A p, q \in Processes :
    /\ process[p].pc \in InHand /\ process[q].pc \in InHand
    /\ Own(p) = Own(q) /\ Current(p) = Current(q)
    => p = q

\* With one process at a time, a parked task can be resumed, whatever was
\* killed before it was parked: its checkpoint names exactly one node
\* (docs/authentication-recovery.md, "must identify exactly one persisted
\* graph node"), and that node has not been started again.
CheckpointNamesNode ==
  \A t \in Tasks :
    task[t].state = "authentication_required" => Cardinality(ParkedNodes(t)) = 1

\* A task moves on only past nodes that are done for its present candidate:
\* with one process at a time, killed or not, no stage is entered before the
\* node of the one before it succeeded, and a repaired candidate starts with
\* its quality nodes undone.
StagesFollowNodes ==
  LET Done(t, n) == node[t][n].status = "succeeded"
  IN \A t \in Tasks :
       /\ task[t].state \in Reviewed \cup {"implemented", "verifying", "verified", "reviewing"}
            => \A n \in Predecessors("verify") : Done(t, n)
       /\ task[t].state \in Reviewed \cup {"verified", "reviewing"} => Done(t, "verify")
       /\ task[t].state \in Reviewed => Done(t, "review")
       /\ task[t].state = "awaiting_pr_approval" => Done(t, "package")
       /\ task[t].state = "implemented" => ~Done(t, "verify") /\ ~Done(t, "review")

\* docs/controller-contracts.md: "packaging checks current passing evidence
\* before producing a local package".
PackagedWasVerified ==
  \A t \in Tasks : task[t].state = "awaiting_pr_approval" =>
    CurrentEvidence(t, "independent-check") /\ CurrentEvidence(t, "independent-review")

\* A started command comes to its end: no sequence of failures, repairs,
\* logins, cancellations and other commands keeps its loop going.
CommandsEnd == \A p \in Processes : Live(p) ~> process[p].pc \in Ended
=============================================================================
