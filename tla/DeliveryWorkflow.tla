--------------------------- MODULE DeliveryWorkflow ---------------------------
(***************************************************************************)
(* The Phase 3 delivery (agentkit/delivery.py): one workflow root, one     *)
(* task, driven by the same store through implementation, verification,    *)
(* review, repair and packaging.  There is no graph, no cancellation and   *)
(* no restart: a process that is killed, or whose store call is refused,   *)
(* leaves the task where it is, and only two commands ever go on with it,  *)
(* `resume` of a task parked for a login and `recover_review_format` of a  *)
(* task that a malformed review blocked.                                   *)
(*                                                                         *)
(* A process stands at a pc, which names its next store or broker call;    *)
(* reads with no write between them are one step.  The Git broker is       *)
(* external: a commit yields the next revision of the worktree, or raises. *)
(***************************************************************************)
EXTENDS AuthRecovery

CONSTANTS
  Processes,  \* runs of a command that may be started
  BaseRevision

ASSUME DeliveryAssumption ==
  /\ Revisions \subseteq Nat /\ BaseRevision \in Revisions
  /\ Executions \subseteq Nat
  /\ {"verification", "review", "review-format-recovered", "approval-package"} \X (0..2)
       \subseteq EvidenceIds

\* The budget a task of the delivery is given: nine calls of at most a ninth of
\* its time, two of them kept for verification.
ASSUME DeliveryBudgetAssumption ==
  \A t \in Tasks :
    /\ MaxRepairs[t] = 2
    /\ Budget[t].max_calls = 9
    /\ Budget[t].verification_reserve = 2 /\ Budget[t].review_reserve = 0
    /\ Budget[t].max_elapsed >= 9 * Budget[t].max_timeout
    /\ \A timeout \in Timeouts : timeout <= Budget[t].max_timeout

\* A workflow root is fresh and gets one task: evidence is named by attempts.
ASSUME OneTaskAssumption == \E t \in Tasks : Tasks = {t}

VARIABLES
  worktree,  \* worktree[t]: the revision of t's worktree, once there is one
  process    \* process[p]: the command p runs, as far as it has come

deliveryVars == <<allVars, worktree, process>>

-----------------------------------------------------------------------------
Ended == {"returned", "failed"}

Points == {"ready", "workspace", "look", "reserve", "start", "call", "park", "commit", "adopt",
           "record", "count", "advance", "block", "package", "evidence", "recover"} \cup Ended

Verdicts == {"none", "passed", "rejected", "stopped"}

ProcessRow ==
  [pc       : Points,
   task     : Tasks \cup {NoTask},
   from     : States,                            \* the task state last read
   head     : Revisions \cup {NoRevision},       \* head_revision, or the commit to adopt
   attempt  : 0..2,                              \* repair_count
   feedback : Revisions \cup {NoRevision},       \* the revision a repair is told about
   exec     : Executions \cup {NoExec},          \* the call in hand
   verdict  : Verdicts]                          \* what came of it

DeliveryTypeOK ==
  /\ AuthTypeOK
  /\ worktree \in [Tasks -> Revisions \cup {NoRevision}]
  /\ process \in [Processes -> ProcessRow]

Unstarted == [pc |-> "ready", task |-> NoTask, from |-> "absent", head |-> NoRevision,
              attempt |-> 0, feedback |-> NoRevision, exec |-> NoExec, verdict |-> "none"]

DeliveryInit ==
  /\ AuthInit
  /\ worktree = [t \in Tasks |-> NoRevision]
  /\ process = [p \in Processes |-> Unstarted]

At(p, pc) == process[p].pc = pc
Live(p) == process[p].pc \notin Ended \cup {"ready"}

\* The row of a process that goes on to pc; one that ends forgets its locals.
Then(row, pc) == IF pc \in Ended THEN [Unstarted EXCEPT !.pc = pc]
                                 ELSE [row EXCEPT !.pc = pc]

Goto(p, pc) == process' = [process EXCEPT ![p] = Then(@, pc)]

Own(p) == process[p].task
Call(p) == process[p].exec
From(p) == process[p].from

\* What a step leaves alone, by the table its store call writes.
OnTaskOnly    == UNCHANGED <<ledgerVars, authVars, worktree>>
OnLedgerOnly  == UNCHANGED <<authVars, worktree>>
NoStoreChange == UNCHANGED <<allVars, worktree>>

-----------------------------------------------------------------------------
(* The commands.                                                           *)

\* run: the root is fresh, so that nobody else can reach the task before it is
\* workspace_ready, or go on with it if this is cut short.
Run(p, t) ==
  /\ At(p, "ready") /\ ~Exists(t)
  /\ task' = [task EXCEPT ![t].state = "contracted", ![t].contract = TRUE,
                          ![t].moved = <<"received", "contracted">>]
  /\ worktree' = [worktree EXCEPT ![t] = BaseRevision]
  /\ process' = [process EXCEPT ![p].task = t, ![p].pc = "workspace"]
  /\ UNCHANGED <<failures, evidence, approvals, approving, ledgerVars, authVars>>

RecordWorkspace(p) ==
  /\ At(p, "workspace")
  /\ SetWorkspace(Own(p), BaseRevision)
  /\ process' = [process EXCEPT ![p].from = "contracted", ![p].pc = "advance"]
  /\ OnTaskOnly

\* resume: the candidate's identity is read from its worktree and compared.
Resume(p, t) ==
  /\ At(p, "ready")
  /\ worktree[t] = task[t].head
  /\ ResumeAfterAuthentication(t)
  /\ process' = [process EXCEPT ![p].task = t, ![p].pc = "look"]
  /\ UNCHANGED worktree

ReviewCalls(t) == {e \in Executions : exec[e].task = t /\ exec[e].role = "reviewer"}

LastReview(t, e) == e \in ReviewCalls(t) /\ \A f \in ReviewCalls(t) : f <= e

\* recover_review_format, up to its first write.  The last reviewer call left
\* a stream that holds a valid review without findings: then the call did not
\* succeed, or the task would not be blocked.
BeginRecovery(p, t) ==
  /\ At(p, "ready")
  /\ task[t].state = "blocked"
  /\ worktree[t] = task[t].head
  /\ \E e \in Executions :
       /\ LastReview(t, e) /\ exec[e].status # "succeeded"
       /\ process' = [process EXCEPT ![p] = [@ EXCEPT
            !.task = t, !.pc = "evidence", !.head = task[t].head,
            !.attempt = task[t].repairs, !.exec = e]]
  /\ NoStoreChange

RecoveredReview(p) == <<"review-format-recovered", process[p].attempt>>

\* The review is recorded in one transaction and the task unblocked in another.
RecordRecovery(p) ==
  /\ At(p, "evidence")
  /\ AddEvidence(Own(p), RecoveredReview(p), process[p].head, "independent-review", "passed")
  /\ Goto(p, "recover")
  /\ OnTaskOnly

Recover(p) ==
  /\ At(p, "recover")
  /\ \E v \in evidence :
       /\ v.id = RecoveredReview(p) /\ v.revision = process[p].head
       /\ RecoverReviewFormat(Own(p), Call(p), v)
  /\ Goto(p, "look")
  /\ OnLedgerOnly

-----------------------------------------------------------------------------
(* _drive: one turn of its loop.                                           *)

AtRest == {"awaiting_pr_approval", "blocked", "cancelled", "authentication_required"}

\* States whose turn begins with a provider or verifier call.
Calling == {"workspace_ready", "implementing", "repairing", "verifying", "reviewing"}
Passing == {"implemented", "verified", "review_complete"}

\* Rows are ordered as they were written: by attempt, the check before the review.
Earlier(v, w) ==
  \/ v.id[2] < w.id[2]
  \/ v.id[2] = w.id[2] /\ v.kind = "independent-check" /\ w.kind = "independent-review"

Failed(t) == {v \in evidence : v.task = t /\ v.status = "failed"}

\* Mutant: the first failure instead of the latest.
FirstFailure(t) ==
  {v.revision : v \in {w \in Failed(t) : \A u \in Failed(t) : u = w \/ Earlier(w, u)}}

\* _latest_repair_feedback: the revision the latest failed evidence is about.
LatestFailure(t) ==
  {v.revision : v \in {w \in Failed(t) : \A u \in Failed(t) : u = w \/ Earlier(u, w)}}

\* Mutant: a parked task is polled until somebody resumes it.
TurnOrWait(s) ==
  CASE s \in AtRest \ {"authentication_required"} -> "returned"
    [] s = "authentication_required"    -> "look"
    [] s \in Passing \cup {"workspace_ready"} -> "advance"
    [] s \in Calling \ {"workspace_ready"}    -> "reserve"
    [] s = "packaging"                  -> "package"

\* What a turn begins with.
Turn(s) ==
  CASE s \in AtRest                     -> "returned"
    [] s \in Passing \cup {"workspace_ready"} -> "advance"
    [] s \in Calling \ {"workspace_ready"}    -> "reserve"
    [] s = "packaging"                  -> "package"

\* A repair without feedback raises.
Look(p) ==
  LET t == Own(p)
      s == task[t].state
  IN /\ At(p, "look")
     /\ s \in AtRest \cup Calling \cup Passing \cup {"packaging"}
     /\ \E r \in IF s = "repairing" THEN LatestFailure(t) ELSE {NoRevision} :
          process' = [process EXCEPT ![p] = Then(
            [Unstarted EXCEPT !.task = t, !.from = s, !.head = task[t].head,
               !.attempt = task[t].repairs, !.feedback = r], Turn(s))]
     /\ NoStoreChange

\* The state after a stage that is done, or passed through.
Onwards ==
  [contracted |-> "workspace_ready", workspace_ready |-> "implementing",
   implementing |-> "implemented",
   repairing |-> "implemented", implemented |-> "verifying", verifying |-> "verified",
   verified |-> "reviewing", reviewing |-> "review_complete",
   review_complete |-> "packaging", packaging |-> "awaiting_pr_approval"]

\* A rejected candidate goes to repair.  The turn of a fresh task goes on to
\* its implementation, every other transition ends the turn.
Advance(p) ==
  /\ At(p, "advance")
  /\ Transition(Own(p), From(p),
                IF process[p].verdict = "rejected" THEN "repairing" ELSE Onwards[From(p)])
  /\ IF From(p) = "workspace_ready"
     THEN process' = [process EXCEPT ![p].from = "implementing", ![p].pc = "reserve"]
     ELSE Goto(p, "look")
  /\ OnTaskOnly

Block(p) ==
  /\ At(p, "block")
  /\ Transition(Own(p), From(p), "blocked")
  /\ Goto(p, "look")
  /\ OnTaskOnly

-----------------------------------------------------------------------------
(* _run_engine.  Nothing catches what a call of the store raises.          *)

RoleOf == [implementing |-> "implementer", repairing |-> "repair",
           verifying |-> "verification", reviewing |-> "reviewer"]

Reserve(p) ==
  /\ At(p, "reserve")
  /\ \E e \in Executions, timeout \in Timeouts :
       /\ ReserveExecution(Own(p), e, RoleOf[From(p)], timeout)
       /\ process' = [process EXCEPT ![p].exec = e, ![p].pc = "start"]
  /\ OnLedgerOnly

StartCall(p) ==
  /\ At(p, "start")
  /\ StartExecution(Call(p))
  /\ Goto(p, "call")
  /\ OnLedgerOnly

Worker(p) == From(p) \in {"implementing", "repairing"}

\* What the stages tell apart: only a provider can lack a login, only a review
\* can be malformed, and a verification succeeds only on the very revision it
\* was asked to verify.
MayReport(p, report) ==
  /\ report.result = "authentication" => From(p) # "verifying" /\ report.status # "succeeded"
  /\ report.result = "format" => From(p) = "reviewing" /\ report.status = "failed"
  /\ From(p) = "verifying" /\ report.status = "succeeded" => worktree[Own(p)] = process[p].head

\* A review may find something, or be disqualified although its call succeeded:
\* it touched its snapshot.
VerdictsOn(stage, report) ==
  CASE report.status = "succeeded" /\ stage = "reviewing" -> {"passed", "rejected", "stopped"}
    [] report.status = "succeeded" /\ stage # "reviewing" -> {"passed"}
    [] report.status \in {"failed", "cancelled"} /\ stage = "verifying" -> {"rejected"}
    [] OTHER -> {"stopped"}

CallReturns(p, report) ==
  /\ At(p, "call")
  /\ MayReport(p, report)
  /\ FinishExecution(Call(p), report)
  /\ \E v \in VerdictsOn(From(p), report) :
       process' = [process EXCEPT ![p].verdict = v, ![p].pc =
         CASE report.result = "authentication"   -> "park"
           [] report.result # "authentication" /\ ~Worker(p) -> "record"
           [] report.result # "authentication" /\ Worker(p)  ->
                IF v = "passed" THEN "commit" ELSE "block"]
  /\ OnLedgerOnly

\* The callback raises: the call is finished as failed and the exception goes on.
CallRaises(p) ==
  /\ At(p, "call")
  /\ FinishExecution(Call(p), [status |-> "failed", elapsed |-> 0, result |-> "other"])
  /\ Goto(p, "failed")
  /\ OnLedgerOnly

-----------------------------------------------------------------------------
(* What follows the call.                                                  *)

\* A review's checkpoint refers to the passing checks of its candidate.
Park(p) ==
  LET t      == Own(p)
      checks == {v.id : v \in {w \in evidence :
                   /\ w.task = t /\ w.kind = "independent-check" /\ w.status = "passed"
                   /\ w.revision = process[p].head /\ ~w.stale}}
  IN /\ At(p, "park")
     /\ worktree[t] = task[t].head
     /\ \E c \in Contexts, s \in Sessions :
          CheckpointAuthentication(t, Call(p), c, s, IF Worker(p) THEN {} ELSE checks)
     /\ Goto(p, "look")
     /\ UNCHANGED worktree

Commit(p) ==
  LET new == worktree[Own(p)] + 1
  IN /\ At(p, "commit")
     /\ new \in Revisions
     /\ worktree' = [worktree EXCEPT ![Own(p)] = new]
     /\ process' = [process EXCEPT ![p].head = new, ![p].pc = "adopt"]
     /\ UNCHANGED allVars

Adopt(p) ==
  /\ At(p, "adopt")
  /\ SetHead(Own(p), process[p].head)
  /\ Goto(p, "advance")
  /\ OnTaskOnly

\* The evidence of a stage is named by its attempt.
StageEvidence ==
  [verifying |-> <<"verification", "independent-check">>,
   reviewing |-> <<"review", "independent-review">>]

Record(p) ==
  LET row == StageEvidence[From(p)]
  IN /\ At(p, "record")
     /\ AddEvidence(Own(p), <<row[1], process[p].attempt>>, process[p].head, row[2],
                    IF process[p].verdict = "passed" THEN "passed" ELSE "failed")
     /\ Goto(p, CASE process[p].verdict = "passed"   -> "advance"
                   [] process[p].verdict = "rejected" -> "count"
                   [] process[p].verdict = "stopped"  -> "block")
     /\ OnTaskOnly

CountRejection(p) ==
  /\ At(p, "count")
  /\ \E s \in Signatures : RecordFailure(Own(p), s)
  /\ Goto(p, IF task'[Own(p)].state = "blocked" THEN "look" ELSE "advance")
  /\ OnTaskOnly

Package(p) ==
  /\ At(p, "package")
  /\ AddEvidence(Own(p), <<"approval-package", 0>>, process[p].head, "approval-package", "passed")
  /\ Goto(p, "advance")
  /\ OnTaskOnly

-----------------------------------------------------------------------------
\* What p does next.
Step(p) ==
  \/ RecordWorkspace(p) \/ RecordRecovery(p) \/ Recover(p)
  \/ Look(p) \/ Advance(p) \/ Block(p)
  \/ Reserve(p) \/ StartCall(p) \/ CallRaises(p)
  \/ \E report \in Reports : CallReturns(p, report)
  \/ Park(p) \/ Commit(p) \/ Adopt(p)
  \/ Record(p) \/ CountRejection(p) \/ Package(p)

Begin(p) == \E t \in Tasks : Run(p, t) \/ Resume(p, t) \/ BeginRecovery(p, t)

\* p is killed, or a call of it raises.
Fail(p) == Live(p) /\ Goto(p, "failed") /\ NoStoreChange

DeliveryNext ==
  \/ \E p \in Processes : Begin(p) \/ Step(p) \/ Fail(p)
  \/ LoginActions /\ UNCHANGED <<worktree, process>>

DeliverySpec == DeliveryInit /\ [][DeliveryNext]_deliveryVars

\* One command at a time, however the one before it ended.
OneDriver == \A p, q \in Processes : Live(p) /\ Live(q) => p = q

OneDriverSpec == DeliveryInit /\ [][DeliveryNext /\ OneDriver']_deliveryVars

\* A process that is not killed goes on: its calls are bounded by timeouts, and
\* a call that is refused raises.
RefusedFail(p) == ~ENABLED Step(p) /\ Fail(p)

FairDeliverySpec ==
  DeliverySpec /\ \A p \in Processes :
    WF_deliveryVars(Step(p)) /\ WF_deliveryVars(RefusedFail(p))

-----------------------------------------------------------------------------
(* The delivery implements CandidatePipeline.                              *)

Pipeline == INSTANCE CandidatePipeline WITH
  stage     <- [t \in Tasks |-> PipelineStage(t)],
  candidate <- worktree,
  endorsed  <- [t \in Tasks |-> task[t].head]

-----------------------------------------------------------------------------
(* Properties: one command at a time, killed anywhere.                     *)

\* From its check to its package the candidate is the revision that was
\* checked: commit and set_head are two steps, a login may interrupt either
\* side of them, a held review may be recovered much later, and any command may
\* be killed anywhere; none of it lets a candidate through on another's check.
CandidateIsDelivered == Pipeline!Spec

\* The evidence a turn is about to add has a name of its own, however often
\* the stage was interrupted by a login or its process was killed.  (The
\* recovery of a review is the exception: killed between its two transactions
\* it cannot be repeated.)
NamesAreFresh ==
  \A p \in Processes :
    /\ At(p, "record") => \A v \in evidence :
         v.id # <<StageEvidence[From(p)][1], process[p].attempt>>
    /\ At(p, "package") => \A v \in evidence : v.id # <<"approval-package", 0>>

\* A repair is told of a failure of the very candidate it starts from, never of
\* an earlier attempt's.
RepairAddressesHead ==
  \A p \in Processes :
    At(p, "call") /\ From(p) = "repairing" => process[p].feedback = task[Own(p)].head

\* The nine calls a delivery is given are enough for every path through it, two
\* repairs included, and no reserve stands in the way of the next one: a task
\* that was never parked is refused no call, but for the time that earlier calls
\* ran over their own.
BudgetCoversPath ==
  \A p \in Processes :
    LET t == Own(p)
        overrun == SumFunctionOnSet(Overrun, In(t, Closed))
    IN At(p, "reserve") /\ checkpoint[t].status = "none" =>
         /\ CallAllowed(t, RoleOf[From(p)])
         /\ \A timeout \in Timeouts :
              TimeAllowed(t, timeout, Budget[t].max_elapsed + overrun)

\* A candidate with a review that did not pass is packaged only when that
\* review was rejected for its presentation alone and recovered.
NoFindingOverridden ==
  \A t \in Tasks :
    /\ task[t].state = "awaiting_pr_approval"
    /\ \E v \in Failed(t) : v.kind = "independent-review" /\ v.revision = task[t].head
    => \E e \in recovered :
         LastReview(t, e) /\ exec[e].result = "format"

\* How far a task is from the end of its path, and a command from that of its turn.
StagesAhead ==
  [contracted |-> 11, workspace_ready |-> 10, implementing |-> 9, repairing |-> 9,
   implemented |-> 8, verifying |-> 7, verified |-> 6, reviewing |-> 5, blocked |-> 4,
   review_complete |-> 3, packaging |-> 2]

Ahead(s) == IF s \in DOMAIN StagesAhead THEN StagesAhead[s] ELSE 0

Due == [workspace |-> 11, evidence |-> 10, recover |-> 9, look |-> 8, reserve |-> 7,
        package |-> 7, start |-> 6, call |-> 5, park |-> 4, commit |-> 4, record |-> 4,
        adopt |-> 3, count |-> 3, advance |-> 2, block |-> 2]

\* A rejection that was counted has its whole repair ahead.
Station(row, t) ==
  IF row.pc = "advance" /\ row.verdict = "rejected" THEN "contracted" ELSE task[t].state

Rank(p) ==
  LET t == Own(p)
  IN 16 * (16 * (2 - task[t].repairs) + Ahead(Station(process[p], t))) + Due[process[p].pc]

\* Whatever its calls return, a command at work never comes back to where it was
\* before: the repairs it may still grant, then the stages ahead, then the rest of
\* its turn grow fewer with every step it takes, and nobody else's step adds any.
DriveDescends ==
  [][\A p \in Processes : Live(p) /\ Live(p)' =>
       \/ process'[p] = process[p] /\ Rank(p)' = Rank(p)
       \/ Rank(p)' \in Nat /\ Rank(p)' < Rank(p)]_deliveryVars

\* A started command comes to its end.
DrivesEnd == \A p \in Processes : Live(p) ~> process[p].pc \in Ended
=============================================================================
