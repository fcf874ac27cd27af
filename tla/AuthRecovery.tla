---------------------------- MODULE AuthRecovery ----------------------------
(***************************************************************************)
(* Guided authentication recovery: the checkpoints and login sessions of   *)
(* the controller store, and the auth-login and auth-reconcile commands    *)
(* that use them.  A provider stage that fails for want of a login parks   *)
(* its task; some auth-login command claims the one login session of the   *)
(* provider and account context, runs the provider's own interactive CLI,  *)
(* and reports; then each task resumes the stage that was interrupted.     *)
(*                                                                         *)
(* A context is a provider with an account context.  The engine of an      *)
(* execution is not kept: the context is chosen when it fails.  The        *)
(* comparison of repository, worktree, branch, cleanliness and manifest    *)
(* only ever refuses a call, so a call that happens is one that passed it. *)
(* Resumed checkpoints stay in the table, but no query selects them: a     *)
(* task's latest checkpoint is all there is to know of its checkpoints.    *)
(***************************************************************************)
EXTENDS ExecutionLedger

CONSTANTS
  Contexts,   \* (provider, account_context) pairs
  NoContext,
  Sessions,   \* login session ids (uuid4: never reused)
  NoSession,
  NoExec      \* the execution of an absent checkpoint

ASSUME AuthAssumption ==
  NoContext \notin Contexts /\ NoSession \notin Sessions /\ NoExec \notin Executions

VARIABLES
  session,     \* session[s]: a row of authentication_sessions
  checkpoint,  \* checkpoint[t]: t's latest row of authentication_checkpoints
  login        \* login[s]: the auth-login command that claimed s, and its CLI

authVars == <<session, checkpoint, login>>
allVars == <<storeVars, authVars>>

-----------------------------------------------------------------------------
OpenStatuses == {"waiting", "in_progress", "reconciliation_required"}

\* "failed" stands for failed, cancelled and timed_out: no operation tells them apart.
LoginOutcomes == {"succeeded", "failed"}

SessionRow == [status  : OpenStatuses \cup LoginOutcomes \cup {"abandoned", "unused"},
               context : Contexts \cup {NoContext}]

ActiveStatuses == {"waiting", "ready", "login_reconciliation_required"}

Stages == {"implementing", "repairing", "reviewing"}

CheckpointRow == [status   : ActiveStatuses \cup {"none", "resumed"},
                  context  : Contexts \cup {NoContext},
                  session  : Sessions \cup {NoSession},   \* login_session_id
                  stage    : Stages \cup {"none"},        \* interrupted_state
                  exec     : Executions \cup {NoExec},    \* execution_id
                  head     : Revisions \cup {NoRevision}, \* candidate_revision
                  refs     : SUBSET EvidenceIds,          \* evidence_refs_json
                  attempts : Nat]                         \* login_attempts

\* owner: the command is there and holds the owner nonce of its session;
\* process: the official CLI, in a session of its own, which outlives the command.
LoginRow == [owner : BOOLEAN, process : {"none", "running", "ended"}]

AuthTypeOK ==
  /\ StoreTypeOK
  /\ session \in [Sessions -> SessionRow]
  /\ checkpoint \in [Tasks -> CheckpointRow]
  /\ login \in [Sessions -> LoginRow]

NoCheckpoint == [status |-> "none", context |-> NoContext, session |-> NoSession,
                 stage |-> "none", exec |-> NoExec, head |-> NoRevision,
                 refs |-> {}, attempts |-> 0]

AuthTablesInit ==
  /\ session = [s \in Sessions |-> [status |-> "unused", context |-> NoContext]]
  /\ checkpoint = [t \in Tasks |-> NoCheckpoint]
  /\ login = [s \in Sessions |-> [owner |-> FALSE, process |-> "none"]]

AuthInit == StoreInit /\ AuthTablesInit

Parked(t) == checkpoint[t].status \in ActiveStatuses

OpenSessions(c) ==
  {s \in Sessions : session[s].context = c /\ session[s].status \in OpenStatuses}

\* Mutant: every checkpoint opens a session of its own.
AlwaysNew(s, c) == session[s].status = "unused"

\* The row a call finds for this context, or the one it inserts.
OpenOrNew(s, c) ==
  IF OpenSessions(c) # {} THEN s \in OpenSessions(c)
                          ELSE session[s].status = "unused"

\* Passing or not, the ids a checkpoint may refer to.
FreshEvidence(t) ==
  {v.id : v \in {w \in evidence : w.task = t /\ w.revision = task[t].head /\ ~w.stale}}

\* Mutant: a login settles every checkpoint of its context.
OfSameContext(s) == {t \in Tasks : checkpoint[t].context = session[s].context}

Linked(s) == {t \in Tasks : checkpoint[t].session = s}

\* Checkpoints of s whose status is in From become To.
MoveLinked(s, From, To) ==
  checkpoint' = [t \in Tasks |->
    IF t \in Linked(s) /\ checkpoint[t].status \in From
    THEN [checkpoint[t] EXCEPT !.status = To] ELSE checkpoint[t]]

-----------------------------------------------------------------------------
\* Mutant: another call of the task may still be outstanding.
InterruptedAnyhow(t, e) ==
  /\ task[t].state \in Stages
  /\ exec[e].task = t /\ RoleState[exec[e].role] = task[t].state
  /\ exec[e].status \in {"failed", "blocked"} /\ exec[e].result = "authentication"

\* The task's stage ended with this classified authentication failure.
Interrupted(t, e) ==
  /\ task[t].state \in Stages
  /\ exec[e].task = t /\ RoleState[exec[e].role] = task[t].state
  /\ exec[e].status \in {"failed", "blocked"} /\ exec[e].result = "authentication"
  /\ In(t, Outstanding) = {}

CheckpointAuthentication(t, e, c, s, refs) ==
  /\ Interrupted(t, e)
  /\ ~Parked(t)
  /\ refs \subseteq FreshEvidence(t)
  /\ OpenOrNew(s, c)
  /\ session' = IF session[s].status = "unused"
                THEN [session EXCEPT ![s] = [status |-> "waiting", context |-> c]]
                ELSE session
  /\ checkpoint' = [checkpoint EXCEPT ![t] =
       [status |-> "waiting", context |-> c, session |-> s, stage |-> task[t].state,
        exec |-> e, head |-> task[t].head, refs |-> refs, attempts |-> 0]]
  /\ MoveTo(t, "authentication_required")
  /\ UNCHANGED <<failures, evidence, approvals, approving, ledgerVars, login>>

(* claim_authentication_login either elects the caller owner of the login  *)
(* or, when another login is in progress, only links the checkpoint to it. *)

\* What both demand of the caller's checkpoint, and the session they settle on.
MayClaim(t, s) ==
  LET mine == checkpoint[t].session
  IN /\ Parked(t)
     /\ task[t].state = "authentication_required"
     /\ session[mine].status \notin {"in_progress", "reconciliation_required", "succeeded"}
     /\ checkpoint[t].attempts < 2
     /\ IF session[mine].status = "waiting" THEN s = mine
        ELSE OpenOrNew(s, checkpoint[t].context)

\* Every waiting checkpoint of the context pays for the attempt, but only the
\* caller's own is linked to the session.
ClaimLogin(t, s) ==
  LET c == checkpoint[t].context
  IN /\ MayClaim(t, s)
     /\ session[s].status \in {"unused", "waiting"}
     /\ session' = [session EXCEPT ![s] = [status |-> "in_progress", context |-> c]]
     /\ checkpoint' = [u \in Tasks |->
          [checkpoint[u] EXCEPT
            !.session  = IF u = t THEN s ELSE @,
            !.attempts = IF checkpoint[u].context = c /\ checkpoint[u].status = "waiting"
                         THEN @ + 1 ELSE @]]
     /\ login' = [login EXCEPT ![s].owner = TRUE]
     /\ UNCHANGED storeVars

JoinLogin(t, s) ==
  /\ MayClaim(t, s)
  /\ session[s].status = "in_progress"
  /\ checkpoint' = [checkpoint EXCEPT ![t].session = s]
  /\ UNCHANGED <<storeVars, session, login>>

-----------------------------------------------------------------------------
(* The auth-login command between its claim and its report, and the CLI.   *)

\* guided_login found no usable login and starts the CLI.
LaunchLogin(s) ==
  /\ login[s].owner /\ login[s].process = "none"
  /\ login' = [login EXCEPT ![s].process = "running"]
  /\ UNCHANGED <<storeVars, session, checkpoint>>

\* The user is done with it, or its process group was terminated.
LoginEnds(s) ==
  /\ login[s].process = "running"
  /\ login' = [login EXCEPT ![s].process = "ended"]
  /\ UNCHANGED <<storeVars, session, checkpoint>>

\* The command is killed, or a store call of it raised.
OwnerDies(s) ==
  /\ login[s].owner
  /\ login' = [login EXCEPT ![s].owner = FALSE]
  /\ UNCHANGED <<storeVars, session, checkpoint>>

\* Mutant: the outcome is reported without looking at the process group.
CommandIsDone(s) == login[s].owner

\* The CLI has ended, or was never started: then the outcome is that of the
\* status probe.
LoginIsOver(s) == login[s].owner /\ login[s].process # "running"

\* finish_authentication_login, which the command calls unless termination is
\* uncertain.
FinishLogin(s, outcome) ==
  /\ LoginIsOver(s)
  /\ session[s].status = "in_progress"
  /\ session' = [session EXCEPT ![s].status = outcome]
  /\ MoveLinked(s, {"waiting"}, IF outcome = "succeeded" THEN "ready" ELSE "waiting")
  /\ login' = [login EXCEPT ![s].owner = FALSE]
  /\ UNCHANGED storeVars

(* reconcile_authentication_login, from the command itself or from         *)
(* auth-reconcile.  Its third resolution, still_running, changes nothing.  *)

Reconcile(s, status, checkpointStatus) ==
  /\ session[s].status \in {"in_progress", "reconciliation_required"}
  /\ session' = [session EXCEPT ![s].status = status]
  /\ MoveLinked(s, {"waiting", "login_reconciliation_required"}, checkpointStatus)

\* Mutant: the two statuses are swapped.
ReportSwapped(s) ==
  /\ login[s].owner
  /\ Reconcile(s, "login_reconciliation_required", "reconciliation_required")
  /\ login' = [login EXCEPT ![s].owner = FALSE]
  /\ UNCHANGED storeVars

\* The command gives up on a termination it cannot establish.
ReportUncertain(s) ==
  /\ login[s].owner
  /\ Reconcile(s, "reconciliation_required", "login_reconciliation_required")
  /\ login' = [login EXCEPT ![s].owner = FALSE]
  /\ UNCHANGED storeVars

\* auth-reconcile finds the session through a parked task.
ReconcileUncertain(t) ==
  /\ Parked(t)
  /\ Reconcile(checkpoint[t].session, "reconciliation_required",
               "login_reconciliation_required")
  /\ UNCHANGED <<storeVars, login>>

\* The operator's record is taken to be true: neither the command nor its CLI
\* is there any more.
ReconcileEnded(t) ==
  /\ Parked(t)
  /\ ~login[checkpoint[t].session].owner
  /\ login[checkpoint[t].session].process # "running"
  /\ Reconcile(checkpoint[t].session, "abandoned", "waiting")
  /\ UNCHANGED <<storeVars, login>>

-----------------------------------------------------------------------------
\* Mutant: only the referenced evidence is compared.
EvidenceUnchanged(t) == checkpoint[t].refs \subseteq FreshEvidence(t)

CandidateUnchanged(t) ==
  /\ task[t].head = checkpoint[t].head
  /\ checkpoint[t].refs \subseteq FreshEvidence(t)

\* Mutant: the stage is not the one in the checkpoint.
ResumeAnywhere(t) ==
  LET k == checkpoint[t]
  IN /\ task[t].state = "authentication_required"
     /\ k.status = "ready"
     /\ session[k.session].status = "succeeded"
     /\ CandidateUnchanged(t)
     /\ In(t, Outstanding) = {}
     /\ exec[k.exec].status \in {"failed", "blocked"}
     /\ checkpoint' = [checkpoint EXCEPT ![t].status = "resumed"]
     /\ \E stage \in Stages : MoveTo(t, stage)
     /\ UNCHANGED <<failures, evidence, approvals, approving, ledgerVars, session, login>>

ResumeAfterAuthentication(t) ==
  LET k == checkpoint[t]
  IN /\ task[t].state = "authentication_required"
     /\ k.status = "ready"
     /\ session[k.session].status = "succeeded"
     /\ CandidateUnchanged(t)
     /\ In(t, Outstanding) = {}
     /\ exec[k.exec].status \in {"failed", "blocked"}
     /\ checkpoint' = [checkpoint EXCEPT ![t].status = "resumed"]
     /\ MoveTo(t, k.stage)
     /\ UNCHANGED <<failures, evidence, approvals, approving, ledgerVars, session, login>>

\* What auth-login, its CLI and auth-reconcile do.
LoginActions ==
  \/ \E t \in Tasks, s \in Sessions : ClaimLogin(t, s) \/ JoinLogin(t, s)
  \/ \E s \in Sessions :
       \/ LaunchLogin(s)
       \/ LoginEnds(s)
       \/ OwnerDies(s)
       \/ \E outcome \in LoginOutcomes : FinishLogin(s, outcome)
       \/ ReportUncertain(s)
  \/ \E t \in Tasks : ReconcileUncertain(t) \/ ReconcileEnded(t)

AuthActions ==
  \/ \E t \in Tasks, e \in Executions, c \in Contexts, s \in Sessions :
       \E refs \in SUBSET EvidenceIds : CheckpointAuthentication(t, e, c, s, refs)
  \/ LoginActions
  \/ \E t \in Tasks : ResumeAfterAuthentication(t)

AuthNext == (StoreNext /\ UNCHANGED authVars) \/ AuthActions

AuthSpec == AuthInit /\ [][AuthNext]_allVars

-----------------------------------------------------------------------------
\* Where a task is between the building and the packaging of its candidate; a
\* parked one is where it was interrupted.
PipelineStage(t) ==
  LET s == IF task[t].state = "authentication_required" THEN checkpoint[t].stage
                                                        ELSE task[t].state
  IN CASE s \in {"implemented", "verifying"}        -> "built"
       [] s \in {"verified", "reviewing"}           -> "checked"
       [] s \in {"review_complete", "packaging"}    -> "reviewed"
       [] s = "awaiting_pr_approval"                -> "packaged"
       [] s = "blocked"                             ->
            IF BlockedByReview(t) THEN "held" ELSE "stopped"
       [] s = "cancelled"                           -> "stopped"
       [] OTHER                                     -> "building"

-----------------------------------------------------------------------------
(* Properties. *)

\* A login still in front of the user: its CLI runs, or the command that
\* claimed it is there and may yet start it.
Interactive(s) ==
  \/ login[s].process = "running"
  \/ login[s].owner /\ session[s].status = "in_progress"

\* Terminals, crashed commands and operators notwithstanding, a user never has
\* two interactive logins of one context at once, and there is never a login
\* without an open session that guards it (claim_authentication_login;
\* docs/authentication-recovery.md, "a second login is not started").
OneInteractiveLogin ==
  /\ \A s \in Sessions : Interactive(s) =>
       session[s].status \in {"in_progress", "reconciliation_required"}
  /\ \A s, u \in Sessions :
       Interactive(s) /\ Interactive(u) /\ session[s].context = session[u].context => s = u

\* The index one_active_authentication_session never has to refuse an insert.
OneOpenSession ==
  \A s, u \in Sessions :
    /\ session[s].status \in OpenStatuses /\ session[u].status \in OpenStatuses
    /\ session[s].context = session[u].context
    => s = u

\* A parked task has its checkpoint and nothing outstanding: waiting for a
\* login holds no call, no time and no slot (docs/controller-contracts.md,
\* Restart semantics), whatever the operator does to the rest of the store.
ParkedTaskIsIdle ==
  \A t \in Tasks : task[t].state = "authentication_required" =>
    Parked(t) /\ In(t, Outstanding) = {}

\* The status of a checkpoint agrees with the session it is linked to, however
\* the two were relinked: it is ready only after a verified login of its own
\* context and held only while the login's ownership is uncertain.
CheckpointMatchesSession ==
  \A t \in Tasks : Parked(t) =>
    LET s == session[checkpoint[t].session]
    IN /\ s.context = checkpoint[t].context
       /\ checkpoint[t].status = "ready" <=> s.status = "succeeded"
       /\ checkpoint[t].status = "login_reconciliation_required"
            => s.status = "reconciliation_required"

\* A parked task leaves only for cancelled, or for the stage it was
\* interrupted in, at the head it had, with the evidence it referred to still
\* current, and with its repairs and its budget.
ResumeRestoresStage ==
  [][\A t \in Tasks :
       /\ task[t].state = "authentication_required"
       /\ task'[t].state \notin {"authentication_required", "cancelled"}
       => /\ task'[t] = [task[t] EXCEPT !.state = checkpoint[t].stage]
          /\ task[t].head = checkpoint[t].head
          /\ \A v \in evidence : v.id \in checkpoint[t].refs =>
               ~v.stale /\ v.revision = checkpoint[t].head
          /\ budget'[t] = budget[t]]_allVars

\* docs/controller-contracts.md, Authentication session: "One active
\* interactive login per provider/account context, shared by waiting tasks".
\* A login that succeeds readies every task waiting for its context.
LoginIsShared ==
  [][\A s \in Sessions, t \in Tasks :
       /\ session[s].status = "in_progress" /\ session'[s].status = "succeeded"
       /\ task[t].state = "authentication_required"
       /\ checkpoint[t].status = "waiting" /\ checkpoint[t].context = session[s].context
       => checkpoint'[t].status = "ready"]_allVars
=============================================================================
