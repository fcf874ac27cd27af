------------------------- MODULE AuthRecoveryProofs -------------------------
(***************************************************************************)
(* Guided authentication recovery, for any tasks, contexts and sessions:   *)
(* the tables are typed, a checkpoint agrees with the session it is linked *)
(* to, a context has one open session and one login in front of the user,  *)
(* a parked task is idle, and what leaves the parking is what entered it.  *)
(*                                                                         *)
(* The argument goes in this order.  InStep says what links a checkpoint   *)
(* to its session, and is inductive by itself; with it OneOpenSession is.  *)
(* Guarded says that a command or a CLI is there only while its session is *)
(* open, and gives OneInteractiveLogin.  That a parked task is idle rests  *)
(* on the store alone; that it resumes what it was, on all of this and on  *)
(* evidence ids being unique.                                              *)
(***************************************************************************)
EXTENDS AuthRecovery, ExecutionLedgerProofs

-----------------------------------------------------------------------------
(* Types. *)

AuthTables ==
  /\ session \in [Sessions -> SessionRow]
  /\ checkpoint \in [Tasks -> CheckpointRow]
  /\ login \in [Sessions -> LoginRow]

\* The login commands touch nothing of the store.
LEMMA LoginsLeaveStore == LoginActions => UNCHANGED storeVars
BY DEF LoginActions, ClaimLogin, JoinLogin, LaunchLogin, LoginEnds, OwnerDies, FinishLogin,
       ReportUncertain, ReconcileUncertain, ReconcileEnded

\* What moving the linked checkpoints makes of each of them.
LEMMA MoveLinkedRow ==
  ASSUME AuthTables, NEW s, NEW From, NEW To \in ActiveStatuses, MoveLinked(s, From, To)
  PROVE  /\ checkpoint' \in [Tasks -> CheckpointRow]
         /\ \A u \in Tasks :
              /\ checkpoint'[u].session = checkpoint[u].session
              /\ checkpoint'[u].context = checkpoint[u].context
              /\ checkpoint'[u].stage = checkpoint[u].stage
              /\ checkpoint'[u].status =
                   IF checkpoint[u].session = s /\ checkpoint[u].status \in From
                   THEN To ELSE checkpoint[u].status
<1> DEFINE row(u) == IF u \in Linked(s) /\ checkpoint[u].status \in From
                     THEN [checkpoint[u] EXCEPT !.status = To] ELSE checkpoint[u]
<1>1. checkpoint' = [u \in Tasks |-> row(u)]
  BY DEF MoveLinked
<1>2. ASSUME NEW u \in Tasks
      PROVE  /\ row(u) \in CheckpointRow
             /\ row(u).session = checkpoint[u].session
             /\ row(u).context = checkpoint[u].context
             /\ row(u).stage = checkpoint[u].stage
             /\ row(u).status = IF checkpoint[u].session = s /\ checkpoint[u].status \in From
                                THEN To ELSE checkpoint[u].status
  <2>1. checkpoint[u] \in CheckpointRow /\ To \in ActiveStatuses
    BY DEF AuthTables
  <2> QED BY <2>1 DEF Linked, CheckpointRow
<1> HIDE DEF row
<1> QED BY <1>1, <1>2

\* The session a reconciliation or an outcome settles is one of the table.
LEMMA SettledSession ==
  ASSUME AuthTables, NEW s, NEW status \in OpenStatuses \cup LoginOutcomes \cup {"abandoned"},
         session' = [session EXCEPT ![s].status = status]
  PROVE  /\ session' \in [Sessions -> SessionRow]
         /\ \A u \in Sessions : /\ session'[u].context = session[u].context
                                /\ session'[u].status = IF u = s THEN status
                                                        ELSE session[u].status
BY DEF AuthTables, SessionRow

\* Every step of a login keeps the tables well-formed.
LEMMA LoginStepType ==
  ASSUME AuthTables, LoginActions
  PROVE  AuthTables'
<1>1. ASSUME NEW t \in Tasks, NEW s \in Sessions, ClaimLogin(t, s) PROVE AuthTables'
  <2> DEFINE c == checkpoint[t].context
             linked(u) == IF u = t THEN s ELSE checkpoint[u].session
             spent(u) == IF checkpoint[u].context = c /\ checkpoint[u].status = "waiting"
                         THEN checkpoint[u].attempts + 1 ELSE checkpoint[u].attempts
             row(u) == [checkpoint[u] EXCEPT !.session = linked(u), !.attempts = spent(u)]
  <2>1. checkpoint' = [u \in Tasks |-> row(u)]
    BY <1>1 DEF ClaimLogin
  <2>2. ASSUME NEW u \in Tasks PROVE row(u) \in CheckpointRow
    <3>1. checkpoint[u] \in CheckpointRow
      BY DEF AuthTables
    <3>2. linked(u) \in Sessions \cup {NoSession} /\ spent(u) \in Nat
      BY <3>1 DEF CheckpointRow
    <3> HIDE DEF linked, spent
    <3> QED BY <3>1, <3>2 DEF CheckpointRow
  <2>3. c \in Contexts \cup {NoContext}
    BY DEF AuthTables, CheckpointRow
  <2>4. session' \in [Sessions -> SessionRow] /\ login' \in [Sessions -> LoginRow]
    BY <1>1, <2>3 DEF ClaimLogin, AuthTables, SessionRow, OpenStatuses, LoginRow
  <2> HIDE DEF row
  <2> QED BY <2>1, <2>2, <2>4 DEF AuthTables
<1>2. ASSUME NEW t \in Tasks, NEW s \in Sessions, JoinLogin(t, s) PROVE AuthTables'
  BY <1>2 DEF JoinLogin, AuthTables, CheckpointRow
<1>3. ASSUME NEW s \in Sessions, LaunchLogin(s) \/ LoginEnds(s) \/ OwnerDies(s)
      PROVE  AuthTables'
  BY <1>3 DEF LaunchLogin, LoginEnds, OwnerDies, AuthTables, LoginRow
<1>4. ASSUME NEW s \in Sessions, NEW outcome \in LoginOutcomes, FinishLogin(s, outcome)
      PROVE  AuthTables'
  <2>1. login' \in [Sessions -> LoginRow]
    BY <1>4 DEF FinishLogin, AuthTables, LoginRow
  <2>2. session' \in [Sessions -> SessionRow]
    <3>1. session' = [session EXCEPT ![s].status = outcome]
      BY <1>4 DEF FinishLogin
    <3>2. outcome \in OpenStatuses \cup LoginOutcomes \cup {"abandoned"}
      OBVIOUS
    <3> QED BY <3>1, <3>2, SettledSession
  <2>3. (IF outcome = "succeeded" THEN "ready" ELSE "waiting") \in ActiveStatuses
    BY DEF ActiveStatuses
  <2>4. checkpoint' \in [Tasks -> CheckpointRow]
    BY <1>4, <2>3, MoveLinkedRow DEF FinishLogin
  <2> QED BY <2>1, <2>2, <2>4 DEF AuthTables
<1>5. ASSUME NEW s, NEW status \in {"reconciliation_required", "abandoned"},
             NEW to \in {"login_reconciliation_required", "waiting"}, Reconcile(s, status, to)
      PROVE  session' \in [Sessions -> SessionRow] /\ checkpoint' \in [Tasks -> CheckpointRow]
  <2>1. /\ session' = [session EXCEPT ![s].status = status]
        /\ MoveLinked(s, {"waiting", "login_reconciliation_required"}, to)
    BY <1>5 DEF Reconcile
  <2>2. status \in OpenStatuses \cup LoginOutcomes \cup {"abandoned"} /\ to \in ActiveStatuses
    BY DEF OpenStatuses, ActiveStatuses
  <2> QED BY <2>1, <2>2, SettledSession, MoveLinkedRow
<1>6. ASSUME NEW s \in Sessions, ReportUncertain(s) PROVE AuthTables'
  <2>1. login' \in [Sessions -> LoginRow]
    BY <1>6 DEF ReportUncertain, AuthTables, LoginRow
  <2> QED BY <1>5, <1>6, <2>1 DEF ReportUncertain, AuthTables
<1>7. ASSUME NEW t \in Tasks, ReconcileUncertain(t) \/ ReconcileEnded(t) PROVE AuthTables'
  BY <1>5, <1>7 DEF ReconcileUncertain, ReconcileEnded, AuthTables
<1> QED BY <1>1, <1>2, <1>3, <1>4, <1>6, <1>7 DEF LoginActions

\* So does a checkpoint, and so does a resumption.
LEMMA CheckpointType ==
  ASSUME TaskTypeOK, AuthTables, NEW t \in Tasks, NEW e \in Executions, NEW c \in Contexts,
         NEW s \in Sessions, NEW refs \in SUBSET EvidenceIds,
         CheckpointAuthentication(t, e, c, s, refs)
  PROVE  AuthTables'
<1>1. task[t].state \in Stages /\ task[t].head \in Revisions \cup {NoRevision}
  BY DEF CheckpointAuthentication, Interrupted, TaskTypeOK, TaskRow
<1>2. [status |-> "waiting", context |-> c, session |-> s, stage |-> task[t].state,
       exec |-> e, head |-> task[t].head, refs |-> refs, attempts |-> 0] \in CheckpointRow
  BY <1>1 DEF CheckpointRow, ActiveStatuses
<1>3. [status |-> "waiting", context |-> c] \in SessionRow
  BY DEF SessionRow, OpenStatuses
<1> QED BY <1>2, <1>3 DEF CheckpointAuthentication, AuthTables

LEMMA ResumeType ==
  ASSUME AuthTables, NEW t \in Tasks, ResumeAfterAuthentication(t)
  PROVE  AuthTables'
BY DEF ResumeAfterAuthentication, AuthTables, CheckpointRow

-----------------------------------------------------------------------------
(* Checkpoints and sessions stay in step. *)

\* The checkpoint of a parked task is linked to a session somebody opened for
\* its context, and the two statuses agree.
InStep(u) ==
  Parked(u) =>
    LET s == session[checkpoint[u].session]
    IN /\ checkpoint[u].session \in Sessions /\ checkpoint[u].stage \in Stages
       /\ s.status # "unused"
       /\ s.context = checkpoint[u].context
       /\ checkpoint[u].status = "ready" <=> s.status = "succeeded"
       /\ checkpoint[u].status = "login_reconciliation_required"
            => s.status = "reconciliation_required"

AllInStep == \A u \in Tasks : InStep(u)

\* A claim is the claim of a waiting checkpoint, for a session of its context.
LEMMA ClaimedSession ==
  ASSUME AuthTables, AllInStep, NEW t \in Tasks, NEW s \in Sessions, MayClaim(t, s)
  PROVE  /\ checkpoint[t].status = "waiting"
         /\ session[s].status # "unused" => session[s].context = checkpoint[t].context
         /\ session[s].status = "unused" =>
              OpenSessions(checkpoint[t].context) = {}
<1>1. InStep(t) /\ Parked(t)
  BY DEF AllInStep, MayClaim
<1>2. checkpoint[t].status = "waiting"
  BY <1>1 DEF MayClaim, InStep, Parked, ActiveStatuses
<1>3. CASE session[checkpoint[t].session].status = "waiting"
  BY <1>1, <1>2, <1>3 DEF MayClaim, InStep
<1>4. CASE session[checkpoint[t].session].status # "waiting"
  <2>1. OpenOrNew(s, checkpoint[t].context)
    BY <1>4 DEF MayClaim
  <2>2. s \in OpenSessions(checkpoint[t].context) =>
          session[s].context = checkpoint[t].context /\ session[s].status \in OpenStatuses
    BY DEF OpenSessions
  <2> QED BY <1>2, <2>1, <2>2 DEF OpenOrNew, OpenStatuses
<1> QED BY <1>3, <1>4

\* A session that moves to a status other than succeeded keeps in step with
\* the checkpoints that move with it, and so does one that succeeds with those
\* that become ready.
LEMMA SettledInStep ==
  ASSUME AuthTables, AllInStep, NEW s,
         NEW status \in {"succeeded", "failed", "reconciliation_required", "abandoned"},
         NEW From \in SUBSET ActiveStatuses, NEW To \in ActiveStatuses,
         session[s].status \in {"in_progress", "reconciliation_required"},
         "waiting" \in From,
         session[s].status = "reconciliation_required" => "login_reconciliation_required" \in From,
         To = "ready" <=> status = "succeeded",
         To = "login_reconciliation_required" => status = "reconciliation_required",
         session' = [session EXCEPT ![s].status = status],
         MoveLinked(s, From, To)
  PROVE  AllInStep'
<1> SUFFICES ASSUME NEW u \in Tasks, Parked(u)' PROVE InStep(u)'
  BY DEF AllInStep, InStep
<1>1. /\ checkpoint'[u].session = checkpoint[u].session
      /\ checkpoint'[u].context = checkpoint[u].context
      /\ checkpoint'[u].stage = checkpoint[u].stage
      /\ checkpoint'[u].status =
           IF checkpoint[u].session = s /\ checkpoint[u].status \in From
           THEN To ELSE checkpoint[u].status
  BY MoveLinkedRow
<1>2. status \in OpenStatuses \cup LoginOutcomes \cup {"abandoned"}
  BY DEF OpenStatuses, LoginOutcomes
<1>3. \A v \in Sessions : /\ session'[v].context = session[v].context
                          /\ session'[v].status = IF v = s THEN status ELSE session[v].status
  BY <1>2, SettledSession
<1>4. CASE checkpoint[u].session # s
  <2>1. Parked(u) /\ InStep(u)
    BY <1>1, <1>4 DEF Parked, AllInStep
  <2> QED BY <1>1, <1>3, <1>4, <2>1 DEF InStep
<1>5. CASE checkpoint[u].session = s /\ checkpoint[u].status \in From
  <2>1. Parked(u)
    BY <1>5 DEF Parked
  <2>2. InStep(u) /\ s \in Sessions /\ checkpoint'[u].status = To
    BY <1>1, <1>5, <2>1 DEF AllInStep, InStep
  <2>3. session'[s].status = status /\ session'[s].context = session[s].context
    BY <1>3, <2>2
  <2> QED BY <1>1, <1>5, <2>1, <2>2, <2>3 DEF InStep
<1>6. CASE checkpoint[u].session = s /\ checkpoint[u].status \notin From
  <2>1. Parked(u) /\ InStep(u)
    BY <1>1, <1>6 DEF Parked, AllInStep
  <2> QED BY <1>6, <2>1 DEF InStep, Parked, ActiveStatuses
<1> QED BY <1>4, <1>5, <1>6

\* Resuming takes a checkpoint out, and changes no other.
LEMMA ResumeInStep ==
  ASSUME AuthTables, AllInStep, NEW t \in Tasks, ResumeAfterAuthentication(t)
  PROVE  AllInStep'
<1> SUFFICES ASSUME NEW u \in Tasks, Parked(u)' PROVE InStep(u)'
  BY DEF AllInStep, InStep
<1>1. checkpoint' = [checkpoint EXCEPT ![t].status = "resumed"] /\ session' = session
  BY DEF ResumeAfterAuthentication
<1>2. u # t
  BY <1>1 DEF Parked, ActiveStatuses, AuthTables, CheckpointRow
<1>3. checkpoint'[u] = checkpoint[u]
  BY <1>1, <1>2 DEF AuthTables
<1> QED BY <1>1, <1>3 DEF AllInStep, InStep, Parked

\* A new checkpoint starts in step with the session it finds or opens.
LEMMA CheckpointInStep ==
  ASSUME AuthTables, AllInStep, NEW t \in Tasks, NEW e \in Executions, NEW c \in Contexts,
         NEW s \in Sessions, NEW refs \in SUBSET EvidenceIds,
         CheckpointAuthentication(t, e, c, s, refs)
  PROVE  AllInStep'
<1> DEFINE row == [status |-> "waiting", context |-> c, session |-> s, stage |-> task[t].state,
                   exec |-> e, head |-> task[t].head, refs |-> refs, attempts |-> 0]
           opened == [status |-> "waiting", context |-> c]
<1>1. /\ checkpoint' = [checkpoint EXCEPT ![t] = row] /\ login' = login
      /\ session' = IF session[s].status = "unused" THEN [session EXCEPT ![s] = opened]
                                                    ELSE session
      /\ OpenOrNew(s, c) /\ task[t].state \in Stages
  BY DEF CheckpointAuthentication, Interrupted
<1>2. \A u \in Tasks : InStep(u)
  BY DEF AllInStep
<1>3. checkpoint'[t] = row /\ \A u \in Tasks \ {t} : checkpoint'[u] = checkpoint[u]
  BY <1>1 DEF AuthTables
<1>4. ASSUME session[s].status = "unused"
      PROVE  session'[s] = opened /\ \A v \in Sessions \ {s} : session'[v] = session[v]
  BY <1>1, <1>4 DEF AuthTables
<1>5. ASSUME session[s].status # "unused"
      PROVE  session' = session /\ session[s].context = c /\ session[s].status \in OpenStatuses
  BY <1>1, <1>5 DEF OpenOrNew, OpenSessions
<1>6. session'[s].context = c /\ session'[s].status \in OpenStatuses
  BY <1>4, <1>5 DEF OpenStatuses
<1>7. InStep(t)'
  BY <1>1, <1>3, <1>6 DEF InStep, OpenStatuses
<1>8. ASSUME NEW u \in Tasks \ {t} PROVE InStep(u)'
  <2> SUFFICES ASSUME Parked(u)' PROVE InStep(u)'
    BY DEF InStep
  <2>1. checkpoint'[u] = checkpoint[u] /\ InStep(u) /\ Parked(u)
    BY <1>2, <1>3 DEF Parked
  <2>2. session'[checkpoint[u].session] = session[checkpoint[u].session]
    BY <1>4, <1>5, <2>1 DEF InStep
  <2> QED BY <2>1, <2>2 DEF InStep
<1> QED BY <1>7, <1>8 DEF AllInStep

\* A login that is claimed or joined takes the caller's checkpoint along and
\* leaves every other one in step.
LEMMA ClaimInStep ==
  ASSUME AuthTables, AllInStep, NEW t \in Tasks, NEW s \in Sessions,
         ClaimLogin(t, s) \/ JoinLogin(t, s)
  PROVE  AllInStep'
<1> SUFFICES ASSUME NEW u \in Tasks, Parked(u)' PROVE InStep(u)'
  BY DEF AllInStep, InStep
<1> DEFINE c == checkpoint[t].context
<1>1. /\ MayClaim(t, s) /\ Parked(t)
      /\ checkpoint[t].status = "waiting"
      /\ session[s].status # "unused" => session[s].context = c
  BY ClaimedSession DEF ClaimLogin, JoinLogin, MayClaim
<1>2. /\ checkpoint'[u].status = checkpoint[u].status
      /\ checkpoint'[u].context = checkpoint[u].context
      /\ checkpoint'[u].stage = checkpoint[u].stage
      /\ checkpoint'[u].session = IF u = t THEN s ELSE checkpoint[u].session
  <2>1. checkpoint[u] \in CheckpointRow
    BY DEF AuthTables
  <2>2. CASE JoinLogin(t, s)
    BY <2>1, <2>2 DEF JoinLogin, AuthTables, CheckpointRow
  <2>3. CASE ClaimLogin(t, s)
    <3>1. \E spent : checkpoint'[u] =
            [checkpoint[u] EXCEPT !.session = IF u = t THEN s ELSE @, !.attempts = spent]
      BY <2>3 DEF ClaimLogin
    <3> QED BY <2>1, <3>1 DEF CheckpointRow
  <2> QED BY <2>2, <2>3
<1>3. Parked(u) /\ InStep(u)
  BY <1>2 DEF Parked, AllInStep
<1>4. CASE JoinLogin(t, s)
  BY <1>1, <1>2, <1>3, <1>4 DEF JoinLogin, InStep
<1>5. CASE ClaimLogin(t, s)
  <2>1. /\ session[s].status \in {"unused", "waiting"}
        /\ session'[s] = [status |-> "in_progress", context |-> c]
        /\ \A v \in Sessions \ {s} : session'[v] = session[v]
    BY <1>5 DEF ClaimLogin, AuthTables
  <2>2. CASE u = t
    BY <1>1, <1>2, <1>3, <2>1, <2>2 DEF InStep
  <2>3. CASE u # t /\ checkpoint[u].session = s
    BY <1>1, <1>2, <1>3, <2>1, <2>3 DEF InStep, Parked, ActiveStatuses
  <2>4. CASE u # t /\ checkpoint[u].session # s
    BY <1>2, <1>3, <2>1, <2>4 DEF InStep
  <2> QED BY <2>2, <2>3, <2>4
<1> QED BY <1>4, <1>5

\* What the commands, the CLI and the operator do keeps every checkpoint in step.
LEMMA LoginInStep ==
  ASSUME AuthTables, AllInStep, LoginActions
  PROVE  AllInStep'
<1>1. ASSUME UNCHANGED <<session, checkpoint>> PROVE AllInStep'
  BY <1>1 DEF AllInStep, InStep, Parked
<1>2. ASSUME NEW s \in Sessions, LaunchLogin(s) \/ LoginEnds(s) \/ OwnerDies(s)
      PROVE  AllInStep'
  BY <1>1, <1>2 DEF LaunchLogin, LoginEnds, OwnerDies
<1>3. ASSUME NEW s \in Sessions, NEW outcome \in LoginOutcomes, FinishLogin(s, outcome)
      PROVE  AllInStep'
  <2> DEFINE to == IF outcome = "succeeded" THEN "ready" ELSE "waiting"
  <2>1. /\ session[s].status = "in_progress" /\ MoveLinked(s, {"waiting"}, to)
        /\ session' = [session EXCEPT ![s].status = outcome]
    BY <1>3 DEF FinishLogin
  <2>2. /\ to \in ActiveStatuses /\ {"waiting"} \in SUBSET ActiveStatuses
        /\ outcome \in {"succeeded", "failed", "reconciliation_required", "abandoned"}
        /\ to = "ready" <=> outcome = "succeeded"
        /\ to # "login_reconciliation_required"
    BY DEF ActiveStatuses, LoginOutcomes
  <2> HIDE DEF to
  <2> QED BY <2>1, <2>2, SettledInStep
<1>4. ASSUME NEW s, Reconcile(s, "reconciliation_required", "login_reconciliation_required")
             \/ Reconcile(s, "abandoned", "waiting")
      PROVE  AllInStep'
  <2> DEFINE held == {"waiting", "login_reconciliation_required"}
  <2>1. session[s].status \in {"in_progress", "reconciliation_required"}
    BY <1>4 DEF Reconcile
  <2>2. held \in SUBSET ActiveStatuses
    BY DEF ActiveStatuses
  <2>3. \A a, b : Reconcile(s, a, b) =>
          MoveLinked(s, held, b) /\ session' = [session EXCEPT ![s].status = a]
    BY DEF Reconcile
  <2>4. "waiting" \in held /\ "login_reconciliation_required" \in held
    OBVIOUS
  <2>5. "waiting" \in ActiveStatuses /\ "login_reconciliation_required" \in ActiveStatuses
    BY DEF ActiveStatuses
  <2> HIDE DEF held
  <2> QED BY <1>4, <2>1, <2>2, <2>3, <2>4, <2>5, SettledInStep
<1>5. ASSUME NEW s \in Sessions, ReportUncertain(s) PROVE AllInStep'
  BY <1>4, <1>5 DEF ReportUncertain
<1>6. ASSUME NEW t \in Tasks, ReconcileUncertain(t) \/ ReconcileEnded(t) PROVE AllInStep'
  BY <1>4, <1>6 DEF ReconcileUncertain, ReconcileEnded
<1> QED BY <1>2, <1>3, <1>5, <1>6, ClaimInStep DEF LoginActions

-----------------------------------------------------------------------------
(* One open session of a context, and one login behind it. *)

\* Opening a session where the context has none leaves it with one; a session
\* of the context that is open already may be claimed.
LEMMA OpenedSession ==
  ASSUME AuthTables, OneOpenSession, NEW s \in Sessions, NEW c, NEW status \in OpenStatuses,
         session[s].status \in OpenStatuses => session[s].context = c,
         session[s].status \notin OpenStatuses => OpenSessions(c) = {},
         session' = [session EXCEPT ![s] = [status |-> status, context |-> c]]
  PROVE  OneOpenSession'
<1>1. /\ session'[s].status = status /\ session'[s].context = c
      /\ \A v \in Sessions \ {s} : session'[v] = session[v]
  BY DEF AuthTables
<1>2. \A v \in Sessions \ {s} :
        session[v].status \in OpenStatuses => session[v].context # c
  BY DEF OneOpenSession, OpenSessions
<1> QED BY <1>1, <1>2 DEF OneOpenSession

\* A session that was open may stay so or be settled.
LEMMA KeptSession ==
  ASSUME AuthTables, OneOpenSession, NEW s,
         NEW status \in OpenStatuses \cup LoginOutcomes \cup {"abandoned"},
         session[s].status \in OpenStatuses,
         session' = [session EXCEPT ![s].status = status]
  PROVE  OneOpenSession'
<1>1. \A v \in Sessions : /\ session'[v].context = session[v].context
                          /\ session'[v].status = IF v = s THEN status ELSE session[v].status
  BY SettledSession
<1>2. \A v \in Sessions : session'[v].status \in OpenStatuses => session[v].status \in OpenStatuses
  BY <1>1
<1> QED BY <1>1, <1>2 DEF OneOpenSession

\* No step opens a second session of a context.
LEMMA OpenSessionStep ==
  ASSUME AuthTables, AllInStep, OneOpenSession, [AuthNext]_allVars
  PROVE  OneOpenSession'
<1>1. ASSUME UNCHANGED session PROVE OneOpenSession'
  BY <1>1 DEF OneOpenSession
<1>2. ASSUME NEW t \in Tasks, NEW e \in Executions, NEW c \in Contexts, NEW s \in Sessions,
             NEW refs \in SUBSET EvidenceIds, CheckpointAuthentication(t, e, c, s, refs)
      PROVE  OneOpenSession'
  <2>1. CASE session[s].status # "unused"
    BY <1>1, <1>2, <2>1 DEF CheckpointAuthentication
  <2>2. CASE session[s].status = "unused"
    <3>1. session' = [session EXCEPT ![s] = [status |-> "waiting", context |-> c]]
      BY <1>2, <2>2 DEF CheckpointAuthentication
    <3>2. session[s].status \notin OpenStatuses /\ OpenSessions(c) = {}
      BY <1>2, <2>2 DEF CheckpointAuthentication, OpenOrNew, OpenSessions, OpenStatuses
    <3>3. "waiting" \in OpenStatuses
      BY DEF OpenStatuses
    <3> QED BY <3>1, <3>2, <3>3, OpenedSession
  <2> QED BY <2>1, <2>2
<1>3. ASSUME NEW t \in Tasks, NEW s \in Sessions, ClaimLogin(t, s) PROVE OneOpenSession'
  <2> DEFINE c == checkpoint[t].context
  <2>1. /\ session' = [session EXCEPT ![s] = [status |-> "in_progress", context |-> c]]
        /\ session[s].status \in {"unused", "waiting"} /\ MayClaim(t, s)
    BY <1>3 DEF ClaimLogin
  <2>2. /\ session[s].status # "unused" => session[s].context = c
        /\ session[s].status = "unused" => OpenSessions(c) = {}
    BY <2>1, ClaimedSession
  <2>3. /\ session[s].status \in OpenStatuses => session[s].context = c
        /\ session[s].status \notin OpenStatuses => OpenSessions(c) = {}
        /\ "in_progress" \in OpenStatuses
    BY <2>1, <2>2 DEF OpenStatuses
  <2> HIDE DEF c
  <2> QED BY <2>1, <2>3, OpenedSession
<1>4. ASSUME NEW s \in Sessions, NEW outcome \in LoginOutcomes, FinishLogin(s, outcome)
      PROVE  OneOpenSession'
  <2>1. /\ session' = [session EXCEPT ![s].status = outcome]
        /\ session[s].status \in OpenStatuses
        /\ outcome \in OpenStatuses \cup LoginOutcomes \cup {"abandoned"}
    BY <1>4 DEF FinishLogin, OpenStatuses
  <2> QED BY <2>1, KeptSession
<1>5. ASSUME NEW s, NEW status \in {"reconciliation_required", "abandoned"}, NEW to,
             Reconcile(s, status, to)
      PROVE  OneOpenSession'
  <2>1. /\ session' = [session EXCEPT ![s].status = status]
        /\ session[s].status \in OpenStatuses
        /\ status \in OpenStatuses \cup LoginOutcomes \cup {"abandoned"}
    BY <1>5 DEF Reconcile, OpenStatuses
  <2> QED BY <2>1, KeptSession
<1>6. ASSUME NEW s \in Sessions, ReportUncertain(s) PROVE OneOpenSession'
  BY <1>5, <1>6 DEF ReportUncertain
<1>7. ASSUME NEW t \in Tasks, ReconcileUncertain(t) \/ ReconcileEnded(t) PROVE OneOpenSession'
  BY <1>5, <1>7 DEF ReconcileUncertain, ReconcileEnded
<1>8. ASSUME NEW t \in Tasks, NEW s \in Sessions, JoinLogin(t, s) PROVE OneOpenSession'
  BY <1>1, <1>8 DEF JoinLogin
<1>9. ASSUME NEW s \in Sessions, LaunchLogin(s) \/ LoginEnds(s) \/ OwnerDies(s)
      PROVE  OneOpenSession'
  BY <1>1, <1>9 DEF LaunchLogin, LoginEnds, OwnerDies
<1>10. ASSUME NEW t \in Tasks, ResumeAfterAuthentication(t) PROVE OneOpenSession'
  BY <1>1, <1>10 DEF ResumeAfterAuthentication
<1>11. LoginActions => OneOpenSession'
  BY <1>3, <1>4, <1>6, <1>7, <1>8, <1>9 DEF LoginActions
<1>12. UNCHANGED authVars \/ UNCHANGED allVars => OneOpenSession'
  BY <1>1 DEF authVars, allVars
<1> QED BY <1>2, <1>10, <1>11, <1>12 DEF AuthNext, AuthActions

\* While the command that claimed a session is there, or its CLI, the session
\* is open and may not be claimed again.
Guarded ==
  \A s \in Sessions : login[s].owner \/ login[s].process = "running" =>
    session[s].status \in {"in_progress", "reconciliation_required"}

LEMMA GuardedStep ==
  ASSUME AuthTables, Guarded, [AuthNext]_allVars
  PROVE  Guarded'
<1> SUFFICES ASSUME NEW v \in Sessions, (login[v].owner \/ login[v].process = "running")'
             PROVE  session'[v].status \in {"in_progress", "reconciliation_required"}
  BY DEF Guarded
<1> DEFINE Goal == session'[v].status \in {"in_progress", "reconciliation_required"}
           Before == session[v].status \in {"in_progress", "reconciliation_required"}
<1>1. login[v] \in LoginRow /\ session[v] \in SessionRow
  BY DEF AuthTables
<1>2. login' = login => Before
  BY DEF Guarded
<1>3. ASSUME NEW s \in Sessions, LaunchLogin(s) \/ LoginEnds(s) \/ OwnerDies(s) PROVE Goal
  <2>1. login[v].owner \/ login[v].process = "running"
    BY <1>1, <1>3 DEF LaunchLogin, LoginEnds, OwnerDies, AuthTables, LoginRow
  <2> QED BY <1>3, <2>1 DEF Guarded, LaunchLogin, LoginEnds, OwnerDies
<1>4. ASSUME NEW t \in Tasks, NEW s \in Sessions, ClaimLogin(t, s) PROVE Goal
  <2>1. CASE v = s
    BY <1>4, <2>1 DEF ClaimLogin, AuthTables
  <2>2. CASE v # s
    <3>1. login'[v] = login[v] /\ session'[v] = session[v]
      BY <1>4, <2>2 DEF ClaimLogin, AuthTables
    <3> QED BY <3>1 DEF Guarded
  <2> QED BY <2>1, <2>2
<1>5. ASSUME NEW s \in Sessions, NEW outcome \in LoginOutcomes, FinishLogin(s, outcome) PROVE Goal
  <2>1. CASE v = s
    <3>1. ~login'[v].owner /\ login'[v].process = login[v].process
      BY <1>1, <1>5, <2>1 DEF FinishLogin, AuthTables, LoginRow
    <3> QED BY <1>5, <2>1, <3>1 DEF FinishLogin, LoginIsOver
  <2>2. CASE v # s
    <3>1. login'[v] = login[v] /\ session'[v] = session[v]
      BY <1>5, <2>2 DEF FinishLogin, AuthTables
    <3> QED BY <3>1 DEF Guarded
  <2> QED BY <2>1, <2>2
<1>6. ASSUME NEW s, NEW to, Reconcile(s, "reconciliation_required", to), Before PROVE Goal
  <2>1. session'[v].status = IF v = s THEN "reconciliation_required" ELSE session[v].status
    BY <1>1, <1>6 DEF Reconcile, AuthTables, SessionRow
  <2> QED BY <1>6, <2>1
<1>7. ASSUME NEW s \in Sessions, ReportUncertain(s) PROVE Goal
  <2>1. login[v].owner \/ login[v].process = "running"
    BY <1>1, <1>7 DEF ReportUncertain, AuthTables, LoginRow
  <2> QED BY <1>6, <1>7, <2>1 DEF ReportUncertain, Guarded
<1>8. ASSUME NEW t \in Tasks, ReconcileUncertain(t) PROVE Goal
  BY <1>2, <1>6, <1>8 DEF ReconcileUncertain
<1>9. ASSUME NEW t \in Tasks, ReconcileEnded(t) PROVE Goal
  <2>1. v # checkpoint[t].session
    BY <1>9 DEF ReconcileEnded
  <2>2. session'[v] = session[v]
    BY <1>9, <2>1 DEF ReconcileEnded, Reconcile, AuthTables
  <2> QED BY <1>2, <1>9, <2>2 DEF ReconcileEnded
<1>10. ASSUME NEW t \in Tasks, NEW s \in Sessions, JoinLogin(t, s) PROVE Goal
  BY <1>2, <1>10 DEF JoinLogin
<1>11. ASSUME NEW t \in Tasks, NEW e \in Executions, NEW c \in Contexts, NEW s \in Sessions,
              NEW refs \in SUBSET EvidenceIds, CheckpointAuthentication(t, e, c, s, refs)
       PROVE  Goal
  <2>1. Before
    BY <1>2, <1>11 DEF CheckpointAuthentication
  <2> QED BY <1>11, <2>1 DEF CheckpointAuthentication, AuthTables
<1>12. ASSUME NEW t \in Tasks, ResumeAfterAuthentication(t) PROVE Goal
  BY <1>2, <1>12 DEF ResumeAfterAuthentication
<1>13. LoginActions => Goal
  BY <1>3, <1>4, <1>5, <1>7, <1>8, <1>9, <1>10 DEF LoginActions
<1>14. UNCHANGED authVars \/ UNCHANGED allVars => Goal
  BY <1>2 DEF authVars, allVars
<1> QED BY <1>11, <1>12, <1>13, <1>14 DEF AuthNext, AuthActions

\* Two interactive logins of one context would be two open sessions of it.
LEMMA GuardedLogins ==
  ASSUME AuthTables, Guarded, OneOpenSession
  PROVE  OneInteractiveLogin
<1>1. ASSUME NEW s \in Sessions, Interactive(s)
      PROVE  session[s].status \in {"in_progress", "reconciliation_required"}
  BY <1>1 DEF Guarded, Interactive
<1> QED BY <1>1 DEF OneInteractiveLogin, OneOpenSession, OpenStatuses

-----------------------------------------------------------------------------
(* A parked task is idle. *)

\* Only a checkpoint parks a task.
LEMMA StoreParksNoTask ==
  ASSUME TaskTypeOK, [StoreNext]_storeVars, NEW t \in Tasks,
         task'[t].state = "authentication_required"
  PROVE  task[t].state = "authentication_required"
<1>1. \A s \in States : <<s, "authentication_required">> \notin Transitions
  BY DEF Transitions, Onward
<1>2. task[t].state \in States
  BY DEF TaskTypeOK, TaskRow
<1>3. ~Moved(t)
  BY <1>1, <1>2 DEF Moved
<1> QED BY <1>3, HowTasksMove DEF Kept, Created, Stopped, Recovered

\* The calls of a parked task only become fewer.
LEMMA ParkedLaunchesNothing ==
  ASSUME LedgerTypeOK, [StoreNext]_storeVars, NEW t \in Tasks,
         task[t].state = "authentication_required", In(t, Outstanding) = {}
  PROVE  In(t, Outstanding)' = {}
<1> SUFFICES ASSUME NEW f \in Executions, exec[f].task # t \/ exec[f].status \notin Outstanding
             PROVE  exec'[f].task # t \/ exec'[f].status \notin Outstanding
  BY DEF In
<1> DEFINE Out(row) == row.task # t \/ row.status \notin Outstanding
<1>1. ASSUME exec'[f] = exec[f] PROVE Out(exec'[f])
  BY <1>1
<1>2. ASSUME NEW u \in Tasks, NEW e \in Executions, NEW role \in Roles, NEW timeout \in Timeouts,
             ReserveExecution(u, e, role, timeout)
      PROVE  Out(exec'[f])
  <2>1. RoleState[role] # "authentication_required"
    BY DEF RoleState, Roles
  <2>2. u # t
    BY <1>2, <2>1 DEF ReserveExecution, CallAllowed
  <2>3. CASE f # e
    BY <1>1, <1>2, <2>3 DEF ReserveExecution, LedgerTypeOK
  <2>4. CASE f = e
    BY <1>2, <2>2, <2>4 DEF ReserveExecution, LedgerTypeOK
  <2> QED BY <2>3, <2>4
<1>3. ASSUME NEW e \in Executions, NEW row,
             exec[e].status \in Outstanding, row.task = exec[e].task,
             exec' = [exec EXCEPT ![e] = row]
      PROVE  Out(exec'[f])
  <2>1. CASE f # e
    BY <1>1, <1>3, <2>1 DEF LedgerTypeOK
  <2>2. CASE f = e
    BY <1>3, <2>2 DEF LedgerTypeOK
  <2> QED BY <2>1, <2>2
<1>4. \A e \in Executions : exec[e].status \in Outstanding => exec[e] \in ExecRow
  BY UsedRow DEF Outstanding, Active
<1>5. ASSUME NEW e \in Executions, StartExecution(e) \/ RequestCancellation(e)
      PROVE  Out(exec'[f])
  <2>1. PICK status : exec' = [exec EXCEPT ![e] = [exec[e] EXCEPT !.status = status]]
    BY <1>5 DEF StartExecution, RequestCancellation
  <2>2. exec[e].status \in Outstanding
    BY <1>5 DEF StartExecution, RequestCancellation, Outstanding, Active
  <2>3. [exec[e] EXCEPT !.status = status].task = exec[e].task
    BY <1>4, <2>2 DEF ExecRow
  <2> QED BY <1>3, <2>1, <2>2, <2>3
<1>6. ASSUME NEW e \in Executions, NEW report \in Reports, FinishExecution(e, report)
      PROVE  Out(exec'[f])
  <2> DEFINE row == [exec[e] EXCEPT !.status = report.status, !.elapsed = report.elapsed,
                                    !.result = report.result]
  <2>1. exec' = [exec EXCEPT ![e] = row] /\ exec[e].status \in Outstanding
    BY <1>6 DEF FinishExecution, Outstanding
  <2>2. row.task = exec[e].task
    BY <1>4, <2>1 DEF ExecRow
  <2> HIDE DEF row
  <2> QED BY <1>3, <2>1, <2>2
<1>7. ASSUME NEW e \in Executions, NEW resolution \in Resolutions,
             ResolveUncertainty(e, resolution)
      PROVE  Out(exec'[f])
  <2> DEFINE row == [exec[e] EXCEPT !.status = resolution]
  <2>1. exec' = [exec EXCEPT ![e] = row] /\ exec[e].status \in Outstanding
    BY <1>7 DEF ResolveUncertainty, Outstanding
  <2>2. row.task = exec[e].task
    BY <1>4, <2>1 DEF ExecRow
  <2> HIDE DEF row
  <2> QED BY <1>3, <2>1, <2>2
<1>8. ASSUME ReconcileActive PROVE Out(exec'[f])
  <2>1. CASE f \in LostCalls
    <3>1. exec[f].status \in Outstanding /\ exec'[f] = [exec[f] EXCEPT !.status = "reconciliation_required"]
      BY <1>8, <2>1 DEF ReconcileActive, LostCalls, Outstanding
    <3>2. exec[f] \in ExecRow
      BY <1>4, <3>1
    <3> QED BY <3>1, <3>2 DEF ExecRow
  <2>2. CASE f \notin LostCalls
    BY <1>1, <1>8, <2>2 DEF ReconcileActive
  <2> QED BY <2>1, <2>2
<1>9. ASSUME NEW u \in Tasks, NEW e \in Executions, NEW v \in evidence,
             RecoverReviewFormat(u, e, v)
      PROVE  Out(exec'[f])
  BY <1>1, <1>9 DEF RecoverReviewFormat
<1>10. UNCHANGED ledgerVars \/ UNCHANGED storeVars => Out(exec'[f])
  BY <1>1 DEF ledgerVars, storeVars
<1> QED BY <1>2, <1>5, <1>6, <1>7, <1>8, <1>9, <1>10 DEF StoreNext, LedgerNext

\* A login leaves every checkpoint of a parked task one of a parked task.
LEMMA LoginKeepsParked ==
  ASSUME AuthTables, LoginActions, NEW u \in Tasks, Parked(u)
  PROVE  Parked(u)'
<1>1. ASSUME NEW s, NEW From, NEW To \in ActiveStatuses, MoveLinked(s, From, To)
      PROVE  Parked(u)'
  BY <1>1, MoveLinkedRow DEF Parked
<1>2. ASSUME NEW t \in Tasks, NEW s \in Sessions, ClaimLogin(t, s) PROVE Parked(u)'
  <2>1. \E linked, spent : checkpoint'[u] =
          [checkpoint[u] EXCEPT !.session = linked, !.attempts = spent]
    BY <1>2 DEF ClaimLogin
  <2>2. checkpoint[u] \in CheckpointRow
    BY DEF AuthTables
  <2> QED BY <2>1, <2>2 DEF Parked, CheckpointRow
<1>3. ASSUME NEW t \in Tasks, NEW s \in Sessions, JoinLogin(t, s) PROVE Parked(u)'
  BY <1>3 DEF JoinLogin, Parked, AuthTables, CheckpointRow
<1>4. ASSUME NEW s \in Sessions, LaunchLogin(s) \/ LoginEnds(s) \/ OwnerDies(s)
      PROVE  Parked(u)'
  BY <1>4 DEF LaunchLogin, LoginEnds, OwnerDies, Parked
<1>5. ASSUME NEW s \in Sessions, NEW outcome \in LoginOutcomes, FinishLogin(s, outcome)
      PROVE  Parked(u)'
  <2>1. (IF outcome = "succeeded" THEN "ready" ELSE "waiting") \in ActiveStatuses
    BY DEF ActiveStatuses
  <2> QED BY <1>1, <1>5, <2>1 DEF FinishLogin
<1>6. ASSUME NEW s, NEW status, NEW to \in ActiveStatuses, Reconcile(s, status, to)
      PROVE  Parked(u)'
  BY <1>1, <1>6 DEF Reconcile
<1>7. "login_reconciliation_required" \in ActiveStatuses /\ "waiting" \in ActiveStatuses
  BY DEF ActiveStatuses
<1>8. ASSUME NEW s \in Sessions, ReportUncertain(s) PROVE Parked(u)'
  BY <1>6, <1>7, <1>8 DEF ReportUncertain
<1>9. ASSUME NEW t \in Tasks, ReconcileUncertain(t) \/ ReconcileEnded(t) PROVE Parked(u)'
  BY <1>6, <1>7, <1>9 DEF ReconcileUncertain, ReconcileEnded
<1> QED BY <1>2, <1>3, <1>4, <1>5, <1>8, <1>9 DEF LoginActions

\* Every step keeps parked tasks idle.
LEMMA ParkedStep ==
  ASSUME TaskTypeOK, LedgerTypeOK, AuthTables, ParkedTaskIsIdle, [AuthNext]_allVars
  PROVE  ParkedTaskIsIdle'
<1> SUFFICES ASSUME NEW t \in Tasks, task'[t].state = "authentication_required"
             PROVE  Parked(t)' /\ In(t, Outstanding)' = {}
  BY DEF ParkedTaskIsIdle
<1> DEFINE Goal == Parked(t)' /\ In(t, Outstanding)' = {}
<1>1. exec' = exec => In(t, Outstanding)' = In(t, Outstanding)
  BY DEF In
<1>2. ASSUME [StoreNext]_storeVars, UNCHANGED authVars PROVE Goal
  <2>1. task[t].state = "authentication_required"
    BY <1>2, StoreParksNoTask
  <2>2. Parked(t) /\ In(t, Outstanding) = {}
    BY <2>1 DEF ParkedTaskIsIdle
  <2>3. Parked(t)'
    BY <1>2, <2>2 DEF authVars, Parked
  <2>4. In(t, Outstanding)' = {}
    BY <1>2, <2>1, <2>2, ParkedLaunchesNothing
  <2> QED BY <2>3, <2>4
<1>3. ASSUME LoginActions PROVE Goal
  <2>1. UNCHANGED storeVars
    BY <1>3, LoginsLeaveStore
  <2>2. task' = task /\ exec' = exec
    BY <2>1 DEF storeVars, taskVars, ledgerVars
  <2> QED BY <1>1, <1>3, <2>2, LoginKeepsParked DEF ParkedTaskIsIdle
<1>4. ASSUME NEW u \in Tasks, NEW e \in Executions, NEW c \in Contexts, NEW s \in Sessions,
             NEW refs \in SUBSET EvidenceIds, CheckpointAuthentication(u, e, c, s, refs)
      PROVE  Goal
  <2>1. exec' = exec
    BY <1>4 DEF CheckpointAuthentication, ledgerVars
  <2>2. CASE u = t
    <3>1. checkpoint'[t].status = "waiting"
      BY <1>4, <2>2 DEF CheckpointAuthentication, AuthTables
    <3>2. In(t, Outstanding) = {}
      BY <1>4, <2>2 DEF CheckpointAuthentication, Interrupted
    <3> QED BY <1>1, <2>1, <3>1, <3>2 DEF Parked, ActiveStatuses
  <2>3. CASE u # t
    <3>1. task'[t] = task[t] /\ checkpoint'[t] = checkpoint[t]
      BY <1>4, <2>3 DEF CheckpointAuthentication, MoveTo, TaskTypeOK, AuthTables
    <3> QED BY <1>1, <2>1, <3>1 DEF ParkedTaskIsIdle, Parked
  <2> QED BY <2>2, <2>3
<1>5. ASSUME NEW u \in Tasks, ResumeAfterAuthentication(u) PROVE Goal
  <2>1. exec' = exec
    BY <1>5 DEF ResumeAfterAuthentication, ledgerVars
  <2>2. checkpoint[u].stage \in Stages \cup {"none"}
    BY DEF AuthTables, CheckpointRow
  <2>3. u # t
    BY <1>5, <2>2 DEF ResumeAfterAuthentication, MoveTo, TaskTypeOK, TaskRow, Stages
  <2>4. task'[t] = task[t] /\ checkpoint'[t] = checkpoint[t]
    BY <1>5, <2>3 DEF ResumeAfterAuthentication, MoveTo, TaskTypeOK, AuthTables
  <2> QED BY <1>1, <2>1, <2>4 DEF ParkedTaskIsIdle, Parked
<1>6. UNCHANGED allVars => UNCHANGED storeVars /\ UNCHANGED authVars
  BY DEF allVars
<1> QED BY <1>2, <1>3, <1>4, <1>5, <1>6 DEF AuthNext, AuthActions

-----------------------------------------------------------------------------
(* What leaves the parking is what entered it. *)

\* The store only cancels an idle parked task: a restart has no lost call of
\* it to block it for.
LEMMA ParkedStays ==
  ASSUME TaskTypeOK, [StoreNext]_storeVars, NEW t \in Tasks,
         task[t].state = "authentication_required", In(t, Outstanding) = {}
  PROVE  task'[t].state \in {"authentication_required", "cancelled"}
<1>1. ASSUME task'[t].state = task[t].state
      PROVE  task'[t].state \in {"authentication_required", "cancelled"}
  BY <1>1
<1>2. ASSUME NEW u \in Tasks, NEW s \in Signatures, RecordFailure(u, s)
      PROVE  task'[t] = task[t]
  <2>1. u # t
    BY <1>2 DEF RecordFailure
  <2> QED BY <1>2, <2>1 DEF RecordFailure, MoveTo, TaskTypeOK
<1>3. ASSUME ReconcileActive PROVE task'[t] = task[t]
  <2>1. ~ \E e \in LostCalls : exec[e].task = t
    BY DEF In, LostCalls, Outstanding
  <2> QED BY <1>3, <2>1 DEF ReconcileActive
<1>4. ASSUME Moved(t) PROVE task'[t].state = "cancelled"
  BY <1>4 DEF Moved, Transitions, Onward, Working
<1>5. ASSUME Stopped(t), TaskNext PROVE \E u \in Tasks, s \in Signatures : RecordFailure(u, s)
  <2> SUFFICES ASSUME ~ \E u \in Tasks, s \in Signatures : RecordFailure(u, s) PROVE FALSE
    OBVIOUS
  <2>1. task'[t].state = "blocked" /\ task'[t].moved = task[t].moved
    BY <1>5 DEF Stopped
  <2>2. task[t] \in TaskRow
    BY DEF TaskTypeOK
  <2>3. ASSUME NEW u \in Tasks, CreateTask(u) PROVE FALSE
    BY <2>1, <2>3 DEF CreateTask, Exists, MoveTo, TaskTypeOK, TaskRow
  <2>4. ASSUME NEW u \in Tasks, NEW expected \in States, NEW target \in States,
               Transition(u, expected, target)
        PROVE  FALSE
    <3>1. u = t
      BY <2>1, <2>4 DEF Transition, TaskTypeOK
    <3>2. target = "cancelled"
      BY <2>4, <3>1 DEF Transition, Transitions, Onward, Working
    <3> QED BY <2>1, <2>2, <2>4, <3>1, <3>2 DEF Transition, TaskTypeOK, TaskRow
  <2>5. ASSUME NEW u \in Tasks, SetContract(u) PROVE FALSE
    BY <2>1, <2>5 DEF SetContract, TaskTypeOK, TaskRow
  <2>6. ASSUME NEW u \in Tasks, NEW r \in Revisions, SetWorkspace(u, r) \/ SetHead(u, r)
        PROVE  FALSE
    <3>1. task'[t].state = task[t].state
      BY <2>2, <2>6 DEF SetWorkspace, SetHead, TaskTypeOK, TaskRow
    <3> QED BY <2>1, <3>1
  <2>7. task' = task => FALSE
    BY <2>1
  <2>8. ASSUME NEW u \in Tasks, NEW id \in EvidenceIds, NEW r \in Revisions,
               NEW kind \in EvidenceKinds, NEW status \in EvidenceStatuses,
               AddEvidence(u, id, r, kind, status)
        PROVE  FALSE
    BY <2>7, <2>8 DEF AddEvidence
  <2>9. ASSUME NEW u \in Tasks, ReadForApproval(u) PROVE FALSE
    BY <2>7, <2>9 DEF ReadForApproval
  <2>10. ASSUME NEW call \in approving, NEW id \in ApprovalIds, InsertApproval(call, id)
         PROVE  FALSE
    BY <2>7, <2>10 DEF InsertApproval
  <2> QED BY <1>5, <2>3, <2>4, <2>5, <2>6, <2>8, <2>9, <2>10 DEF TaskNext
<1>6. ASSUME Stopped(t), LedgerNext PROVE ReconcileActive
  <2>1. ~UNCHANGED taskVars
    BY <1>6 DEF Stopped, taskVars
  <2>2. ASSUME NEW u \in Tasks, NEW e \in Executions, NEW v \in evidence,
               RecoverReviewFormat(u, e, v)
        PROVE  FALSE
    BY <1>6, <2>2 DEF RecoverReviewFormat, BlockedByReview, MoveTo, Stopped, TaskTypeOK, TaskRow
  <2> QED BY <1>6, <2>1, <2>2, LedgerLeavesTasks
<1>7. ~Stopped(t)
  <2>1. UNCHANGED storeVars => task' = task
    BY DEF storeVars, taskVars
  <2> QED BY <1>2, <1>3, <1>5, <1>6, <2>1 DEF StoreNext, Stopped
<1> QED BY <1>1, <1>4, <1>7, HowTasksMove DEF Kept, Created, Recovered

\* An evidence id names one row of the whole store.
EvidenceIdsDiffer == \A v, w \in evidence : v.id = w.id => v = w

LEMMA EvidenceIdStep ==
  ASSUME TaskTypeOK, EvidenceIdsDiffer, [AuthNext]_allVars
  PROVE  EvidenceIdsDiffer'
<1>1. ASSUME evidence' = evidence PROVE EvidenceIdsDiffer'
  BY <1>1 DEF EvidenceIdsDiffer
<1>2. ASSUME NEW t \in Tasks, NEW r \in Revisions, SetHead(t, r) PROVE EvidenceIdsDiffer'
  <2> DEFINE aged(v) == StaleIf(v, v.task = t /\ v.revision # r)
  <2>1. evidence' = evidence \/ evidence' = {aged(v) : v \in evidence}
    BY <1>2 DEF SetHead
  <2>2. \A v \in evidence : aged(v).id = v.id
    BY DEF StaleIf, TaskTypeOK, EvidenceRow
  <2> HIDE DEF aged
  <2>3. CASE evidence' = {aged(v) : v \in evidence}
    <3> SUFFICES ASSUME NEW v \in evidence', NEW w \in evidence', v.id = w.id PROVE v = w
      BY DEF EvidenceIdsDiffer
    <3>1. PICK x \in evidence, y \in evidence : v = aged(x) /\ w = aged(y)
      BY <2>3
    <3>2. x = y
      BY <2>2, <3>1 DEF EvidenceIdsDiffer
    <3> QED BY <3>1, <3>2
  <2> QED BY <1>1, <2>1, <2>3
<1>3. ASSUME NEW t \in Tasks, NEW id \in EvidenceIds, NEW r \in Revisions,
             NEW kind \in EvidenceKinds, NEW status \in EvidenceStatuses,
             AddEvidence(t, id, r, kind, status)
      PROVE  EvidenceIdsDiffer'
  <2> DEFINE row == [id |-> id, task |-> t, revision |-> r, kind |-> kind,
                     status |-> status, stale |-> FALSE]
  <2>1. evidence' = evidence \cup {row} /\ row.id = id
    BY <1>3 DEF AddEvidence
  <2>2. \A v \in evidence : v.id # row.id
    BY <1>3, <2>1 DEF AddEvidence
  <2> HIDE DEF row
  <2> QED BY <2>1, <2>2 DEF EvidenceIdsDiffer
<1>4. TaskNext => EvidenceIdsDiffer'
  <2>1. ASSUME NEW t \in Tasks,
               \/ CreateTask(t) \/ SetContract(t) \/ ReadForApproval(t)
               \/ \E expected, target \in States : Transition(t, expected, target)
               \/ \E r \in Revisions : SetWorkspace(t, r)
               \/ \E s \in Signatures : RecordFailure(t, s)
        PROVE  evidence' = evidence
    BY <2>1 DEF CreateTask, SetContract, ReadForApproval, Transition, SetWorkspace, RecordFailure
  <2>2. ASSUME NEW call, NEW id, InsertApproval(call, id) PROVE evidence' = evidence
    BY <2>2 DEF InsertApproval
  <2> QED BY <1>1, <1>2, <1>3, <2>1, <2>2 DEF TaskNext
<1>5. LedgerNext => evidence' = evidence
  BY LedgerLeavesTasks
<1>6. UNCHANGED storeVars \/ UNCHANGED allVars => evidence' = evidence
  BY DEF allVars, storeVars, taskVars
<1>7. AuthActions => evidence' = evidence
  BY <1>6, LoginsLeaveStore DEF AuthActions, CheckpointAuthentication, ResumeAfterAuthentication
<1> QED BY <1>1, <1>4, <1>5, <1>6, <1>7 DEF AuthNext, StoreNext

\* What a step that takes a task out of the parking has checked and restores.
Restored(t) ==
  /\ task'[t] = [task[t] EXCEPT !.state = checkpoint[t].stage]
  /\ task[t].head = checkpoint[t].head
  /\ \A v \in evidence : v.id \in checkpoint[t].refs =>
       ~v.stale /\ v.revision = checkpoint[t].head
  /\ budget'[t] = budget[t]

LEMMA ResumeRestores ==
  ASSUME TaskTypeOK, EvidenceIdsDiffer, NEW t \in Tasks, ResumeAfterAuthentication(t)
  PROVE  Restored(t)
<1>1. task'[t] = [task[t] EXCEPT !.state = checkpoint[t].stage] /\ budget' = budget
  BY DEF ResumeAfterAuthentication, MoveTo, TaskTypeOK, ledgerVars
<1>2. task[t].head = checkpoint[t].head /\ checkpoint[t].refs \subseteq FreshEvidence(t)
  BY DEF ResumeAfterAuthentication, CandidateUnchanged
<1>3. ASSUME NEW v \in evidence, v.id \in checkpoint[t].refs
      PROVE  ~v.stale /\ v.revision = checkpoint[t].head
  <2>1. PICK w \in evidence : w.id = v.id /\ w.revision = task[t].head /\ ~w.stale
    BY <1>2, <1>3 DEF FreshEvidence
  <2>2. v = w
    BY <2>1 DEF EvidenceIdsDiffer
  <2> QED BY <1>2, <2>1, <2>2
<1> QED BY <1>1, <1>2, <1>3 DEF Restored

\* No other step takes it out, but to cancel it.
LEMMA LeavingStep ==
  ASSUME TaskTypeOK, EvidenceIdsDiffer, ParkedTaskIsIdle, AuthNext, NEW t \in Tasks,
         task[t].state = "authentication_required",
         task'[t].state \notin {"authentication_required", "cancelled"}
  PROVE  Restored(t)
<1>1. ~StoreNext
  BY ParkedStays DEF ParkedTaskIsIdle
<1>2. ~LoginActions
  BY LoginsLeaveStore DEF storeVars, taskVars
<1>3. ASSUME NEW u \in Tasks, NEW e \in Executions, NEW c \in Contexts, NEW s \in Sessions,
             NEW refs \in SUBSET EvidenceIds, CheckpointAuthentication(u, e, c, s, refs)
      PROVE  FALSE
  <2>1. u # t
    BY <1>3 DEF CheckpointAuthentication, Interrupted, Stages
  <2> QED BY <1>3, <2>1 DEF CheckpointAuthentication, MoveTo, TaskTypeOK
<1>4. PICK u \in Tasks : ResumeAfterAuthentication(u)
  BY <1>1, <1>2, <1>3 DEF AuthNext, AuthActions
<1>5. u = t
  BY <1>4 DEF ResumeAfterAuthentication, MoveTo, TaskTypeOK
<1> QED BY <1>4, <1>5, ResumeRestores

-----------------------------------------------------------------------------
(* What the workflows rest on. *)

\* No task changes its state, nor what its checkpoint says of it.
Resting ==
  \A u \in Tasks : /\ task'[u].state = task[u].state
                   /\ checkpoint'[u].stage = checkpoint[u].stage
                   /\ checkpoint'[u].exec = checkpoint[u].exec

\* A login moves sessions, and the status of checkpoints.
LEMMA LoginsRest ==
  ASSUME AuthTables, LoginActions
  PROVE  Resting
<1> SUFFICES ASSUME NEW u \in Tasks
             PROVE  /\ checkpoint'[u].stage = checkpoint[u].stage
                    /\ checkpoint'[u].exec = checkpoint[u].exec
  BY LoginsLeaveStore DEF Resting, storeVars, taskVars
<1> DEFINE Goal == /\ checkpoint'[u].stage = checkpoint[u].stage
                   /\ checkpoint'[u].exec = checkpoint[u].exec
<1>1. checkpoint[u] \in CheckpointRow
  BY DEF AuthTables
<1>2. ASSUME NEW s, NEW From, NEW To, MoveLinked(s, From, To) PROVE Goal
  <2>1. checkpoint'[u] = [checkpoint[u] EXCEPT !.status = To] \/ checkpoint'[u] = checkpoint[u]
    BY <1>2 DEF MoveLinked
  <2> QED BY <1>1, <2>1 DEF CheckpointRow
<1>3. ASSUME NEW t \in Tasks, NEW s \in Sessions, ClaimLogin(t, s) PROVE Goal
  <2>1. \E linked, spent : checkpoint'[u] =
          [checkpoint[u] EXCEPT !.session = linked, !.attempts = spent]
    BY <1>3 DEF ClaimLogin
  <2> QED BY <1>1, <2>1 DEF CheckpointRow
<1>4. ASSUME NEW t \in Tasks, NEW s \in Sessions, JoinLogin(t, s) PROVE Goal
  <2>1. checkpoint'[u] = checkpoint[u] \/ checkpoint'[u] = [checkpoint[u] EXCEPT !.session = s]
    BY <1>4 DEF JoinLogin, AuthTables
  <2> QED BY <1>1, <2>1 DEF CheckpointRow
<1>5. ASSUME NEW s, LaunchLogin(s) \/ LoginEnds(s) \/ OwnerDies(s) PROVE Goal
  BY <1>5 DEF LaunchLogin, LoginEnds, OwnerDies
<1>6. ASSUME NEW s, NEW outcome, FinishLogin(s, outcome) PROVE Goal
  BY <1>2, <1>6 DEF FinishLogin
<1>7. ASSUME NEW s, NEW status, NEW to, Reconcile(s, status, to) PROVE Goal
  BY <1>2, <1>7 DEF Reconcile
<1>8. ASSUME NEW s, ReportUncertain(s) PROVE Goal
  BY <1>7, <1>8 DEF ReportUncertain
<1>9. ASSUME NEW t, ReconcileUncertain(t) \/ ReconcileEnded(t) PROVE Goal
  BY <1>7, <1>9 DEF ReconcileUncertain, ReconcileEnded
<1> QED BY <1>3, <1>4, <1>5, <1>6, <1>8, <1>9 DEF LoginActions

\* A finished call is out no longer, and launches no other.
LEMMA FinishLaunchesNothing ==
  ASSUME LedgerTypeOK, NEW e \in Executions, NEW report \in AnyReport,
         FinishExecution(e, report), NEW u \in Tasks, In(u, Outstanding) = {}
  PROVE  In(u, Outstanding)' = {}
<1> SUFFICES ASSUME NEW f \in Executions
             PROVE  exec'[f].task # u \/ exec'[f].status \notin Outstanding
  BY DEF In
<1>1. exec[f].task # u \/ exec[f].status \notin Outstanding
  BY DEF In
<1> DEFINE row == [exec[e] EXCEPT !.status = report.status, !.elapsed = report.elapsed,
                                  !.result = report.result]
<1>2. exec' = [exec EXCEPT ![e] = row] /\ exec \in [Executions -> ExecRow \cup {Unused}]
  BY DEF FinishExecution, LedgerTypeOK
<1>3. exec[e] \in ExecRow
  BY UsedRow DEF FinishExecution, Active
<1>4. row.status = report.status /\ report.status \notin Outstanding
  BY <1>3 DEF ExecRow, AnyReport, Outcomes, Outstanding, Active
<1> HIDE DEF row
<1>5. CASE f = e
  BY <1>2, <1>4, <1>5
<1>6. CASE f # e
  BY <1>1, <1>2, <1>6
<1> QED BY <1>5, <1>6

\* Where a task stands; a parked one stands where it was interrupted.
Standing(t) ==
  IF task[t].state = "authentication_required" THEN checkpoint[t].stage ELSE task[t].state

\* How far a candidate has come whose task stands in s, and came there by m.
Place(s, m) ==
  CASE s \in {"implemented", "verifying"}     -> "built"
    [] s \in {"verified", "reviewing"}        -> "checked"
    [] s \in {"review_complete", "packaging"} -> "reviewed"
    [] s = "awaiting_pr_approval"             -> "packaged"
    [] s = "blocked"   -> IF m = <<"reviewing", "blocked">> THEN "held" ELSE "stopped"
    [] s = "cancelled" -> "stopped"
    [] OTHER           -> "building"

LEMMA PlaceOf ==
  ASSUME AuthTables, NEW t \in Tasks
  PROVE  PipelineStage(t) = Place(Standing(t), task[t].moved)
<1>1. checkpoint[t].stage # "blocked"
  BY DEF AuthTables, CheckpointRow, Stages
<1> QED BY <1>1 DEF PipelineStage, Place, Standing, BlockedByReview

\* A step that moves nobody leaves it at its place.
LEMMA PlaceKept ==
  ASSUME AuthTables, AuthTables', NEW t \in Tasks,
         Standing(t)' = Standing(t), task'[t].moved = task[t].moved
  PROVE  PipelineStage(t)' = PipelineStage(t)
<1>1. PipelineStage(t)' = Place(Standing(t)', task'[t].moved)
  <2>1. checkpoint'[t].stage # "blocked"
    BY DEF AuthTables, CheckpointRow, Stages
  <2> QED BY <2>1 DEF PipelineStage, Place, Standing, BlockedByReview
<1> QED BY <1>1, PlaceOf

-----------------------------------------------------------------------------
(* The invariant, and the theorems. *)

AuthInvariant ==
  /\ TaskTypeOK /\ Ledger /\ AuthTables
  /\ AllInStep /\ OneOpenSession /\ Guarded
  /\ ParkedTaskIsIdle /\ EvidenceIdsDiffer

LEMMA AuthInitOK == AuthInit => AuthInvariant
<1> SUFFICES ASSUME AuthInit PROVE AuthInvariant
  OBVIOUS
<1>1. TaskTypeOK /\ Ledger
  BY StoreInitOK DEF AuthInit
<1>2. AuthTables
  BY DEF AuthInit, AuthTablesInit, AuthTables, SessionRow, CheckpointRow, LoginRow, NoCheckpoint
<1>3. AllInStep /\ OneOpenSession /\ Guarded
  BY DEF AuthInit, AuthTablesInit, AllInStep, InStep, Parked, ActiveStatuses, NoCheckpoint,
         OneOpenSession, OpenStatuses, Guarded
<1>4. ParkedTaskIsIdle /\ EvidenceIdsDiffer
  BY DEF AuthInit, StoreInit, TaskInit, AbsentTask, ParkedTaskIsIdle, EvidenceIdsDiffer
<1> QED BY <1>1, <1>2, <1>3, <1>4 DEF AuthInvariant

\* The parts of the store a step outside it may write.
LEMMA StorePart ==
  ASSUME TaskTypeOK, Ledger, AllInStep, [AuthNext]_allVars
  PROVE  TaskTypeOK' /\ Ledger'
<1>1. ASSUME [StoreNext]_storeVars PROVE TaskTypeOK' /\ Ledger'
  BY <1>1, StoreStepType, LedgerStep
<1>2. ASSUME NEW t \in Tasks, NEW state \in States, MoveTo(t, state),
             UNCHANGED <<failures, evidence, approvals, approving, ledgerVars>>
      PROVE  TaskTypeOK' /\ Ledger'
  <2>1. task' \in [Tasks -> TaskRow]
    BY <1>2, MoveToType DEF TaskTypeOK
  <2>2. TaskTypeOK'
    BY <1>2, <2>1 DEF TaskTypeOK
  <2>3. Ledger'
    BY <1>2 DEF Ledger, LedgerTypeOK, LedgerMatchesExecutions, In, ledgerVars
  <2> QED BY <2>2, <2>3
<1>3. ASSUME NEW t \in Tasks, NEW e \in Executions, NEW c \in Contexts, NEW s \in Sessions,
             NEW refs \in SUBSET EvidenceIds, CheckpointAuthentication(t, e, c, s, refs)
      PROVE  TaskTypeOK' /\ Ledger'
  BY <1>2, <1>3 DEF CheckpointAuthentication, States
<1>4. ASSUME NEW t \in Tasks, ResumeAfterAuthentication(t) PROVE TaskTypeOK' /\ Ledger'
  <2>1. Parked(t) /\ MoveTo(t, checkpoint[t].stage)
    BY <1>4 DEF ResumeAfterAuthentication, Parked, ActiveStatuses
  <2>2. checkpoint[t].stage \in States
    BY <2>1 DEF AllInStep, InStep, Stages, States, Working
  <2> QED BY <1>2, <1>4, <2>1, <2>2 DEF ResumeAfterAuthentication
<1> QED BY <1>1, <1>3, <1>4, LoginsLeaveStore DEF AuthNext, AuthActions, allVars

LEMMA AuthStepOK ==
  ASSUME AuthInvariant, [AuthNext]_allVars
  PROVE  AuthInvariant'
<1> USE DEF AuthInvariant
<1>1. TaskTypeOK' /\ Ledger'
  BY StorePart
<1>2. AuthTables'
  BY LoginStepType, CheckpointType, ResumeType DEF AuthNext, AuthActions, allVars, authVars,
     AuthTables
<1>3. AllInStep'
  <2>1. UNCHANGED authVars \/ UNCHANGED allVars => AllInStep'
    BY DEF authVars, allVars, AllInStep, InStep, Parked
  <2> QED BY <2>1, LoginInStep, CheckpointInStep, ResumeInStep DEF AuthNext, AuthActions
<1>4. OneOpenSession' /\ Guarded'
  BY OpenSessionStep, GuardedStep
<1>5. ParkedTaskIsIdle'
  BY ParkedStep DEF Ledger
<1>6. EvidenceIdsDiffer'
  BY EvidenceIdStep
<1> QED BY <1>1, <1>2, <1>3, <1>4, <1>5, <1>6

\* The invariant holds throughout.
THEOREM AuthInvariantHolds == AuthSpec => []AuthInvariant
BY AuthInitOK, AuthStepOK, PTL DEF AuthSpec

\* Every table of the store, its sessions and its checkpoints stay well-formed
\* under every operation.
THEOREM AuthTypeCorrect == AuthSpec => []AuthTypeOK
<1>1. AuthInvariant => AuthTypeOK
  BY DEF AuthInvariant, AuthTypeOK, StoreTypeOK, Ledger, AuthTables
<1> QED BY <1>1, AuthInvariantHolds, PTL

\* The status of a checkpoint agrees with its session's after any sequence of
\* claims, joins, outcomes, crashes and reconciliations, by any number of
\* commands and tasks.
THEOREM CheckpointsMatch == AuthSpec => []CheckpointMatchesSession
<1>1. AuthInvariant => CheckpointMatchesSession
  BY DEF AuthInvariant, AllInStep, InStep, CheckpointMatchesSession
<1> QED BY <1>1, AuthInvariantHolds, PTL

\* The unique index on open sessions never refuses an insert.
THEOREM SessionsAreSingle == AuthSpec => []OneOpenSession
<1>1. AuthInvariant => OneOpenSession
  BY DEF AuthInvariant
<1> QED BY <1>1, AuthInvariantHolds, PTL

\* No two interactive logins of one provider and account, whatever dies when.
THEOREM LoginsAreSingle == AuthSpec => []OneInteractiveLogin
<1>1. AuthInvariant => OneInteractiveLogin
  BY GuardedLogins DEF AuthInvariant
<1> QED BY <1>1, AuthInvariantHolds, PTL

\* A task that waits for a login holds no call, no slot and no time.
THEOREM ParkedTasksAreIdle == AuthSpec => []ParkedTaskIsIdle
<1>1. AuthInvariant => ParkedTaskIsIdle
  BY DEF AuthInvariant
<1> QED BY <1>1, AuthInvariantHolds, PTL

\* A parked task that is not cancelled goes on with the stage, the candidate,
\* the evidence, the repairs and the budget it was interrupted with.
THEOREM ResumptionIsExact == AuthSpec => ResumeRestoresStage
<1> DEFINE Exact == \A t \in Tasks :
             /\ task[t].state = "authentication_required"
             /\ task'[t].state \notin {"authentication_required", "cancelled"}
             => /\ task'[t] = [task[t] EXCEPT !.state = checkpoint[t].stage]
                /\ task[t].head = checkpoint[t].head
                /\ \A v \in evidence : v.id \in checkpoint[t].refs =>
                     ~v.stale /\ v.revision = checkpoint[t].head
                /\ budget'[t] = budget[t]
<1>1. AuthInvariant /\ [AuthNext]_allVars => [Exact]_allVars
  BY LeavingStep DEF AuthInvariant, Restored
<1> QED BY <1>1, AuthInvariantHolds, PTL DEF AuthSpec, ResumeRestoresStage

=============================================================================
