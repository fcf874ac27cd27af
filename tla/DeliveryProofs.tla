--------------------------- MODULE DeliveryProofs ---------------------------
(***************************************************************************)
(* The Phase 3 delivery, for any number of commands and executions, with   *)
(* any of them killed anywhere, while one command is at work at a time.    *)
(*                                                                         *)
(* The invariant is in two halves.  Sound says of the task what its state  *)
(* tells of its evidence and its worktree, with nobody at work on it.      *)
(* Driving says of the process at work what it may rely on at each point:  *)
(* that its locals still agree with the store, and that the stage it is in *)
(* is open, so that the evidence it is about to add is not there yet.      *)
(* Neither is inductive alone: a verdict is counted on the strength of     *)
(* both, and what a parked task is resumed with is what was open when it   *)
(* was parked.  A killed process leaves Sound behind and no more, and that *)
(* is enough: only two commands go on with such a task.                    *)
(***************************************************************************)
EXTENDS DeliveryWorkflow, AuthRecoveryProofs

-----------------------------------------------------------------------------
(* What the state of a task tells.                                         *)

\* Evidence is named by what it says and by its attempt.
Evidences(t, v) ==
  /\ v.revision <= task[t].head
  /\ \E a \in 0..task[t].repairs :
       \/ v.id = <<"verification", a>> /\ v.kind = "independent-check"
       \/ v.id = <<"review", a>> /\ v.kind = "independent-review"
       \/ /\ v.id = <<"review-format-recovered", a>>
          /\ v.kind = "independent-review" /\ v.status = "passed"
       \/ /\ v.id = <<"approval-package", 0>>
          /\ v.kind = "approval-package" /\ v.status = "passed"

Free(id) == \A v \in evidence : v.id # id

\* Neither stage of this attempt has left evidence.
Unnamed(t) == Free(<<"verification", task[t].repairs>>) /\ Free(<<"review", task[t].repairs>>)

\* Everything recorded is about an earlier revision.
Behind(revision) == \A v \in evidence : v.revision < revision

\* No review has found anything in the candidate.
Unfound(t) ==
  \A v \in Failed(t) : v.kind = "independent-review" => v.revision # task[t].head

Excused(t) ==
  Unfound(t) \/ \E e \in recovered : LastReview(t, e) /\ exec[e].result = "format"

\* The latest failure is one of the candidate.
Latest(t) ==
  \E v \in Failed(t) :
    v.revision = task[t].head /\ \A u \in Failed(t) : u = v \/ Earlier(u, v)

Fits(t, s) ==
  /\ s # "absent" => worktree[t] \in Revisions
  /\ s \in {"absent", "contracted", "workspace_ready", "implementing"} => evidence = {}
  /\ s \notin {"packaging", "awaiting_pr_approval"} => Free(<<"approval-package", 0>>)
  /\ s \in {"repairing", "implemented"} => Unnamed(t)
  /\ s = "implemented" => Behind(task[t].head)
  /\ s \in {"verifying", "verified"} => Unfound(t) /\ Free(<<"review", task[t].repairs>>)
  /\ s \in Reviewed => Excused(t)

\* Somebody may begin with, or go on with, a turn in s.
Open(t, s) ==
  /\ worktree[t] = task[t].head
  /\ s = "repairing" => Latest(t)
  /\ s = "verifying" => Free(<<"verification", task[t].repairs>>)
  /\ s = "reviewing" => Unfound(t) /\ Free(<<"review", task[t].repairs>>)
  /\ s = "packaging" => Free(<<"approval-package", 0>>)

HeldByReview == <<"reviewing", "blocked">>

Sound(t) ==
  /\ Fits(t, Standing(t))
  /\ \A v \in evidence : Evidences(t, v)
  /\ task[t].state = "authentication_required" => Open(t, checkpoint[t].stage)
  /\ task[t].moved = HeldByReview => task[t].state \in {"blocked", "review_complete"}

-----------------------------------------------------------------------------
(* What a process at work relies on.                                       *)

\* In a turn, from the state it began with.
InTurn(row, t) ==
  /\ row.from = task[t].state
  /\ row.pc \notin {"adopt", "count", "advance", "block"} => Open(t, row.from)
  /\ row.pc \notin {"adopt", "advance"} \/ row.from = "workspace_ready" =>
       row.head = task[t].head /\ row.attempt = task[t].repairs
  /\ row.pc \in {"reserve", "start", "call", "block"} => row.from \in DOMAIN RoleOf
  /\ row.pc \in {"reserve", "start", "call"} /\ row.from = "repairing" =>
       row.feedback = task[t].head
  /\ row.pc \in {"start", "call", "park"} => row.exec \in Executions
  /\ row.pc \in {"commit", "adopt"} =>
       row.from \in {"implementing", "repairing"} /\ row.verdict = "passed"
  /\ row.pc = "adopt" => row.head = worktree[t] /\ Behind(worktree[t])
  /\ row.pc = "record" => row.from \in {"verifying", "reviewing"} /\ row.verdict # "none"
  /\ row.pc = "package" => row.from = "packaging" /\ row.verdict # "rejected"
  /\ row.pc \in {"count", "advance", "block"} => worktree[t] = task[t].head
  /\ row.pc = "count" => row.verdict = "rejected"
  /\ row.pc \in {"count", "advance"} /\ row.verdict = "rejected" =>
       row.from \in {"verifying", "reviewing"} /\ Latest(t)
  /\ row.pc = "advance" /\ row.verdict = "rejected" => Unnamed(t)
  /\ row.pc = "advance" /\ row.verdict # "rejected" =>
       /\ row.from \in DOMAIN Onwards
       /\ row.from \in {"implementing", "repairing"} => Behind(task[t].head)
       /\ row.from = "reviewing" => Unfound(t)

InRecovery(row, t) ==
  /\ task[t].state = "blocked"
  /\ worktree[t] = task[t].head /\ row.head = task[t].head
  /\ row.attempt = task[t].repairs /\ LastReview(t, row.exec)

Outside == {"ready", "workspace", "evidence", "recover", "look"} \cup Ended

InHand(row, t) ==
  /\ row.pc = "workspace" =>
       /\ task[t].state = "contracted" /\ worktree[t] = BaseRevision
       /\ row.verdict # "rejected"
  /\ row.pc \in {"evidence", "recover"} => InRecovery(row, t)
  /\ row.pc = "look" => Open(t, task[t].state)
  /\ row.pc \notin Outside => InTurn(row, t)

Driving(row) ==
  /\ row.pc = "ready" => row = Unstarted
  /\ row.pc \notin Ended \cup {"ready"} => row.task \in Tasks /\ InHand(row, row.task)

AllSound == \A t \in Tasks : Sound(t)
AllDriving == \A p \in Processes : Driving(process[p])

Typed ==
  /\ worktree \in [Tasks -> Revisions \cup {NoRevision}]
  /\ process \in [Processes -> ProcessRow]

DeliveryInvariant == AuthInvariant /\ Typed /\ OneDriver /\ AllSound /\ AllDriving

-----------------------------------------------------------------------------
(* Lemmas. *)

LEMMA OneTask == \A t, u \in Tasks : t = u
BY OneTaskAssumption

LEMMA Bases == BaseRevision \in Revisions /\ \A r \in Revisions : r \in Nat
BY DeliveryAssumption

\* Nothing t's evidence, head and attempt are read from has changed.
Same(t) ==
  /\ task'[t].head = task[t].head /\ task'[t].repairs = task[t].repairs
  /\ evidence' = evidence /\ worktree' = worktree

LEMMA SameFacts ==
  ASSUME NEW t, Same(t)
  PROVE  /\ Latest(t)' <=> Latest(t)
         /\ Unfound(t)' <=> Unfound(t)
         /\ Unnamed(t)' <=> Unnamed(t)
         /\ \A id : Free(id)' <=> Free(id)
         /\ \A r : Behind(r)' <=> Behind(r)
         /\ \A s : Open(t, s)' <=> Open(t, s)
         /\ (\A v \in evidence : Evidences(t, v)) => (\A v \in evidence : Evidences(t, v))'
<1>1. /\ Latest(t)' <=> Latest(t)
      /\ Unfound(t)' <=> Unfound(t)
  BY DEF Same, Latest, Unfound, Failed
<1>2. /\ Unnamed(t)' <=> Unnamed(t)
      /\ \A id : Free(id)' <=> Free(id)
      /\ \A r : Behind(r)' <=> Behind(r)
  BY DEF Same, Unnamed, Free, Behind
<1>3. ASSUME NEW s PROVE Open(t, s)' <=> Open(t, s)
  BY <1>1, <1>2 DEF Same, Open
<1>4. (\A v \in evidence : Evidences(t, v)) => (\A v \in evidence : Evidences(t, v))'
  BY DEF Same, Evidences
<1> QED BY <1>1, <1>2, <1>3, <1>4

\* It stays sound as long as its state does.
LEMMA SameSound ==
  ASSUME NEW t, Sound(t), Same(t),
         task'[t].state = task[t].state, task'[t].moved = task[t].moved,
         checkpoint'[t].stage = checkpoint[t].stage,
         Excused(t) /\ Standing(t) \in Reviewed => Excused(t)'
  PROVE  Sound(t)'
<1>1. Standing(t)' = Standing(t)
  BY DEF Standing
<1>2. Fits(t, Standing(t))'
  BY <1>1, SameFacts DEF Sound, Fits, Same
<1>3. Open(t, checkpoint[t].stage) => Open(t, checkpoint[t].stage)'
  BY SameFacts
<1> QED BY <1>2, <1>3, SameFacts DEF Sound

LEMMA ExcusedStays ==
  ASSUME NEW t, Same(t), exec' = exec, recovered \subseteq recovered', Excused(t)
  PROVE  Excused(t)'
<1>1. \A e : LastReview(t, e)' <=> LastReview(t, e)
  BY DEF LastReview, ReviewCalls
<1> QED BY <1>1, SameFacts DEF Excused

\* A stage some call runs in is not one of a reviewed candidate.
LEMMA StagesOfCalls ==
  /\ DOMAIN RoleOf = {"implementing", "repairing", "verifying", "reviewing"}
  /\ \A s \in DOMAIN RoleOf :
       s \notin Reviewed /\ s # "authentication_required" /\ s \in States /\ RoleOf[s] \in Roles
  /\ \A s \in Stages : s \in DOMAIN RoleOf
BY DEF RoleOf, Reviewed, States, Working, Stages, Roles, RoleState

LEMMA UnstartedType == Unstarted \in ProcessRow
BY DEF Unstarted, ProcessRow, Points, Ended, States, Working, Verdicts

\* p goes on with this row.
Turns(p) ==
  \E row \in ProcessRow : process' = [process EXCEPT ![p] = row] /\ Driving(row)'

LEMMA GotoTurns ==
  ASSUME Typed, NEW p \in Processes, NEW pc \in Points \ {"ready"}, Goto(p, pc),
         NEW t \in Tasks, t = Own(p),
         ASSUME NEW row \in ProcessRow, row = [process[p] EXCEPT !.pc = pc], pc \notin Ended
         PROVE  InHand(row, t)'
  PROVE  Turns(p)
<1>1. process[p] \in ProcessRow
  BY DEF Typed
<1>2. CASE pc \in Ended
  <2>1. PICK row : row = [Unstarted EXCEPT !.pc = pc]
    OBVIOUS
  <2>2. row \in ProcessRow /\ row.pc = pc
    BY <2>1, UnstartedType DEF ProcessRow
  <2>3. process' = [process EXCEPT ![p] = row]
    BY <1>2, <2>1 DEF Goto, Then
  <2> QED BY <1>2, <2>2, <2>3 DEF Turns, Driving, Ended
<1>3. CASE pc \notin Ended
  <2>1. PICK row : row = [process[p] EXCEPT !.pc = pc]
    OBVIOUS
  <2>2. row \in ProcessRow /\ row.task = t /\ row.pc # "ready"
    BY <1>1, <2>1 DEF ProcessRow, Own
  <2>3. process' = [process EXCEPT ![p] = row]
    BY <1>3, <2>1 DEF Goto, Then
  <2>4. InHand(row, t)'
    BY <1>3, <2>1, <2>2
  <2> QED BY <2>2, <2>3, <2>4 DEF Turns, Driving
<1> QED BY <1>2, <1>3

\* Only one process is ever at work, so that the others rely on nothing.
LEMMA OthersRest ==
  ASSUME Typed, OneDriver, OneDriver', AllDriving, NEW p \in Processes, Turns(p),
         Live(p) \/ Live(p)'
  PROVE  AllDriving' /\ process' \in [Processes -> ProcessRow]
<1>1. PICK row \in ProcessRow : process' = [process EXCEPT ![p] = row] /\ Driving(row)'
  BY DEF Turns
<1>2. process' \in [Processes -> ProcessRow]
  BY <1>1 DEF Typed
<1>3. ASSUME NEW q \in Processes PROVE Driving(process[q])'
  <2>1. CASE q = p
    <3>1. process'[q] = row
      BY <1>1, <2>1 DEF Typed
    <3> QED BY <1>1, <3>1 DEF Driving, InHand, InTurn, InRecovery
  <2>2. CASE q # p
    <3>1. process'[q] = process[q]
      BY <1>1, <2>2 DEF Typed
    <3>2. ~Live(q)'
      BY <2>2, <3>1 DEF OneDriver, Live
    <3>3. process'[q].pc = "ready" => process'[q] = Unstarted
      BY <3>1 DEF AllDriving, Driving
    <3> QED BY <3>2, <3>3 DEF Live, Driving, Unstarted
  <2> QED BY <2>1, <2>2
<1> QED BY <1>2, <1>3 DEF AllDriving

-----------------------------------------------------------------------------
(* Reading the store.                                                      *)

\* A repair is told of the latest failure, and that is one of the candidate.
LEMMA LatestIsTold ==
  ASSUME NEW t, Latest(t), NEW r \in LatestFailure(t),
         \A v \in evidence : Evidences(t, v)
  PROVE  r = task[t].head
<1>1. PICK v \in Failed(t) :
        v.revision = task[t].head /\ \A u \in Failed(t) : u = v \/ Earlier(u, v)
  BY DEF Latest
<1>2. PICK w \in Failed(t) :
        r = w.revision /\ \A u \in Failed(t) : u = w \/ Earlier(u, w)
  BY DEF LatestFailure
<1>3. v.id[2] \in Int /\ w.id[2] \in Int
  BY DEF Failed, Evidences
<1>4. ~(Earlier(v, w) /\ Earlier(w, v))
  BY <1>3 DEF Earlier
<1> QED BY <1>1, <1>2, <1>4

\* What a step that changes no table leaves as it was.
LEMMA NothingWritten ==
  ASSUME TaskTypeOK, AllSound, NoStoreChange
  PROVE  AllSound' /\ \A t \in Tasks : Same(t) /\ task'[t] = task[t]
<1>1. \A t \in Tasks : Same(t) /\ task'[t] = task[t]
  BY DEF NoStoreChange, allVars, storeVars, taskVars, Same
<1>2. ASSUME NEW t \in Tasks PROVE Sound(t)'
  <2>1. exec' = exec /\ recovered' = recovered /\ checkpoint' = checkpoint
    BY DEF NoStoreChange, allVars, storeVars, ledgerVars, authVars
  <2> QED BY <1>1, <2>1, SameSound, ExcusedStays DEF AllSound
<1> QED BY <1>1, <1>2 DEF AllSound

LEMMA LookStep ==
  ASSUME TaskTypeOK, Typed, AllSound, AllDriving, NEW p \in Processes, Look(p)
  PROVE  AllSound' /\ Turns(p)
<1>1. PICK t \in Tasks : t = Own(p) /\ Open(t, task[t].state)
  BY DEF AllDriving, Driving, InHand, Look, At, Own, Ended
<1>2. AllSound' /\ Same(t) /\ task'[t] = task[t]
  BY NothingWritten DEF Look
<1> DEFINE s == task[t].state
<1>3. PICK r \in IF s = "repairing" THEN LatestFailure(t) ELSE {NoRevision} :
        process' = [process EXCEPT ![p] = Then(
            [Unstarted EXCEPT !.task = t, !.from = s, !.head = task[t].head,
               !.attempt = task[t].repairs, !.feedback = r], Turn(s))]
  BY <1>1 DEF Look
<1>4. /\ s \in AtRest \cup Calling \cup Passing \cup {"packaging"}
      /\ s \in States /\ task[t].head \in Revisions \cup {NoRevision}
      /\ task[t].repairs \in 0..2
  BY <1>1 DEF Look, TaskTypeOK, TaskRow
<1>5. s = "repairing" => r = task[t].head
  <2>1. s = "repairing" => Latest(t)
    BY <1>1 DEF Open
  <2> QED BY <1>3, <2>1, LatestIsTold DEF AllSound, Sound
<1>6. r \in Revisions \cup {NoRevision}
  BY <1>3, <1>4, <1>5
<1>7. PICK row : row = Then([Unstarted EXCEPT !.task = t, !.from = s, !.head = task[t].head,
                               !.attempt = task[t].repairs, !.feedback = r], Turn(s))
  OBVIOUS
<1>8. CASE s \in AtRest
  <2>1. Turn(s) = "returned"
    BY <1>8 DEF Turn, AtRest, Passing, Calling
  <2>2. row = [Unstarted EXCEPT !.pc = "returned"]
    BY <1>7, <2>1 DEF Then, Ended
  <2>3. row \in ProcessRow /\ row.pc = "returned"
    BY <2>2, UnstartedType DEF ProcessRow, Points, Ended
  <2> QED BY <1>2, <1>3, <1>7, <2>3 DEF Turns, Driving, Ended
<1>9. CASE s \notin AtRest
  <2>1. /\ Turn(s) = IF s \in Passing \cup {"workspace_ready"} THEN "advance"
                     ELSE IF s = "packaging" THEN "package" ELSE "reserve"
        /\ Turn(s) \in Points \ Ended
    BY <1>4, <1>9 DEF Turn, Calling, Passing, AtRest, Points, Ended
  <2>2. /\ row.pc = Turn(s) /\ row.task = t /\ row.from = s /\ row.head = task[t].head
        /\ row.attempt = task[t].repairs /\ row.feedback = r /\ row.verdict = "none"
        /\ row.exec = NoExec
        /\ row \in ProcessRow
    BY <1>1, <1>4, <1>6, <1>7, <2>1, UnstartedType DEF Then, Unstarted, ProcessRow
  <2>3. Open(t, s)'
    BY <1>1, <1>2, SameFacts
  <2>4. s # "authentication_required" /\ task'[t].state = s
    BY <1>2, <1>9 DEF AtRest
  <2>5. worktree'[t] = task'[t].head
    BY <2>3 DEF Open
  <2>6. InTurn(row, t)'
    <3>1. CASE s \in Passing \cup {"workspace_ready"}
      <4>1. row.pc = "advance"
        BY <2>1, <2>2, <3>1
      <4>2. s \in DOMAIN Onwards \ {"implementing", "repairing", "reviewing"}
        BY <3>1 DEF Passing, Onwards
      <4> QED BY <1>2, <2>2, <2>4, <2>5, <4>1, <4>2 DEF InTurn
    <3>2. CASE s = "packaging"
      <4>1. row.pc = "package"
        BY <2>1, <2>2, <3>2 DEF Passing
      <4> QED BY <1>2, <2>2, <2>3, <2>4, <3>2, <4>1 DEF InTurn
    <3>3. CASE s \in Calling \ {"workspace_ready"}
      <4>1. row.pc = "reserve"
        BY <2>1, <2>2, <3>3 DEF Passing, Calling
      <4>2. s \in DOMAIN RoleOf
        BY <3>3, StagesOfCalls DEF Calling
      <4> QED BY <1>2, <1>5, <2>2, <2>3, <2>4, <4>1, <4>2 DEF InTurn
    <3> QED BY <1>4, <1>9, <3>1, <3>2, <3>3
  <2>7. Driving(row)'
    BY <2>1, <2>2, <2>6 DEF Driving, InHand, Outside
  <2> QED BY <1>2, <1>3, <1>7, <2>2, <2>7 DEF Turns
<1> QED BY <1>8, <1>9

LEMMA FailStep ==
  ASSUME TaskTypeOK, Typed, AllSound, NEW p \in Processes, Fail(p)
  PROVE  AllSound' /\ Turns(p)
<1>1. AllSound'
  BY NothingWritten DEF Fail
<1>2. PICK row : row = [Unstarted EXCEPT !.pc = "failed"]
  OBVIOUS
<1>3. row \in ProcessRow /\ row.pc = "failed"
  BY <1>2, UnstartedType DEF ProcessRow, Points, Ended
<1>4. process' = [process EXCEPT ![p] = row]
  BY <1>2 DEF Fail, Goto, Then, Ended
<1> QED BY <1>1, <1>3, <1>4 DEF Turns, Driving, Ended

LEMMA BeginRecoveryStep ==
  ASSUME TaskTypeOK, Typed, AllSound, NEW p \in Processes, NEW t \in Tasks, BeginRecovery(p, t)
  PROVE  AllSound' /\ Turns(p) /\ Live(p)'
<1>1. AllSound' /\ Same(t) /\ task'[t] = task[t] /\ exec' = exec
  BY NothingWritten DEF BeginRecovery, NoStoreChange, allVars, storeVars, ledgerVars
<1>2. PICK e \in Executions :
        /\ LastReview(t, e)
        /\ process' = [process EXCEPT ![p] = [@ EXCEPT
             !.task = t, !.pc = "evidence", !.head = task[t].head,
             !.attempt = task[t].repairs, !.exec = e]]
  BY DEF BeginRecovery
<1>3. PICK row : row = [process[p] EXCEPT
                   !.task = t, !.pc = "evidence", !.head = task[t].head,
                   !.attempt = task[t].repairs, !.exec = e]
  OBVIOUS
<1>4. process[p] \in ProcessRow /\ task[t] \in TaskRow
  BY DEF Typed, TaskTypeOK
<1>5. /\ row \in ProcessRow /\ row.pc = "evidence" /\ row.task = t /\ row.exec = e
      /\ row.head = task[t].head /\ row.attempt = task[t].repairs
  BY <1>3, <1>4 DEF ProcessRow, TaskRow, Points
<1>6. process' = [process EXCEPT ![p] = row] /\ process'[p] = row
  BY <1>2, <1>3 DEF Typed
<1>7. LastReview(t, e)'
  BY <1>1, <1>2 DEF LastReview, ReviewCalls
<1>8. InRecovery(row, t)'
  BY <1>1, <1>5, <1>7 DEF InRecovery, BeginRecovery, Same
<1>9. Driving(row)'
  BY <1>5, <1>8 DEF Driving, InHand, Outside
<1> QED BY <1>1, <1>5, <1>6, <1>9 DEF Turns, Live, Ended

-----------------------------------------------------------------------------
(* Calls, and the commit that follows one.                                 *)

LEMMA TurnOf ==
  ASSUME AllDriving, NEW p \in Processes, process[p].pc \notin Outside
  PROVE  \E t \in Tasks : t = Own(p) /\ InTurn(process[p], t)
BY DEF AllDriving, Driving, InHand, Outside, Own

\* A stage that a call runs in is sound whatever becomes of the call.
LEMMA CallingSound ==
  ASSUME AllSound, NEW t \in Tasks, task[t].state \in DOMAIN RoleOf,
         UNCHANGED <<taskVars, authVars, worktree>>
  PROVE  AllSound' /\ Same(t) /\ task' = task
<1>1. Same(t) /\ task' = task /\ checkpoint' = checkpoint
  BY DEF taskVars, authVars, Same
<1>2. Standing(t) \notin Reviewed
  BY StagesOfCalls DEF Standing
<1>3. Sound(t)'
  BY <1>1, <1>2, SameSound DEF AllSound
<1> QED BY <1>1, <1>3, OneTask DEF AllSound

LEMMA ReservationStep ==
  ASSUME Typed, AllSound, AllDriving, NEW p \in Processes, Reserve(p)
  PROVE  AllSound' /\ Turns(p)
<1>1. process[p].pc = "reserve"
  BY DEF Reserve, At
<1>2. PICK t \in Tasks : t = Own(p) /\ InTurn(process[p], t)
  BY <1>1, TurnOf DEF Outside, Ended
<1>3. PICK e \in Executions, timeout \in Timeouts :
        /\ ReserveExecution(t, e, RoleOf[From(p)], timeout)
        /\ process' = [process EXCEPT ![p].exec = e, ![p].pc = "start"]
  BY <1>2 DEF Reserve
<1>4. process[p] \in ProcessRow /\ process[p].pc = "reserve"
  BY DEF Typed, Reserve, At
<1>5. AllSound' /\ Same(t) /\ task' = task
  <2>1. UNCHANGED <<taskVars, authVars, worktree>>
    BY <1>3 DEF ReserveExecution, Reserve, OnLedgerOnly
  <2>2. task[t].state \in DOMAIN RoleOf
    BY <1>2, <1>4 DEF InTurn
  <2> QED BY <2>1, <2>2, CallingSound
<1>6. PICK row : row = [[process[p] EXCEPT !.exec = e] EXCEPT !.pc = "start"]
  OBVIOUS
<1>7. /\ row \in ProcessRow /\ row.pc = "start" /\ row.exec = e /\ row.task = t
      /\ row.from = process[p].from /\ row.head = process[p].head
      /\ row.attempt = process[p].attempt /\ row.feedback = process[p].feedback
  BY <1>2, <1>4, <1>6 DEF ProcessRow, Points, Own
<1>8. process' = [process EXCEPT ![p] = row]
  BY <1>3, <1>4, <1>6 DEF Typed
<1>9. Open(t, row.from)'
  BY <1>2, <1>4, <1>5, <1>7, SameFacts DEF InTurn
<1>10. InTurn(row, t)'
  BY <1>2, <1>4, <1>5, <1>7, <1>9 DEF InTurn, Same
<1>11. Driving(row)'
  BY <1>7, <1>10 DEF Driving, InHand, Outside
<1> QED BY <1>5, <1>7, <1>8, <1>11 DEF Turns

LEMMA StartCallStep ==
  ASSUME Typed, AllSound, AllDriving, NEW p \in Processes, StartCall(p)
  PROVE  AllSound' /\ Turns(p)
<1>1. process[p].pc = "start"
  BY DEF StartCall, At
<1>2. PICK t \in Tasks : t = Own(p) /\ InTurn(process[p], t)
  BY <1>1, TurnOf DEF Outside, Ended
<1>3. process[p] \in ProcessRow /\ process[p].pc = "start" /\ Goto(p, "call")
  BY DEF Typed, StartCall, At
<1>4. AllSound' /\ Same(t) /\ task' = task
  <2>1. UNCHANGED <<taskVars, authVars, worktree>>
    BY DEF StartExecution, StartCall, OnLedgerOnly
  <2>2. task[t].state \in DOMAIN RoleOf
    BY <1>2, <1>3 DEF InTurn
  <2> QED BY <2>1, <2>2, CallingSound
<1>5. ASSUME NEW row \in ProcessRow, row = [process[p] EXCEPT !.pc = "call"]
      PROVE  InHand(row, t)'
  <2>1. /\ row.pc = "call" /\ row.exec = process[p].exec
        /\ row.from = process[p].from /\ row.head = process[p].head
        /\ row.attempt = process[p].attempt /\ row.feedback = process[p].feedback
    BY <1>3, <1>5 DEF ProcessRow
  <2>2. Open(t, row.from)'
    BY <1>2, <1>3, <1>4, <2>1, SameFacts DEF InTurn
  <2>3. InTurn(row, t)'
    BY <1>2, <1>3, <1>4, <2>1, <2>2 DEF InTurn, Same
  <2> QED BY <2>1, <2>3 DEF InHand, Outside
<1>6. Turns(p)
  BY <1>2, <1>3, <1>5, GotoTurns DEF Points
<1> QED BY <1>4, <1>6

LEMMA CallRaisesStep ==
  ASSUME Typed, AllSound, AllDriving, NEW p \in Processes, CallRaises(p)
  PROVE  AllSound' /\ Turns(p)
<1>1. process[p].pc = "call"
  BY DEF CallRaises, At
<1>2. PICK t \in Tasks : t = Own(p) /\ InTurn(process[p], t)
  BY <1>1, TurnOf DEF Outside, Ended
<1>3. process[p].pc = "call" /\ Goto(p, "failed")
  BY DEF CallRaises, At
<1>4. UNCHANGED <<taskVars, authVars, worktree>> /\ task[t].state \in DOMAIN RoleOf
  BY <1>2, <1>3 DEF FinishExecution, CallRaises, OnLedgerOnly, InTurn
<1>5. Turns(p)
  BY <1>2, <1>3, GotoTurns DEF Points, Ended
<1> QED BY <1>4, <1>5, CallingSound

\* What a call comes to, and where that leads.
LEMMA VerdictOf ==
  ASSUME NEW stage, NEW report, NEW v \in VerdictsOn(stage, report)
  PROVE  v \in {"passed", "rejected", "stopped"}
BY DEF VerdictsOn

LEMMA CallReturnsStep ==
  ASSUME Typed, AllSound, AllDriving, NEW p \in Processes, NEW report \in Reports,
         CallReturns(p, report)
  PROVE  AllSound' /\ Turns(p)
<1>1. process[p].pc = "call"
  BY DEF CallReturns, At
<1>2. PICK t \in Tasks : t = Own(p) /\ InTurn(process[p], t)
  BY <1>1, TurnOf DEF Outside, Ended
<1>3. process[p] \in ProcessRow /\ process[p].pc = "call"
  BY DEF Typed, CallReturns, At
<1>4. process[p].from \in DOMAIN RoleOf /\ task[t].state = process[p].from
  BY <1>2, <1>3 DEF InTurn
<1>5. AllSound' /\ Same(t) /\ task' = task
  <2>1. UNCHANGED <<taskVars, authVars, worktree>>
    BY DEF FinishExecution, CallReturns, OnLedgerOnly
  <2> QED BY <1>4, <2>1, CallingSound
<1>6. PICK v \in VerdictsOn(From(p), report) : \E pc :
        /\ process' = [process EXCEPT ![p].verdict = v, ![p].pc = pc]
        /\ \/ pc = "park"
           \/ pc = "record" /\ ~Worker(p)
           \/ pc = "commit" /\ Worker(p) /\ v = "passed"
           \/ pc = "block" /\ Worker(p)
  <2>1. PICK v \in VerdictsOn(From(p), report) :
          process' = [process EXCEPT ![p].verdict = v, ![p].pc =
             CASE report.result = "authentication"   -> "park"
               [] report.result # "authentication" /\ ~Worker(p) -> "record"
               [] report.result # "authentication" /\ Worker(p)  ->
                    IF v = "passed" THEN "commit" ELSE "block"]
    BY DEF CallReturns
  <2>2. CASE report.result = "authentication"
    BY <2>1, <2>2
  <2>3. CASE report.result # "authentication" /\ ~Worker(p)
    BY <2>1, <2>3
  <2>4. CASE report.result # "authentication" /\ Worker(p)
    BY <2>1, <2>4
  <2> QED BY <2>2, <2>3, <2>4
<1>7. PICK pc :
        /\ process' = [process EXCEPT ![p].verdict = v, ![p].pc = pc]
        /\ \/ pc = "park"
           \/ pc = "record" /\ ~Worker(p)
           \/ pc = "commit" /\ Worker(p) /\ v = "passed"
           \/ pc = "block" /\ Worker(p)
  BY <1>6
<1>8. PICK row : row = [[process[p] EXCEPT !.verdict = v] EXCEPT !.pc = pc]
  OBVIOUS
<1>9. v \in {"passed", "rejected", "stopped"} /\ pc \in {"park", "record", "commit", "block"}
  BY <1>6, <1>7, VerdictOf
<1>10. /\ row \in ProcessRow /\ row.pc = pc /\ row.exec = process[p].exec /\ row.task = t
      /\ row.from = process[p].from /\ row.head = process[p].head
      /\ row.attempt = process[p].attempt /\ row.verdict = v
  BY <1>2, <1>3, <1>8, <1>9 DEF ProcessRow, Points, Verdicts, Own
<1>11. process' = [process EXCEPT ![p] = row]
  BY <1>3, <1>7, <1>8 DEF Typed
<1>12. Open(t, row.from)' /\ worktree'[t] = task'[t].head
  BY <1>2, <1>3, <1>5, <1>10, SameFacts DEF InTurn, Open
<1>13. Worker(p) <=> row.from \in {"implementing", "repairing"}
  BY <1>10 DEF Worker, From
<1>14. row.from \in DOMAIN RoleOf /\ (~Worker(p) => row.from \in {"verifying", "reviewing"})
  BY <1>4, <1>10, <1>13, StagesOfCalls
<1>15. row.from # "workspace_ready"
  BY <1>14 DEF RoleOf
<1>16. InTurn(row, t)'
  BY <1>2, <1>3, <1>5, <1>7, <1>9, <1>10, <1>12, <1>13, <1>14, <1>15 DEF InTurn, Same
<1>17. Driving(row)'
  BY <1>9, <1>10, <1>16 DEF Driving, InHand, Outside, Ended
<1> QED BY <1>5, <1>10, <1>11, <1>17 DEF Turns

\* A commit takes the worktree past everything that is recorded.
LEMMA CommitStep ==
  ASSUME TaskTypeOK, Typed, AllSound, AllDriving, NEW p \in Processes, Commit(p)
  PROVE  /\ AllSound' /\ Turns(p)
         /\ worktree' \in [Tasks -> Revisions \cup {NoRevision}]
<1>1. process[p].pc = "commit"
  BY DEF Commit, At
<1>2. PICK t \in Tasks : t = Own(p) /\ InTurn(process[p], t)
  BY <1>1, TurnOf DEF Outside, Ended
<1>3. process[p] \in ProcessRow /\ process[p].pc = "commit"
  BY DEF Typed, Commit, At
<1>4. /\ process[p].from \in {"implementing", "repairing"} /\ task[t].state = process[p].from
      /\ process[p].verdict = "passed" /\ worktree[t] = task[t].head
  BY <1>2, <1>3 DEF InTurn, Open
<1>5. PICK new \in Revisions :
        /\ new = worktree[t] + 1
        /\ worktree' = [worktree EXCEPT ![t] = new]
        /\ process' = [process EXCEPT ![p].head = new, ![p].pc = "adopt"]
  BY <1>2 DEF Commit
<1>6. UNCHANGED <<task, evidence, exec, recovered, checkpoint>>
  BY DEF Commit, allVars, storeVars, taskVars, ledgerVars, authVars
<1>7. worktree'[t] = new /\ worktree' \in [Tasks -> Revisions \cup {NoRevision}]
  BY <1>5 DEF Typed
<1>8. Standing(t) = task[t].state /\ Standing(t)' = task[t].state /\ Sound(t)
  BY <1>4, <1>6 DEF Standing, AllSound
<1>9. worktree[t] \in Nat
  BY <1>4, <1>8, Bases DEF Sound, Fits
<1>10. Behind(new)
  <2> SUFFICES ASSUME NEW v \in evidence PROVE v.revision < new
    BY DEF Behind
  <2>1. v.revision \in Nat /\ v.revision <= task[t].head
    BY <1>8, Bases DEF Sound, Evidences, TaskTypeOK, EvidenceRow
  <2> QED BY <1>4, <1>5, <1>9, <2>1
<1>11. Sound(t)'
  <2>1. Fits(t, Standing(t))'
    <3>1. task[t].state \notin Reviewed /\ task[t].state \notin {"verifying", "verified", "implemented"}
      BY <1>4 DEF Reviewed
    <3>2. Fits(t, task[t].state)
      BY <1>8 DEF Sound
    <3> QED BY <1>6, <1>7, <1>8, <3>1, <3>2 DEF Fits, Unnamed, Free
  <2>2. \A v \in evidence' : Evidences(t, v)'
    BY <1>6, <1>8 DEF Sound, Evidences
  <2> QED BY <1>4, <1>6, <1>8, <2>1, <2>2 DEF Sound
<1>12. PICK row : row = [[process[p] EXCEPT !.head = new] EXCEPT !.pc = "adopt"]
  OBVIOUS
<1>13. /\ row \in ProcessRow /\ row.pc = "adopt" /\ row.task = t /\ row.head = new
       /\ row.from = process[p].from /\ row.verdict = process[p].verdict
  BY <1>2, <1>3, <1>12 DEF ProcessRow, Points, Own
<1>14. process' = [process EXCEPT ![p] = row]
  BY <1>3, <1>5, <1>12 DEF Typed
<1>15. InTurn(row, t)'
  BY <1>4, <1>6, <1>7, <1>10, <1>13 DEF InTurn, Behind
<1>16. Driving(row)'
  BY <1>13, <1>15 DEF Driving, InHand, Outside
<1> QED BY <1>7, <1>11, <1>13, <1>14, <1>16, OneTask DEF AllSound, Turns

-----------------------------------------------------------------------------
(* Evidence.                                                               *)

LEMMA SameFits ==
  ASSUME NEW t, Same(t), exec' = exec, recovered \subseteq recovered', NEW s, Fits(t, s)
  PROVE  Fits(t, s)'
BY SameFacts, ExcusedStays DEF Fits, Same

\* What a new row of evidence changes.
LEMMA Recorded ==
  ASSUME NEW t \in Tasks, NEW id, NEW revision, NEW kind, NEW status,
         AddEvidence(t, id, revision, kind, status)
  PROVE  \E w : /\ evidence' = evidence \cup {w} /\ task' = task
                /\ w.id = id /\ w.revision = task[t].head /\ w.kind = kind /\ w.status = status
                /\ Failed(t)' = IF status = "failed" THEN Failed(t) \cup {w} ELSE Failed(t)
                /\ \A other : other # id => (Free(other)' <=> Free(other))
<1> DEFINE row == [id |-> id, task |-> t, revision |-> revision, kind |-> kind,
                   status |-> status, stale |-> FALSE]
<1>1. PICK w : w = row
  OBVIOUS
<1>2. /\ evidence' = evidence \cup {w} /\ task' = task /\ w.id = id /\ w.revision = task[t].head
      /\ w.kind = kind /\ w.status = status /\ w.task = t
  BY <1>1 DEF AddEvidence
<1>3. Failed(t)' = IF status = "failed" THEN Failed(t) \cup {w} ELSE Failed(t)
  BY <1>2 DEF Failed
<1>4. \A other : other # id => (Free(other)' <=> Free(other))
  BY <1>2 DEF Free
<1> QED BY <1>2, <1>3, <1>4

\* A review that is recovered leaves its task blocked a little longer.
LEMMA RecordRecoveryStep ==
  ASSUME TaskTypeOK, Typed, AllSound, AllDriving, NEW p \in Processes, RecordRecovery(p)
  PROVE  AllSound' /\ Turns(p)
<1>1. process[p] \in ProcessRow /\ process[p].pc = "evidence" /\ Goto(p, "recover")
  BY DEF Typed, RecordRecovery, At
<1>2. PICK t \in Tasks : t = Own(p) /\ InRecovery(process[p], t)
  BY <1>1 DEF AllDriving, Driving, InHand, Own, Ended
<1>3. PICK w : /\ evidence' = evidence \cup {w} /\ task' = task
               /\ w.id = <<"review-format-recovered", task[t].repairs>>
               /\ w.revision = task[t].head
               /\ w.kind = "independent-review" /\ w.status = "passed"
               /\ Failed(t)' = Failed(t)
               /\ \A other : other # w.id => (Free(other)' <=> Free(other))
  <2>1. AddEvidence(t, <<"review-format-recovered", task[t].repairs>>, process[p].head,
                    "independent-review", "passed")
    BY <1>2 DEF RecordRecovery, RecoveredReview, InRecovery
  <2> QED BY <2>1, Recorded
<1>4. UNCHANGED <<ledgerVars, authVars, worktree>> /\ task[t].state = "blocked"
  BY <1>2 DEF RecordRecovery, OnTaskOnly, InRecovery
<1>5. Sound(t) /\ Standing(t) = "blocked" /\ Standing(t)' = "blocked"
  BY <1>3, <1>4 DEF AllSound, Standing
<1>6. task[t].head \in Nat /\ task[t].repairs \in Nat
  BY <1>2, <1>5, Bases DEF Sound, Fits, InRecovery, TaskTypeOK, TaskRow
<1>7. Sound(t)'
  <2>1. Fits(t, Standing(t))'
    BY <1>3, <1>4, <1>5 DEF Sound, Fits, Reviewed
  <2>2. ASSUME NEW v \in evidence' PROVE Evidences(t, v)'
    <3>1. CASE v \in evidence
      BY <1>3, <1>5, <3>1 DEF Sound, Evidences
    <3>2. CASE v = w
      BY <1>3, <1>6, <3>2 DEF Evidences
    <3> QED BY <1>3, <3>1, <3>2
  <2> QED BY <1>3, <1>4, <1>5, <2>1, <2>2 DEF Sound
<1>8. ASSUME NEW row \in ProcessRow, row = [process[p] EXCEPT !.pc = "recover"]
      PROVE  InHand(row, t)'
  <2>1. /\ row.pc = "recover" /\ row.exec = process[p].exec /\ row.head = process[p].head
        /\ row.attempt = process[p].attempt
    BY <1>1, <1>8 DEF ProcessRow
  <2>2. InRecovery(row, t)'
    BY <1>2, <1>3, <1>4, <2>1 DEF InRecovery, LastReview, ReviewCalls, ledgerVars
  <2> QED BY <2>1, <2>2 DEF InHand, Outside
<1>9. Turns(p)
  BY <1>1, <1>2, <1>8, GotoTurns DEF Points
<1> QED BY <1>7, <1>9, OneTask DEF AllSound

LEMMA PackageStep ==
  ASSUME TaskTypeOK, Typed, AllSound, AllDriving, NEW p \in Processes, Package(p)
  PROVE  AllSound' /\ Turns(p)
<1>1. process[p] \in ProcessRow /\ process[p].pc = "package" /\ Goto(p, "advance")
  BY DEF Typed, Package, At
<1>2. PICK t \in Tasks : t = Own(p) /\ InTurn(process[p], t)
  BY <1>1, TurnOf DEF Outside, Ended
<1>3. PICK w : /\ evidence' = evidence \cup {w} /\ task' = task
               /\ w.id = <<"approval-package", 0>>
               /\ w.revision = task[t].head
               /\ w.kind = "approval-package" /\ w.status = "passed"
               /\ Failed(t)' = Failed(t)
  <2>1. AddEvidence(t, <<"approval-package", 0>>, process[p].head, "approval-package", "passed")
    BY <1>2 DEF Package
  <2> QED BY <2>1, Recorded
<1>4. /\ UNCHANGED <<ledgerVars, authVars, worktree>>
      /\ task[t].state = "packaging" /\ process[p].from = "packaging"
      /\ worktree[t] = task[t].head
  BY <1>1, <1>2 DEF Package, OnTaskOnly, InTurn, Open
<1>5. Sound(t) /\ Standing(t) = "packaging" /\ Standing(t)' = "packaging"
  BY <1>3, <1>4 DEF AllSound, Standing
<1>6. task[t].head \in Nat /\ task[t].repairs \in Nat
  BY <1>4, <1>5, Bases DEF Sound, Fits, TaskTypeOK, TaskRow
<1>7. Sound(t)'
  <2>1. Excused(t)'
    <3>1. Excused(t) /\ exec' = exec /\ recovered' = recovered
      BY <1>4, <1>5 DEF Sound, Fits, Reviewed, ledgerVars
    <3> QED BY <1>3, <3>1 DEF Excused, Unfound, LastReview, ReviewCalls
  <2>2. Fits(t, Standing(t))'
    BY <1>4, <1>5, <2>1 DEF Sound, Fits
  <2>3. ASSUME NEW v \in evidence' PROVE Evidences(t, v)'
    <3>1. CASE v \in evidence
      BY <1>3, <1>5, <3>1 DEF Sound, Evidences
    <3>2. CASE v = w
      BY <1>3, <1>6, <3>2 DEF Evidences
    <3> QED BY <1>3, <3>1, <3>2
  <2> QED BY <1>3, <1>4, <1>5, <2>2, <2>3 DEF Sound
<1>8. ASSUME NEW row \in ProcessRow, row = [process[p] EXCEPT !.pc = "advance"]
      PROVE  InHand(row, t)'
  <2>1. row.pc = "advance" /\ row.from = "packaging" /\ row.verdict # "rejected"
    BY <1>1, <1>2, <1>4, <1>8 DEF ProcessRow, InTurn
  <2>2. InTurn(row, t)'
    BY <1>3, <1>4, <2>1 DEF InTurn, Onwards
  <2> QED BY <2>1, <2>2 DEF InHand, Outside
<1>9. Turns(p)
  BY <1>1, <1>2, <1>8, GotoTurns DEF Points
<1> QED BY <1>7, <1>9, OneTask DEF AllSound

\* A verdict of this attempt comes after everything that is recorded, and if it
\* is a failure it is the latest.
LEMMA RecordStep ==
  ASSUME TaskTypeOK, Typed, AllSound, AllDriving, NEW p \in Processes, Record(p)
  PROVE  AllSound' /\ Turns(p)
<1>1. process[p] \in ProcessRow /\ process[p].pc = "record"
  BY DEF Typed, Record, At
<1>2. PICK t \in Tasks : t = Own(p) /\ InTurn(process[p], t)
  BY <1>1, TurnOf DEF Outside, Ended
<1> DEFINE stage == process[p].from
           a == task[t].repairs
           status == IF process[p].verdict = "passed" THEN "passed" ELSE "failed"
           kind == IF stage = "verifying" THEN "independent-check" ELSE "independent-review"
           name == IF stage = "verifying" THEN "verification" ELSE "review"
<1>3. /\ stage \in {"verifying", "reviewing"} /\ task[t].state = stage
      /\ Open(t, stage) /\ process[p].head = task[t].head /\ process[p].attempt = a
      /\ process[p].verdict \in {"passed", "rejected", "stopped"}
  BY <1>1, <1>2 DEF InTurn, ProcessRow, Verdicts
<1>4. PICK w : /\ evidence' = evidence \cup {w} /\ task' = task
               /\ w.id = <<name, a>> /\ w.revision = task[t].head
               /\ w.kind = kind /\ w.status = status
               /\ Failed(t)' = IF status = "failed" THEN Failed(t) \cup {w} ELSE Failed(t)
               /\ \A other : other # <<name, a>> => (Free(other)' <=> Free(other))
  <2>1. StageEvidence[stage] = <<name, kind>>
    BY <1>3 DEF StageEvidence
  <2>2. AddEvidence(t, <<name, a>>, process[p].head, kind, status)
    BY <1>2, <1>3, <2>1 DEF Record, From
  <2> HIDE DEF name, kind, status, a
  <2> QED BY <2>2, Recorded
<1>5. UNCHANGED <<ledgerVars, authVars, worktree>>
  BY DEF Record, OnTaskOnly
<1>6. Sound(t) /\ Standing(t) = stage /\ Standing(t)' = stage
  BY <1>3, <1>4, <1>5 DEF AllSound, Standing
<1>7. task[t].head \in Nat /\ a \in Nat /\ worktree[t] = task[t].head
  BY <1>3, <1>6, Bases DEF Sound, Fits, Open, TaskTypeOK, TaskRow
<1>8. Free(<<"review", a>>) /\ (stage = "verifying" => Free(<<"verification", a>>)) /\ Unfound(t)
  BY <1>3, <1>6 DEF Sound, Fits, Open
<1>9. Sound(t)'
  <2>1. stage = "verifying" => Unfound(t)' /\ Free(<<"review", a>>)'
    BY <1>3, <1>4, <1>8 DEF Unfound
  <2>2. Free(<<"approval-package", 0>>)'
    BY <1>3, <1>4, <1>6 DEF Sound, Fits
  <2>3. Fits(t, Standing(t))'
    BY <1>3, <1>4, <1>5, <1>6, <2>1, <2>2 DEF Sound, Fits, Reviewed
  <2>4. ASSUME NEW v \in evidence' PROVE Evidences(t, v)'
    <3>1. CASE v \in evidence
      BY <1>4, <1>6, <3>1 DEF Sound, Evidences
    <3>2. CASE v = w
      <4>1. a \in 0..a /\ task[t].head <= task[t].head
        BY <1>7
      <4> QED BY <1>3, <1>4, <3>2, <4>1 DEF Evidences
    <3> QED BY <1>4, <3>1, <3>2
  <2> QED BY <1>3, <1>4, <1>5, <1>6, <2>3, <2>4 DEF Sound
<1>10. status = "failed" => Latest(t)'
  <2> SUFFICES ASSUME status = "failed"
               PROVE  \A u \in Failed(t) : Earlier(u, w)
    BY <1>4 DEF Latest
  <2> SUFFICES ASSUME NEW u \in Failed(t) PROVE Earlier(u, w)
    OBVIOUS
  <2>1. u \in evidence /\ u.status = "failed"
    BY DEF Failed
  <2>2. PICK b \in 0..a : \/ u.id = <<"verification", b>> /\ u.kind = "independent-check"
                          \/ u.id = <<"review", b>> /\ u.kind = "independent-review"
    BY <1>6, <2>1 DEF Sound, Evidences
  <2>3. u.id # <<"review", a>> /\ (stage = "verifying" => u.id # <<"verification", a>>)
    BY <1>8, <2>1 DEF Free
  <2>4. u.id[2] = b /\ w.id[2] = a
    BY <1>4, <2>2
  <2>5. CASE b < a
    BY <2>4, <2>5 DEF Earlier
  <2>6. CASE b = a
    <3>1. u.kind = "independent-check" /\ stage = "reviewing"
      BY <1>3, <2>2, <2>3, <2>6
    <3> QED BY <1>4, <2>4, <2>6, <3>1 DEF Earlier
  <2> QED BY <1>7, <2>5, <2>6
<1> DEFINE pc == CASE process[p].verdict = "passed"   -> "advance"
                   [] process[p].verdict = "rejected" -> "count"
                   [] process[p].verdict = "stopped"  -> "block"
<1>11. Goto(p, pc)
  BY <1>2 DEF Record
<1>12. /\ process[p].verdict = "passed" => pc = "advance"
       /\ process[p].verdict = "rejected" => pc = "count"
       /\ process[p].verdict = "stopped" => pc = "block"
  OBVIOUS
<1> HIDE DEF pc
<1>13. pc \in {"advance", "count", "block"}
  BY <1>3, <1>12
<1>14. ASSUME NEW row \in ProcessRow, row = [process[p] EXCEPT !.pc = pc]
       PROVE  InHand(row, t)'
  <2>1. /\ row.pc = pc /\ row.from = stage /\ row.head = process[p].head
        /\ row.attempt = process[p].attempt /\ row.verdict = process[p].verdict
    BY <1>1, <1>14 DEF ProcessRow
  <2>2. stage \in DOMAIN RoleOf /\ stage \in DOMAIN Onwards
    BY <1>3 DEF RoleOf, Onwards
  <2>3. task'[t].state = stage /\ task'[t].head = task[t].head /\ task'[t].repairs = a
        /\ worktree'[t] = task[t].head
    BY <1>3, <1>4, <1>5, <1>7
  <2>4. pc = "advance" => Unfound(t)'
    BY <1>3, <1>4, <1>8, <1>12 DEF Unfound
  <2>5. pc = "count" => Latest(t)'
    BY <1>3, <1>10, <1>12
  <2>6. InTurn(row, t)'
    <3>1. CASE pc = "advance"
      <4>1. row.verdict = "passed"
        BY <1>3, <1>12, <2>1, <3>1
      <4> QED BY <1>3, <2>1, <2>2, <2>3, <2>4, <3>1, <4>1 DEF InTurn
    <3>2. CASE pc = "count"
      <4>1. row.verdict = "rejected"
        BY <1>3, <1>12, <2>1, <3>2
      <4> QED BY <1>3, <2>1, <2>2, <2>3, <2>5, <3>2, <4>1 DEF InTurn
    <3>3. CASE pc = "block"
      BY <1>3, <2>1, <2>2, <2>3, <3>3 DEF InTurn
    <3> QED BY <1>13, <3>1, <3>2, <3>3
  <2> QED BY <1>13, <2>1, <2>6 DEF InHand, Outside, Ended
<1>15. pc \in Points \ {"ready"}
  BY <1>13 DEF Points
<1>16. Turns(p)
  BY <1>2, <1>11, <1>14, <1>15, GotoTurns
<1> QED BY <1>9, <1>16, OneTask DEF AllSound

-----------------------------------------------------------------------------
(* Heads and repairs.                                                      *)

\* No evidence has the name of an attempt that is still to come.
LEMMA NamesToCome ==
  ASSUME NEW t, task[t].repairs \in Nat, \A v \in evidence : Evidences(t, v)
  PROVE  /\ Free(<<"verification", task[t].repairs + 1>>)
         /\ Free(<<"review", task[t].repairs + 1>>)
BY DEF Free, Evidences

LEMMA CountRejectionStep ==
  ASSUME TaskTypeOK, Typed, AllSound, AllDriving, NEW p \in Processes, CountRejection(p)
  PROVE  AllSound' /\ Turns(p)
<1>1. process[p] \in ProcessRow /\ process[p].pc = "count"
  BY DEF Typed, CountRejection, At
<1>2. PICK t \in Tasks : t = Own(p) /\ InTurn(process[p], t)
  BY <1>1, TurnOf DEF Outside, Ended
<1>3. PICK s \in Signatures : RecordFailure(t, s)
  BY <1>2 DEF CountRejection
<1>4. /\ process[p].from \in {"verifying", "reviewing"} /\ task[t].state = process[p].from
      /\ worktree[t] = task[t].head /\ process[p].verdict = "rejected" /\ Latest(t)
  BY <1>1, <1>2 DEF InTurn
<1>5. UNCHANGED <<ledgerVars, authVars, worktree, evidence>>
  BY <1>3 DEF CountRejection, OnTaskOnly, RecordFailure
<1>6. Sound(t) /\ Standing(t) = task[t].state
  BY <1>4 DEF AllSound, Standing
<1>7. task[t] \in TaskRow /\ task[t].repairs \in Nat
  BY DEF TaskTypeOK, TaskRow
<1>8. Goto(p, IF task'[t].state = "blocked" THEN "look" ELSE "advance")
  BY <1>2 DEF CountRejection
<1>9. CASE MoveTo(t, "blocked")
  <2>1. task'[t] = [task[t] EXCEPT !.state = "blocked"]
    BY <1>9 DEF MoveTo, TaskTypeOK
  <2>2. Same(t) /\ task'[t].state = "blocked" /\ task'[t].moved = task[t].moved
    BY <1>5, <1>7, <2>1 DEF Same, TaskRow
  <2>3. Fits(t, "blocked")
    BY <1>4, <1>6 DEF Sound, Fits, Reviewed
  <2>4. Sound(t)'
    <3>1. Fits(t, "blocked")'
      BY <1>5, <2>2, <2>3, SameFits DEF ledgerVars
    <3> QED BY <1>6, <2>2, <3>1, SameFacts DEF Sound, Standing
  <2>5. ASSUME NEW row \in ProcessRow, row = [process[p] EXCEPT !.pc = "look"]
        PROVE  InHand(row, t)'
    <3>1. row.pc = "look"
      BY <1>1, <2>5 DEF ProcessRow
    <3>2. Open(t, "blocked")
      BY <1>4 DEF Open
    <3>3. Open(t, task[t].state)'
      BY <2>2, <3>2, SameFacts
    <3> QED BY <3>1, <3>3 DEF InHand, Outside
  <2>6. Turns(p)
    BY <1>2, <1>8, <2>2, <2>5, GotoTurns DEF Points
  <2> QED BY <2>4, <2>6, OneTask DEF AllSound
<1>10. CASE task' = [task EXCEPT ![t].repairs = @ + 1]
  <2>1. task'[t] = [task[t] EXCEPT !.repairs = @ + 1]
    BY <1>10 DEF TaskTypeOK
  <2>2. /\ task'[t].state = task[t].state /\ task'[t].moved = task[t].moved
        /\ task'[t].head = task[t].head /\ task'[t].repairs = task[t].repairs + 1
    BY <1>7, <2>1 DEF TaskRow
  <2>3. Unnamed(t)'
    <3>1. /\ Free(<<"verification", task[t].repairs + 1>>)
          /\ Free(<<"review", task[t].repairs + 1>>)
      BY <1>6, <1>7, NamesToCome DEF Sound
    <3> QED BY <1>5, <2>2, <3>1 DEF Unnamed, Free
  <2>4. Latest(t)' /\ (Unfound(t) => Unfound(t)')
    BY <1>4, <1>5, <2>2 DEF Latest, Unfound, Failed
  <2>5. Sound(t)'
    <3>1. Standing(t)' = task[t].state
      BY <1>4, <2>2 DEF Standing
    <3>2. Fits(t, Standing(t))'
      BY <1>4, <1>5, <1>6, <2>3, <2>4, <3>1 DEF Sound, Fits, Reviewed, Unnamed, Free
    <3>3. \A v \in evidence' : Evidences(t, v)'
      <4> SUFFICES ASSUME NEW v \in evidence PROVE Evidences(t, v)'
        BY <1>5
      <4>1. Evidences(t, v)
        BY <1>6 DEF Sound
      <4>2. 0..task[t].repairs \subseteq 0..task'[t].repairs
        BY <1>7, <2>2
      <4> QED BY <2>2, <4>1, <4>2 DEF Evidences
    <3> QED BY <1>4, <1>6, <2>2, <3>2, <3>3 DEF Sound
  <2>6. ASSUME NEW row \in ProcessRow, row = [process[p] EXCEPT !.pc = "advance"]
        PROVE  InHand(row, t)'
    <3>1. row.pc = "advance" /\ row.from = process[p].from /\ row.verdict = "rejected"
      BY <1>1, <1>4, <2>6 DEF ProcessRow
    <3>2. InTurn(row, t)'
      BY <1>4, <1>5, <2>2, <2>3, <2>4, <3>1 DEF InTurn
    <3> QED BY <3>1, <3>2 DEF InHand, Outside
  <2>7. Goto(p, "advance")
    BY <1>4, <1>8, <2>2
  <2>8. Turns(p)
    BY <1>2, <2>6, <2>7, GotoTurns DEF Points
  <2> QED BY <2>5, <2>8, OneTask DEF AllSound
<1> QED BY <1>3, <1>9, <1>10 DEF RecordFailure

LEMMA RecordWorkspaceStep ==
  ASSUME TaskTypeOK, Typed, AllSound, AllDriving, NEW p \in Processes, RecordWorkspace(p)
  PROVE  AllSound' /\ Turns(p)
<1>1. process[p] \in ProcessRow /\ process[p].pc = "workspace"
  BY DEF Typed, RecordWorkspace, At
<1>2. PICK t \in Tasks : /\ t = Own(p) /\ task[t].state = "contracted"
                         /\ worktree[t] = BaseRevision /\ process[p].verdict # "rejected"
  BY <1>1 DEF AllDriving, Driving, InHand, Own, Ended
<1>3. /\ SetWorkspace(t, BaseRevision) /\ UNCHANGED <<ledgerVars, authVars, worktree>>
      /\ process' = [process EXCEPT ![p].from = "contracted", ![p].pc = "advance"]
  BY <1>2 DEF RecordWorkspace, OnTaskOnly
<1>4. /\ task'[t].state = "contracted" /\ task'[t].moved = task[t].moved
      /\ task'[t].head = BaseRevision /\ evidence' = evidence
  BY <1>2, <1>3 DEF SetWorkspace, TaskTypeOK, TaskRow
<1>5. Sound(t) /\ Standing(t) = "contracted" /\ Standing(t)' = "contracted"
  BY <1>2, <1>4 DEF AllSound, Standing
<1>6. Sound(t)'
  BY <1>2, <1>3, <1>4, <1>5 DEF Sound, Fits, Free, Reviewed
<1>7. PICK row : row = [[process[p] EXCEPT !.from = "contracted"] EXCEPT !.pc = "advance"]
  OBVIOUS
<1>8. /\ row \in ProcessRow /\ row.pc = "advance" /\ row.from = "contracted"
      /\ row.task = t /\ row.verdict # "rejected"
  BY <1>1, <1>2, <1>7 DEF ProcessRow, Points, States, Working, Own
<1>9. process' = [process EXCEPT ![p] = row]
  BY <1>1, <1>3, <1>7 DEF Typed
<1>10. InTurn(row, t)'
  BY <1>2, <1>3, <1>4, <1>8 DEF InTurn, Onwards
<1>11. Driving(row)'
  BY <1>8, <1>10 DEF Driving, InHand, Outside
<1> QED BY <1>6, <1>8, <1>9, <1>11, OneTask DEF AllSound, Turns

\* The evidence of a task whose head moves on is older, and no more than that.
LEMMA Aged ==
  ASSUME TaskTypeOK, NEW t \in Tasks, NEW r, SetHead(t, r)
  PROVE  \A v \in evidence' : \E w \in evidence :
           /\ v.id = w.id /\ v.revision = w.revision /\ v.kind = w.kind /\ v.status = w.status
<1> DEFINE aged(v) == StaleIf(v, v.task = t /\ v.revision # r)
<1>1. \A v \in evidence :
        /\ aged(v).id = v.id /\ aged(v).revision = v.revision
        /\ aged(v).kind = v.kind /\ aged(v).status = v.status
  BY DEF StaleIf, TaskTypeOK, EvidenceRow
<1>2. evidence' = evidence \/ evidence' = {aged(v) : v \in evidence}
  BY DEF SetHead
<1> HIDE DEF aged
<1> QED BY <1>1, <1>2

LEMMA AdoptStep ==
  ASSUME TaskTypeOK, Typed, AllSound, AllDriving, NEW p \in Processes, Adopt(p)
  PROVE  AllSound' /\ Turns(p)
<1>1. process[p] \in ProcessRow /\ process[p].pc = "adopt" /\ Goto(p, "advance")
  BY DEF Typed, Adopt, At
<1>2. PICK t \in Tasks : t = Own(p) /\ InTurn(process[p], t)
  BY <1>1, TurnOf DEF Outside, Ended
<1> PICK new : new = process[p].head
  OBVIOUS
<1>3. /\ process[p].from \in {"implementing", "repairing"} /\ task[t].state = process[p].from
      /\ process[p].verdict = "passed" /\ new = worktree[t] /\ Behind(new)
  BY <1>1, <1>2 DEF InTurn
<1>4. SetHead(t, new) /\ UNCHANGED <<ledgerVars, authVars, worktree>>
  BY <1>2 DEF Adopt, OnTaskOnly
<1>5. /\ task'[t].state = task[t].state /\ task'[t].moved = task[t].moved
      /\ task'[t].head = new /\ task'[t].repairs = task[t].repairs
  BY <1>4 DEF SetHead, TaskTypeOK, TaskRow
<1>6. \A v \in evidence' : \E w \in evidence :
           /\ v.id = w.id /\ v.revision = w.revision /\ v.kind = w.kind /\ v.status = w.status
  BY <1>4, Aged
<1>7. Sound(t) /\ Standing(t) = task[t].state /\ Standing(t)' = task[t].state
  BY <1>3, <1>5 DEF AllSound, Standing
<1>8. Behind(new)' /\ new \in Nat
  <2>1. new \in Revisions
    BY <1>3, <1>7 DEF Sound, Fits
  <2> QED BY <1>3, <1>6, <2>1, Bases DEF Behind
<1>9. \A id : Free(id) => Free(id)'
  BY <1>6 DEF Free
<1>10. Sound(t)'
  <2>1. evidence = {} => evidence' = {}
    BY <1>6
  <2>2. Unnamed(t) => Unnamed(t)'
    BY <1>5, <1>9 DEF Unnamed
  <2>3. Fits(t, Standing(t))'
    BY <1>3, <1>4, <1>7, <1>9, <2>1, <2>2 DEF Sound, Fits, Reviewed
  <2>4. ASSUME NEW v \in evidence' PROVE Evidences(t, v)'
    <3>1. PICK w \in evidence :
            v.id = w.id /\ v.revision = w.revision /\ v.kind = w.kind /\ v.status = w.status
      BY <1>6
    <3>2. Evidences(t, w)
      BY <1>7 DEF Sound
    <3>3. v.revision <= new
      <4>1. w.revision < new /\ w.revision \in Nat
        BY <1>3, Bases DEF Behind, TaskTypeOK, EvidenceRow
      <4> QED BY <1>8, <3>1, <4>1
    <3> QED BY <1>5, <3>1, <3>2, <3>3 DEF Evidences
  <2> QED BY <1>3, <1>5, <1>7, <2>3, <2>4 DEF Sound
<1>11. ASSUME NEW row \in ProcessRow, row = [process[p] EXCEPT !.pc = "advance"]
       PROVE  InHand(row, t)'
  <2>1. row.pc = "advance" /\ row.from = process[p].from /\ row.verdict = "passed"
    BY <1>1, <1>3, <1>11 DEF ProcessRow
  <2>2. InTurn(row, t)'
    <3>1. Behind(task[t].head)' /\ worktree'[t] = task'[t].head
      BY <1>3, <1>4, <1>5, <1>8 DEF Behind
    <3> QED BY <1>3, <1>5, <2>1, <3>1 DEF InTurn, Onwards
  <2> QED BY <2>1, <2>2 DEF InHand, Outside
<1>12. Turns(p)
  BY <1>1, <1>2, <1>11, GotoTurns DEF Points
<1> QED BY <1>10, <1>12, OneTask DEF AllSound

-----------------------------------------------------------------------------
(* The transitions of a turn.                                              *)

\* What a transition changes.
LEMMA Transits ==
  ASSUME TaskTypeOK, NEW t \in Tasks, NEW from, NEW to, Transition(t, from, to),
         worktree' = worktree
  PROVE  /\ Same(t)
         /\ task[t].state = from /\ task'[t].state = to /\ task'[t].moved = <<from, to>>
<1>1. /\ task'[t] = [task[t] EXCEPT !.state = to, !.moved = <<from, to>>]
      /\ task[t].state = from /\ evidence' = evidence /\ task[t] \in TaskRow
  BY DEF Transition, TaskTypeOK
<1> QED BY <1>1 DEF Same, TaskRow

\* After a stage the candidate fits the next one, which is open.
LEMMA NextStage ==
  ASSUME NEW t, NEW row, Sound(t), InTurn(row, t), row.pc = "advance",
         NEW to, to = IF row.verdict = "rejected" THEN "repairing" ELSE Onwards[row.from]
  PROVE  Fits(t, to) /\ Open(t, to) /\ to \in States /\ row.from # "authentication_required"
<1>1. row.from = task[t].state /\ worktree[t] = task[t].head
  BY DEF InTurn
<1>2. row.from # "authentication_required" /\ Standing(t) = row.from /\ Fits(t, row.from)
  <2>1. row.from # "authentication_required"
    BY DEF InTurn, Onwards
  <2> QED BY <1>1, <2>1 DEF Standing, Sound
<1>3. CASE row.verdict = "rejected"
  <2>1. /\ row.from \in {"verifying", "reviewing"} /\ Latest(t) /\ Unnamed(t)
        /\ to = "repairing"
    BY <1>3 DEF InTurn
  <2> QED BY <1>1, <1>2, <2>1 DEF Fits, Open, Reviewed, States, Working
<1>4. CASE row.verdict # "rejected"
  <2>1. /\ row.from \in DOMAIN Onwards /\ to = Onwards[row.from]
        /\ row.from \in {"implementing", "repairing"} => Behind(task[t].head)
        /\ row.from = "reviewing" => Unfound(t)
    BY <1>4 DEF InTurn
  <2>2. to \in States
    BY <2>1 DEF Onwards, States, Working
  <2>3. CASE row.from \in {"contracted", "workspace_ready"}
    BY <1>1, <1>2, <2>1, <2>2, <2>3 DEF Onwards, Fits, Open, Reviewed
  <2>4. CASE row.from \in {"implementing", "repairing"}
    <3>1. to = "implemented" /\ Unnamed(t)
      BY <1>2, <2>1, <2>4 DEF Onwards, Fits, Unnamed, Free
    <3> QED BY <1>1, <1>2, <2>1, <2>2, <2>4, <3>1 DEF Fits, Open, Reviewed
  <2>5. CASE row.from = "implemented"
    <3>1. to = "verifying" /\ Behind(task[t].head) /\ Unnamed(t)
      BY <1>2, <2>1, <2>5 DEF Onwards, Fits
    <3>2. Unfound(t)
      <4> SUFFICES ASSUME NEW v \in Failed(t), v.revision = task[t].head PROVE FALSE
        BY DEF Unfound
      <4>1. v.revision < task[t].head /\ task[t].head \in Nat
        BY <1>1, <1>2, <2>5, <3>1, Bases DEF Behind, Failed, Fits
      <4> QED BY <4>1
    <3> QED BY <1>1, <1>2, <2>2, <2>5, <3>1, <3>2 DEF Fits, Open, Reviewed, Unnamed
  <2>6. CASE row.from \in {"verifying", "verified"}
    BY <1>1, <1>2, <2>1, <2>2, <2>6 DEF Onwards, Fits, Open, Reviewed
  <2>7. CASE row.from \in {"reviewing", "review_complete", "packaging"}
    BY <1>1, <1>2, <2>1, <2>2, <2>7 DEF Onwards, Fits, Open, Reviewed, Excused
  <2> QED BY <2>1, <2>3, <2>4, <2>5, <2>6, <2>7 DEF Onwards
<1> QED BY <1>2, <1>3, <1>4

LEMMA MovedSound ==
  ASSUME NEW t, Sound(t), Same(t), NEW s, Fits(t, s),
         exec' = exec, recovered \subseteq recovered',
         task'[t].state = s, s # "authentication_required",
         task'[t].moved = HeldByReview => s \in {"blocked", "review_complete"}
  PROVE  Sound(t)'
<1>1. Standing(t)' = s
  BY DEF Standing
<1> QED BY <1>1, SameFits, SameFacts DEF Sound

LEMMA AdvanceStep ==
  ASSUME TaskTypeOK, Typed, AllSound, AllDriving, NEW p \in Processes, Advance(p)
  PROVE  AllSound' /\ Turns(p)
<1>1. process[p] \in ProcessRow /\ process[p].pc = "advance"
  BY DEF Typed, Advance, At
<1>2. PICK t \in Tasks : t = Own(p) /\ InTurn(process[p], t)
  BY <1>1, TurnOf DEF Outside, Ended
<1>3. PICK to : to = IF process[p].verdict = "rejected" THEN "repairing"
                                                        ELSE Onwards[From(p)]
  OBVIOUS
<1>4. /\ Transition(t, From(p), to)
      /\ UNCHANGED <<ledgerVars, authVars, worktree>>
      /\ IF From(p) = "workspace_ready"
         THEN process' = [process EXCEPT ![p].from = "implementing", ![p].pc = "reserve"]
         ELSE Goto(p, "look")
  BY <1>2, <1>3 DEF Advance, OnTaskOnly
<1>5. /\ Same(t) /\ task'[t].state = to /\ task'[t].moved = <<From(p), to>>
      /\ exec' = exec /\ recovered' = recovered
  BY <1>4, Transits DEF ledgerVars
<1>6. Sound(t) /\ Fits(t, to) /\ Open(t, to)
  BY <1>1, <1>2, <1>3, NextStage DEF AllSound, From
<1>7. to \notin {"authentication_required", "blocked"}
  BY <1>1, <1>2, <1>3 DEF InTurn, From, Onwards
<1>8. Sound(t)'
  <2>1. task'[t].moved # HeldByReview
    BY <1>5, <1>7 DEF HeldByReview
  <2> QED BY <1>5, <1>6, <1>7, <2>1, MovedSound
<1>9. Open(t, to)'
  BY <1>5, <1>6, SameFacts
<1>10. CASE From(p) = "workspace_ready"
  <2>1. to = "implementing" /\ process[p].head = task[t].head /\ process[p].attempt = task[t].repairs
    BY <1>1, <1>2, <1>3, <1>10 DEF From, InTurn, Onwards
  <2>2. PICK row : row = [[process[p] EXCEPT !.from = "implementing"] EXCEPT !.pc = "reserve"]
    OBVIOUS
  <2>3. /\ row \in ProcessRow /\ row.pc = "reserve" /\ row.from = "implementing"
        /\ row.task = t /\ row.head = process[p].head /\ row.attempt = process[p].attempt
    BY <1>1, <1>2, <2>2 DEF ProcessRow, Points, States, Working, Own
  <2>4. process' = [process EXCEPT ![p] = row]
    BY <1>1, <1>4, <1>10, <2>2 DEF Typed
  <2>5. InTurn(row, t)'
    BY <1>5, <1>9, <2>1, <2>3 DEF InTurn, RoleOf, Same
  <2>6. Driving(row)'
    BY <2>3, <2>5 DEF Driving, InHand, Outside
  <2> QED BY <1>8, <2>3, <2>4, <2>6, OneTask DEF AllSound, Turns
<1>11. CASE From(p) # "workspace_ready"
  <2>1. ASSUME NEW row \in ProcessRow, row = [process[p] EXCEPT !.pc = "look"]
        PROVE  InHand(row, t)'
    BY <1>1, <1>5, <1>9, <2>1 DEF InHand, Outside, ProcessRow
  <2>2. Turns(p)
    BY <1>2, <1>4, <1>11, <2>1, GotoTurns DEF Points
  <2> QED BY <1>8, <2>2, OneTask DEF AllSound
<1> QED BY <1>10, <1>11

LEMMA BlockStep ==
  ASSUME TaskTypeOK, Typed, AllSound, AllDriving, NEW p \in Processes, Block(p)
  PROVE  AllSound' /\ Turns(p)
<1>1. process[p] \in ProcessRow /\ process[p].pc = "block" /\ Goto(p, "look")
  BY DEF Typed, Block, At
<1>2. PICK t \in Tasks : t = Own(p) /\ InTurn(process[p], t)
  BY <1>1, TurnOf DEF Outside, Ended
<1>3. Transition(t, From(p), "blocked") /\ UNCHANGED <<ledgerVars, authVars, worktree>>
  BY <1>2 DEF Block, OnTaskOnly
<1>4. /\ Same(t) /\ task'[t].state = "blocked" /\ task[t].state = From(p)
      /\ exec' = exec /\ recovered' = recovered
  BY <1>3, Transits DEF ledgerVars
<1>5. From(p) \in DOMAIN RoleOf /\ worktree[t] = task[t].head
  BY <1>1, <1>2 DEF InTurn, From
<1>6. Sound(t) /\ Fits(t, "blocked") /\ Open(t, "blocked")
  <2>1. Sound(t) /\ Standing(t) = From(p)
    BY <1>4, <1>5, StagesOfCalls DEF AllSound, Standing
  <2> QED BY <1>5, <2>1 DEF Sound, Fits, Open, Reviewed, RoleOf
<1>7. Sound(t)'
  BY <1>4, <1>6, MovedSound
<1>8. Open(t, "blocked")'
  BY <1>4, <1>6, SameFacts
<1>9. ASSUME NEW row \in ProcessRow, row = [process[p] EXCEPT !.pc = "look"]
      PROVE  InHand(row, t)'
  BY <1>1, <1>4, <1>8, <1>9 DEF InHand, Outside, ProcessRow
<1>10. Turns(p)
  BY <1>1, <1>2, <1>9, GotoTurns DEF Points
<1> QED BY <1>7, <1>10, OneTask DEF AllSound

-----------------------------------------------------------------------------
(* Parking, and the commands.                                              *)

LEMMA ParkStep ==
  ASSUME TaskTypeOK, AuthTables, Typed, AllSound, AllDriving, NEW p \in Processes, Park(p)
  PROVE  AllSound' /\ Turns(p)
<1>1. process[p] \in ProcessRow /\ process[p].pc = "park" /\ Goto(p, "look")
  BY DEF Typed, Park, At
<1>2. PICK t \in Tasks : t = Own(p) /\ InTurn(process[p], t)
  BY <1>1, TurnOf DEF Outside, Ended
<1>3. \E e, c, s, refs : CheckpointAuthentication(t, e, c, s, refs) /\ worktree' = worktree
  BY <1>2 DEF Park
<1>4. /\ task[t].state \in Stages /\ MoveTo(t, "authentication_required")
      /\ checkpoint'[t].stage = task[t].state
      /\ UNCHANGED <<evidence, exec, recovered, worktree>>
  BY <1>3 DEF CheckpointAuthentication, Interrupted, AuthTables, ledgerVars
<1>5. /\ Same(t) /\ task'[t].state = "authentication_required"
      /\ task'[t].moved = task[t].moved
  BY <1>4 DEF Same, MoveTo, TaskTypeOK, TaskRow
<1>6. Sound(t) /\ Standing(t) = task[t].state /\ Open(t, task[t].state)
  <2>1. process[p].from = task[t].state /\ Open(t, process[p].from)
    BY <1>1, <1>2 DEF InTurn
  <2> QED BY <1>4, <2>1 DEF AllSound, Standing, Stages
<1>7. Sound(t)'
  <2>1. Standing(t)' = task[t].state
    BY <1>4, <1>5 DEF Standing
  <2>2. Fits(t, Standing(t))'
    <3>1. PICK s : s = task[t].state
      OBVIOUS
    <3>2. Fits(t, s) /\ Standing(t)' = s
      BY <1>6, <2>1, <3>1 DEF Sound
    <3>3. Fits(t, s)'
      BY <1>4, <1>5, <3>2, SameFits
    <3> QED BY <3>2, <3>3
  <2>3. Open(t, checkpoint[t].stage)'
    <3>1. PICK s : s = task[t].state
      OBVIOUS
    <3>2. Open(t, s)'
      BY <1>5, <1>6, <3>1, SameFacts
    <3> QED BY <1>4, <3>1, <3>2
  <2>4. task'[t].moved # HeldByReview
    BY <1>4, <1>5, <1>6 DEF Sound, Stages
  <2> QED BY <1>5, <1>6, <2>2, <2>3, <2>4, SameFacts DEF Sound
<1>8. ASSUME NEW row \in ProcessRow, row = [process[p] EXCEPT !.pc = "look"]
      PROVE  InHand(row, t)'
  <2>1. row.pc = "look"
    BY <1>1, <1>8 DEF ProcessRow
  <2>2. Open(t, "authentication_required")
    BY <1>6 DEF Open
  <2>3. Open(t, task[t].state)'
    BY <1>5, <2>2, SameFacts
  <2> QED BY <2>1, <2>3 DEF InHand, Outside
<1>9. Turns(p)
  BY <1>1, <1>2, <1>8, GotoTurns DEF Points
<1> QED BY <1>7, <1>9, OneTask DEF AllSound

\* What the task was parked in is still open.
LEMMA ResumeStep ==
  ASSUME TaskTypeOK, AuthTables, AllInStep, Typed, AllSound, NEW p \in Processes,
         NEW t \in Tasks, Resume(p, t)
  PROVE  AllSound' /\ Turns(p) /\ Live(p)'
<1>1. PICK s : s = checkpoint[t].stage
  OBVIOUS
<1>2. /\ task[t].state = "authentication_required" /\ MoveTo(t, s)
      /\ UNCHANGED <<evidence, exec, recovered, worktree>>
      /\ process' = [process EXCEPT ![p].task = t, ![p].pc = "look"]
  BY <1>1 DEF Resume, ResumeAfterAuthentication, ledgerVars
<1>3. s \in Stages
  <2>1. Parked(t)
    BY DEF Resume, ResumeAfterAuthentication, Parked, ActiveStatuses
  <2> QED BY <1>1, <2>1 DEF AllInStep, InStep
<1>4. Same(t) /\ task'[t].state = s /\ task'[t].moved = task[t].moved
  BY <1>2 DEF Same, MoveTo, TaskTypeOK, TaskRow
<1>5. Sound(t) /\ Fits(t, s) /\ Open(t, s)
  BY <1>1, <1>2 DEF AllSound, Sound, Standing
<1>6. Sound(t)'
  BY <1>2, <1>3, <1>4, <1>5, MovedSound DEF Sound, Stages
<1>7. Open(t, s)'
  BY <1>4, <1>5, SameFacts
<1>8. PICK row : row = [[process[p] EXCEPT !.task = t] EXCEPT !.pc = "look"]
  OBVIOUS
<1>9. process[p] \in ProcessRow
  BY DEF Typed
<1>10. row \in ProcessRow /\ row.pc = "look" /\ row.task = t
  BY <1>8, <1>9 DEF ProcessRow, Points
<1>11. process' = [process EXCEPT ![p] = row] /\ process'[p] = row
  BY <1>2, <1>8, <1>9 DEF Typed
<1>12. Driving(row)'
  BY <1>4, <1>7, <1>10 DEF Driving, InHand, Outside
<1> QED BY <1>6, <1>10, <1>11, <1>12, OneTask DEF AllSound, Turns, Live, Ended

\* A review that is recovered was the last one, and was rejected for its
\* presentation.
LEMMA RecoverStep ==
  ASSUME TaskTypeOK, Typed, AllSound, AllDriving, NEW p \in Processes, Recover(p)
  PROVE  AllSound' /\ Turns(p)
<1>1. process[p] \in ProcessRow /\ process[p].pc = "recover" /\ Goto(p, "look")
  BY DEF Typed, Recover, At
<1>2. PICK t \in Tasks : t = Own(p) /\ InRecovery(process[p], t)
  BY <1>1 DEF AllDriving, Driving, InHand, Own, Ended
<1>3. PICK v \in evidence : RecoverReviewFormat(t, Call(p), v)
  BY <1>2 DEF Recover
<1>4. /\ MoveTo(t, "review_complete") /\ task[t].state = "blocked"
      /\ UNCHANGED <<evidence, exec, worktree>> /\ recovered' = recovered \cup {Call(p)}
      /\ exec[Call(p)].result = "format"
  BY <1>3 DEF RecoverReviewFormat, BlockedByReview, RejectedForFormat, Recover, OnLedgerOnly
<1>5. Same(t) /\ task'[t].state = "review_complete" /\ task'[t].moved = task[t].moved
  BY <1>4 DEF Same, MoveTo, TaskTypeOK, TaskRow
<1>6. Sound(t) /\ Standing(t) = "blocked"
  BY <1>4 DEF AllSound, Standing
<1>7. Excused(t)'
  <2>1. LastReview(t, Call(p)) /\ Call(p) \in recovered'
    BY <1>2, <1>4 DEF InRecovery, Call
  <2>2. PICK e : e = Call(p)
    OBVIOUS
  <2>3. e \in recovered' /\ LastReview(t, e)' /\ exec'[e].result = "format"
    BY <1>4, <2>1, <2>2 DEF LastReview, ReviewCalls
  <2> QED BY <2>3 DEF Excused
<1>8. Sound(t)'
  <2>1. Standing(t)' = "review_complete"
    BY <1>5 DEF Standing
  <2>2. Fits(t, Standing(t))'
    BY <1>4, <1>6, <1>7, <2>1 DEF Sound, Fits, Free
  <2> QED BY <1>5, <1>6, <2>2, SameFacts DEF Sound
<1>9. ASSUME NEW row \in ProcessRow, row = [process[p] EXCEPT !.pc = "look"]
      PROVE  InHand(row, t)'
  <2>1. row.pc = "look"
    BY <1>1, <1>9 DEF ProcessRow
  <2>2. Open(t, "review_complete")
    BY <1>2 DEF InRecovery, Open
  <2>3. Open(t, task[t].state)'
    BY <1>5, <2>2, SameFacts
  <2> QED BY <2>1, <2>3 DEF InHand, Outside
<1>10. Turns(p)
  BY <1>1, <1>2, <1>9, GotoTurns DEF Points
<1> QED BY <1>8, <1>10, OneTask DEF AllSound

\* What run makes of a task's row.
LEMMA RunCreates ==
  ASSUME TaskTypeOK, NEW p \in Processes, NEW t \in Tasks, Run(p, t)
  PROVE  /\ TaskTypeOK'
         /\ task'[t].state = "contracted" /\ task'[t].head = task[t].head
         /\ task'[t].repairs = task[t].repairs
         /\ task'[t].moved = <<"received", "contracted">>
         /\ \A u \in Tasks : u # t => task'[u] = task[u]
<1> DEFINE row == [[[task[t] EXCEPT !.state = "contracted"] EXCEPT !.contract = TRUE]
                             EXCEPT !.moved = <<"received", "contracted">>]
<1>1. task \in [Tasks -> TaskRow] /\ task[t] \in TaskRow
  BY DEF TaskTypeOK
<1>2. task' = [task EXCEPT ![t] = row]
  BY <1>1 DEF Run, TaskRow
<1>3. /\ row \in TaskRow /\ row.state = "contracted" /\ row.head = task[t].head
      /\ row.repairs = task[t].repairs /\ row.moved = <<"received", "contracted">>
  <2>1. <<"received", "contracted">> \in States \X States
    BY DEF States, Working
  <2> QED BY <1>1, <2>1 DEF TaskRow, States, Working
<1> HIDE DEF row
<1>4. task' \in [Tasks -> TaskRow]
  BY <1>1, <1>2, <1>3
<1>5. TaskTypeOK'
  BY <1>4 DEF TaskTypeOK, Run
<1> QED BY <1>1, <1>2, <1>3, <1>5

LEMMA RunStep ==
  ASSUME TaskTypeOK, Typed, AllSound, AllDriving, NEW p \in Processes, NEW t \in Tasks, Run(p, t)
  PROVE  /\ AllSound' /\ Turns(p) /\ Live(p)'
         /\ worktree' \in [Tasks -> Revisions \cup {NoRevision}]
<1>1. /\ process[p] = Unstarted /\ process[p] \in ProcessRow
      /\ task[t].state = "absent"
      /\ process' = [process EXCEPT ![p].task = t, ![p].pc = "workspace"]
  BY DEF Run, At, Exists, Typed, AllDriving, Driving
<1>2. worktree'[t] = BaseRevision /\ worktree' \in [Tasks -> Revisions \cup {NoRevision}]
  BY Bases DEF Run, Typed
<1>3. evidence = {} /\ evidence' = {}
  BY <1>1 DEF Run, AllSound, Sound, Fits, Standing
<1>4. /\ task'[t].state = "contracted" /\ task'[t].moved # HeldByReview
  BY RunCreates DEF HeldByReview
<1>5. Sound(t)'
  <2>1. Standing(t)' = "contracted"
    BY <1>4 DEF Standing
  <2> QED BY <1>2, <1>3, <1>4, <2>1, Bases DEF Sound, Fits, Free, Reviewed
<1>6. PICK row : row = [[process[p] EXCEPT !.task = t] EXCEPT !.pc = "workspace"]
  OBVIOUS
<1>7. /\ row \in ProcessRow /\ row.pc = "workspace" /\ row.task = t /\ row.verdict # "rejected"
  <2>1. process[p].verdict = "none"
    BY <1>1 DEF Unstarted
  <2> QED BY <1>1, <1>6, <2>1 DEF ProcessRow, Points
<1>8. process' = [process EXCEPT ![p] = row] /\ process'[p] = row
  BY <1>1, <1>6 DEF Typed
<1>9. Driving(row)'
  BY <1>2, <1>4, <1>7 DEF Driving, InHand, Outside
<1> QED BY <1>2, <1>5, <1>7, <1>8, <1>9, OneTask DEF AllSound, Turns, Live, Ended

-----------------------------------------------------------------------------
(* Every step is an operation of the store, but for two.                   *)

\* The head of a task that is at work is a revision.
LEMMA HeadIsThere ==
  ASSUME AllSound, NEW t \in Tasks, worktree[t] = task[t].head,
         task[t].state \notin {"absent", "authentication_required"}
  PROVE  task[t].head \in Revisions
BY DEF AllSound, Sound, Fits, Standing

LEMMA NamesAreIds ==
  ASSUME NEW name \in {"verification", "review", "review-format-recovered", "approval-package"},
         NEW a \in 0..2
  PROVE  <<name, a>> \in EvidenceIds
BY DeliveryAssumption

\* The operations of the task half.
LEMMA TaskOperation ==
  ASSUME TaskNext, UNCHANGED <<ledgerVars, authVars>>
  PROVE  AuthNext
BY DEF AuthNext, StoreNext

LEMMA CallOperation ==
  ASSUME LedgerNext, UNCHANGED authVars
  PROVE  AuthNext
BY DEF AuthNext, StoreNext

LEMMA EvidenceOperation ==
  ASSUME NEW t \in Tasks, NEW id \in EvidenceIds, NEW r \in Revisions,
         NEW kind \in EvidenceKinds, NEW status \in EvidenceStatuses,
         AddEvidence(t, id, r, kind, status), UNCHANGED <<ledgerVars, authVars>>
  PROVE  AuthNext
BY TaskOperation DEF TaskNext

LEMMA StepWritesEvidence ==
  ASSUME TaskTypeOK, Typed, AllSound, AllDriving, NEW p \in Processes,
         RecordRecovery(p) \/ Record(p) \/ Package(p)
  PROVE  AuthNext
<1>1. process[p] \in ProcessRow /\ process[p].attempt \in 0..2
  BY DEF Typed, ProcessRow
<1>2. CASE RecordRecovery(p)
  <2>1. process[p].pc = "evidence"
    BY <1>2 DEF RecordRecovery, At
  <2>2. PICK t \in Tasks : t = Own(p) /\ InRecovery(process[p], t)
    BY <2>1 DEF AllDriving, Driving, InHand, Own, Ended
  <2>3. process[p].head \in Revisions
    BY <2>2, HeadIsThere DEF InRecovery
  <2>4. AddEvidence(t, <<"review-format-recovered", process[p].attempt>>, process[p].head,
                    "independent-review", "passed") /\ UNCHANGED <<ledgerVars, authVars>>
    BY <1>2, <2>2 DEF RecordRecovery, RecoveredReview, OnTaskOnly
  <2> QED BY <1>1, <2>3, <2>4, NamesAreIds, EvidenceOperation DEF EvidenceKinds, EvidenceStatuses
<1>3. CASE Package(p)
  <2>1. process[p].pc = "package"
    BY <1>3 DEF Package, At
  <2>2. PICK t \in Tasks : t = Own(p) /\ InTurn(process[p], t)
    BY <2>1, TurnOf DEF Outside, Ended
  <2>3. process[p].head \in Revisions
    BY <2>1, <2>2, HeadIsThere DEF InTurn, Open
  <2>4. AddEvidence(t, <<"approval-package", 0>>, process[p].head, "approval-package", "passed")
        /\ UNCHANGED <<ledgerVars, authVars>>
    BY <1>3, <2>2 DEF Package, OnTaskOnly
  <2> QED BY <2>3, <2>4, NamesAreIds, EvidenceOperation DEF EvidenceKinds, EvidenceStatuses
<1>4. CASE Record(p)
  <2>1. process[p].pc = "record"
    BY <1>4 DEF Record, At
  <2>2. PICK t \in Tasks : t = Own(p) /\ InTurn(process[p], t)
    BY <2>1, TurnOf DEF Outside, Ended
  <2>3. process[p].head \in Revisions /\ process[p].from \in {"verifying", "reviewing"}
    BY <2>1, <2>2, HeadIsThere DEF InTurn, Open
  <2>4. PICK row : row = StageEvidence[process[p].from]
    OBVIOUS
  <2>5. row[1] \in {"verification", "review"} /\ row[2] \in EvidenceKinds
    BY <2>3, <2>4 DEF StageEvidence, EvidenceKinds
  <2>6. PICK status \in EvidenceStatuses :
          AddEvidence(t, <<row[1], process[p].attempt>>, process[p].head, row[2], status)
    BY <1>4, <2>2, <2>4 DEF Record, From, EvidenceStatuses
  <2>7. <<row[1], process[p].attempt>> \in EvidenceIds /\ UNCHANGED <<ledgerVars, authVars>>
    BY <1>1, <1>4, <2>5, NamesAreIds DEF Record, OnTaskOnly
  <2> QED BY <2>3, <2>5, <2>6, <2>7, EvidenceOperation
<1> QED BY <1>2, <1>3, <1>4

LEMMA StepMovesTask ==
  ASSUME TaskTypeOK, Typed, AllSound, AllDriving, NEW p \in Processes,
         RecordWorkspace(p) \/ Advance(p) \/ Block(p) \/ Adopt(p) \/ CountRejection(p)
  PROVE  AuthNext
<1>1. CASE RecordWorkspace(p)
  <2>1. process[p].pc = "workspace" /\ process[p].task \in Tasks
    BY <1>1 DEF RecordWorkspace, At, AllDriving, Driving, Ended
  <2> QED BY <1>1, <2>1, Bases, TaskOperation DEF RecordWorkspace, Own, OnTaskOnly, TaskNext
<1>2. CASE Advance(p)
  <2>1. process[p].pc = "advance" /\ process[p] \in ProcessRow
    BY <1>2 DEF Advance, At, Typed
  <2>2. PICK t \in Tasks : t = Own(p) /\ InTurn(process[p], t)
    BY <2>1, TurnOf DEF Outside, Ended
  <2>3. PICK to : to = IF process[p].verdict = "rejected" THEN "repairing"
                                                          ELSE Onwards[process[p].from]
    OBVIOUS
  <2>4. to \in States /\ process[p].from \in States
    BY <2>1, <2>2, <2>3, NextStage DEF AllSound, ProcessRow
  <2>5. Transition(t, process[p].from, to) /\ UNCHANGED <<ledgerVars, authVars>>
    BY <1>2, <2>2, <2>3 DEF Advance, From, OnTaskOnly
  <2> QED BY <2>4, <2>5, TaskOperation DEF TaskNext
<1>3. CASE Block(p)
  <2>1. process[p].pc = "block" /\ process[p] \in ProcessRow
    BY <1>3 DEF Block, At, Typed
  <2>2. PICK t \in Tasks : t = Own(p) /\ InTurn(process[p], t)
    BY <2>1, TurnOf DEF Outside, Ended
  <2>3. process[p].from \in States /\ "blocked" \in States
    BY <2>1 DEF ProcessRow, States
  <2>4. Transition(t, process[p].from, "blocked") /\ UNCHANGED <<ledgerVars, authVars>>
    BY <1>3, <2>2 DEF Block, From, OnTaskOnly
  <2> QED BY <2>3, <2>4, TaskOperation DEF TaskNext
<1>4. CASE Adopt(p)
  <2>1. process[p].pc = "adopt"
    BY <1>4 DEF Adopt, At
  <2>2. PICK t \in Tasks : t = Own(p) /\ InTurn(process[p], t)
    BY <2>1, TurnOf DEF Outside, Ended
  <2>3. process[p].head \in Revisions
    BY <2>1, <2>2 DEF InTurn, AllSound, Sound, Fits, Standing
  <2> QED BY <1>4, <2>2, <2>3, TaskOperation DEF Adopt, OnTaskOnly, TaskNext
<1>5. CASE CountRejection(p)
  <2>1. process[p].pc = "count" /\ process[p].task \in Tasks
    BY <1>5 DEF CountRejection, At, AllDriving, Driving, Ended
  <2> QED BY <1>5, <2>1, TaskOperation DEF CountRejection, Own, OnTaskOnly, TaskNext
<1> QED BY <1>1, <1>2, <1>3, <1>4, <1>5

LEMMA StepHandlesCall ==
  ASSUME TaskTypeOK, Typed, AllSound, AllDriving, NEW p \in Processes,
         \/ Reserve(p) \/ StartCall(p) \/ Recover(p) \/ Park(p)
         \/ \E report \in Reports : CallReturns(p, report)
  PROVE  AuthNext
<1>1. CASE Reserve(p)
  <2>1. process[p].pc = "reserve"
    BY <1>1 DEF Reserve, At
  <2>2. PICK t \in Tasks : t = Own(p) /\ InTurn(process[p], t)
    BY <2>1, TurnOf DEF Outside, Ended
  <2>3. RoleOf[process[p].from] \in Roles
    BY <2>1, <2>2, StagesOfCalls DEF InTurn
  <2> QED BY <1>1, <2>2, <2>3, CallOperation DEF Reserve, From, OnLedgerOnly, LedgerNext
<1>2. CASE StartCall(p) \/ \E report \in Reports : CallReturns(p, report)
  <2>1. process[p].pc \in {"start", "call"}
    BY <1>2 DEF StartCall, CallReturns, At
  <2>2. PICK t \in Tasks : t = Own(p) /\ InTurn(process[p], t)
    BY <2>1, TurnOf DEF Outside, Ended
  <2>3. process[p].exec \in Executions
    BY <2>1, <2>2 DEF InTurn
  <2>4. /\ UNCHANGED authVars
        /\ StartExecution(process[p].exec)
             \/ \E report \in Reports : FinishExecution(process[p].exec, report)
    BY <1>2 DEF StartCall, CallReturns, Call, OnLedgerOnly
  <2> QED BY <2>3, <2>4, CallOperation DEF LedgerNext
<1>3. CASE Recover(p)
  <2>1. process[p].pc = "recover"
    BY <1>3 DEF Recover, At
  <2>2. PICK t \in Tasks : t = Own(p) /\ InRecovery(process[p], t)
    BY <2>1 DEF AllDriving, Driving, InHand, Own, Ended
  <2>3. process[p].exec \in Executions
    BY <2>2 DEF InRecovery, LastReview, ReviewCalls
  <2>4. PICK v \in evidence : RecoverReviewFormat(t, process[p].exec, v)
    BY <1>3, <2>2 DEF Recover, Call
  <2> QED BY <1>3, <2>3, <2>4, CallOperation DEF Recover, OnLedgerOnly, LedgerNext
<1>4. CASE Park(p)
  <2>1. process[p].pc = "park"
    BY <1>4 DEF Park, At
  <2>2. PICK t \in Tasks : t = Own(p) /\ InTurn(process[p], t)
    BY <2>1, TurnOf DEF Outside, Ended
  <2>3. process[p].exec \in Executions
    BY <2>1, <2>2 DEF InTurn
  <2>4. PICK c \in Contexts, s \in Sessions : \E refs \in SUBSET EvidenceIds :
          CheckpointAuthentication(t, process[p].exec, c, s, refs)
    <3> DEFINE checks == {v.id : v \in {w \in evidence :
                   /\ w.task = t /\ w.kind = "independent-check" /\ w.status = "passed"
                   /\ w.revision = process[p].head /\ ~w.stale}}
    <3>1. PICK refs : refs = IF Worker(p) THEN {} ELSE checks
      OBVIOUS
    <3>2. refs \in SUBSET EvidenceIds
      <4>1. checks \subseteq EvidenceIds
        BY DEF TaskTypeOK, EvidenceRow
      <4> QED BY <3>1, <4>1
    <3>3. \E c \in Contexts, s \in Sessions :
            CheckpointAuthentication(t, process[p].exec, c, s, refs)
      BY <1>4, <2>2, <3>1 DEF Park, Call
    <3> QED BY <3>2, <3>3
  <2> QED BY <2>2, <2>3, <2>4 DEF AuthNext, AuthActions
<1> QED BY <1>1, <1>2, <1>3, <1>4

\* The two are the insertion of a task that is contracted at once, and a call
\* that is finished by an exception.
LEMMA BeyondTheStore ==
  ASSUME AuthInvariant, AllDriving, NEW p \in Processes,
         (\E t \in Tasks : Run(p, t)) \/ CallRaises(p)
  PROVE  AuthInvariant'
<1> USE DEF AuthInvariant
<1>1. UNCHANGED <<failures, evidence, approvals, approving, authVars>>
  BY DEF Run, CallRaises, FinishExecution, OnLedgerOnly, taskVars
<1>2. AuthTables' /\ AllInStep' /\ OneOpenSession' /\ Guarded' /\ EvidenceIdsDiffer'
  BY <1>1 DEF authVars, AuthTables, AllInStep, InStep, Parked, OneOpenSession, Guarded,
     EvidenceIdsDiffer
<1>3. \A u \in Tasks : Parked(u)' = Parked(u)
  BY <1>1 DEF authVars, Parked
<1>4. ASSUME NEW t \in Tasks, Run(p, t)
      PROVE  TaskTypeOK' /\ Ledger' /\ ParkedTaskIsIdle'
  <2>1. TaskTypeOK' /\ task'[t].state = "contracted" /\ \A u \in Tasks : u # t => task'[u] = task[u]
    BY <1>4, RunCreates
  <2>2. Ledger' /\ \A u : In(u, Outstanding)' = In(u, Outstanding)
    BY <1>4 DEF Run, Ledger, LedgerTypeOK, LedgerMatchesExecutions, In, ledgerVars
  <2> QED BY <1>3, <2>1, <2>2 DEF ParkedTaskIsIdle
<1>5. ASSUME CallRaises(p)
      PROVE  TaskTypeOK' /\ Ledger' /\ ParkedTaskIsIdle'
  <2>1. PICK report : report = [status |-> "failed", elapsed |-> 0, result |-> "other"]
    OBVIOUS
  <2>2. report \in AnyReport /\ FinishExecution(Call(p), report)
    BY <1>5, <2>1 DEF AnyReport, Outcomes, Results, CallRaises
  <2>3. Call(p) \in Executions
    BY <1>5, TurnOf DEF CallRaises, At, Outside, Ended, InTurn, Call
  <2>4. UNCHANGED taskVars
    BY <2>2 DEF FinishExecution
  <2>5. TaskTypeOK' /\ \A u \in Tasks : task'[u].state = task[u].state
    BY <2>4 DEF taskVars, TaskTypeOK
  <2>6. Ledger'
    BY <2>2, <2>3, FinishStep
  <2> QED BY <1>3, <2>2, <2>3, <2>5, <2>6, FinishLaunchesNothing DEF ParkedTaskIsIdle, Ledger
<1> QED BY <1>2, <1>4, <1>5


-----------------------------------------------------------------------------
(* The invariant. *)

\* A login touches neither the task nor who is at work on it.
LEMMA LoginsStep ==
  ASSUME TaskTypeOK, AuthTables, Typed, AllSound, AllDriving,
         LoginActions, UNCHANGED <<worktree, process>>
  PROVE  AllSound' /\ AllDriving' /\ Typed'
<1>1. /\ UNCHANGED <<task, evidence, exec, recovered>>
      /\ \A t \in Tasks : checkpoint'[t].stage = checkpoint[t].stage
  BY LoginsLeaveStore, LoginsRest DEF storeVars, taskVars, ledgerVars, Resting
<1>2. \A t \in Tasks : Same(t)
  BY <1>1 DEF Same
<1>3. AllSound'
  BY <1>1, <1>2, SameSound, ExcusedStays DEF AllSound
<1>4. ASSUME NEW p \in Processes PROVE Driving(process[p])'
  <2>1. process'[p] = process[p] /\ Driving(process[p])
    BY DEF AllDriving
  <2>2. ASSUME NEW row, NEW t \in Tasks, InTurn(row, t) PROVE InTurn(row, t)'
    BY <1>1, <1>2, <2>2, SameFacts DEF InTurn
  <2>3. ASSUME NEW row, NEW t \in Tasks, InRecovery(row, t) PROVE InRecovery(row, t)'
    BY <1>1, <2>3 DEF InRecovery, LastReview, ReviewCalls
  <2>4. ASSUME NEW row, NEW t \in Tasks, InHand(row, t) PROVE InHand(row, t)'
    BY <1>1, <1>2, <2>2, <2>3, <2>4, SameFacts DEF InHand
  <2>5. PICK row : row = process[p]
    OBVIOUS
  <2>6. Driving(row)'
    BY <2>1, <2>4, <2>5 DEF Driving
  <2> QED BY <2>1, <2>5, <2>6 DEF Driving, InHand, InTurn, InRecovery
<1> QED BY <1>3, <1>4 DEF AllDriving, Typed

LEMMA DeliveryInitOK == DeliveryInit => DeliveryInvariant
<1> SUFFICES ASSUME DeliveryInit PROVE DeliveryInvariant
  OBVIOUS
<1>1. AuthInvariant
  BY AuthInitOK DEF DeliveryInit
<1>2. Typed
  BY UnstartedType DEF DeliveryInit, Typed
<1>3. OneDriver /\ AllDriving
  BY DEF DeliveryInit, OneDriver, Live, AllDriving, Driving, Unstarted
<1>4. evidence = {} /\ \A t \in Tasks : task[t].state = "absent" /\ task[t].moved # HeldByReview
  BY DEF DeliveryInit, AuthInit, StoreInit, TaskInit, AbsentTask, HeldByReview
<1>5. AllSound
  BY <1>4 DEF AllSound, Sound, Fits, Standing, Free, Reviewed
<1> QED BY <1>1, <1>2, <1>3, <1>5 DEF DeliveryInvariant

\* What a process does is an operation of the store, or leaves it alone, or is
\* one of the two beyond it.
LEMMA ProcessKeepsStore ==
  ASSUME AuthInvariant, Typed, AllSound, AllDriving, NEW p \in Processes,
         Begin(p) \/ Step(p) \/ Fail(p)
  PROVE  AuthInvariant'
<1>1. TaskTypeOK
  BY DEF AuthInvariant
<1>2. ASSUME [AuthNext]_allVars PROVE AuthInvariant'
  BY <1>2, AuthStepOK
<1>3. ASSUME NEW t \in Tasks, Resume(p, t) PROVE AuthNext
  BY <1>3 DEF Resume, AuthNext, AuthActions
<1>4. ASSUME \/ \E t \in Tasks : BeginRecovery(p, t)
             \/ Look(p) \/ Commit(p) \/ Fail(p)
      PROVE  UNCHANGED allVars
  BY <1>4 DEF BeginRecovery, Look, Commit, Fail, NoStoreChange
<1>5. ASSUME \/ RecordWorkspace(p) \/ Advance(p) \/ Block(p) \/ Adopt(p) \/ CountRejection(p)
             \/ RecordRecovery(p) \/ Record(p) \/ Package(p)
             \/ Reserve(p) \/ StartCall(p) \/ Recover(p) \/ Park(p)
             \/ \E report \in Reports : CallReturns(p, report)
      PROVE  AuthNext
  BY <1>1, <1>5, StepMovesTask, StepWritesEvidence, StepHandlesCall
<1> QED BY <1>2, <1>3, <1>4, <1>5, BeyondTheStore DEF Begin, Step

\* It keeps the task sound, and goes on with what it may rely on.
LEMMA ProcessTurns ==
  ASSUME AuthInvariant, Typed, AllSound, AllDriving, NEW p \in Processes,
         Begin(p) \/ Step(p) \/ Fail(p)
  PROVE  /\ AllSound' /\ Turns(p) /\ (Live(p) \/ Live(p)')
         /\ worktree' \in [Tasks -> Revisions \cup {NoRevision}]
<1> DEFINE Stays == worktree' \in [Tasks -> Revisions \cup {NoRevision}]
<1>1. TaskTypeOK /\ AuthTables /\ AllInStep
  BY DEF AuthInvariant
<1>2. worktree' = worktree => Stays
  BY DEF Typed
<1>3. ASSUME NEW t \in Tasks, Run(p, t) \/ Resume(p, t) \/ BeginRecovery(p, t)
      PROVE  AllSound' /\ Turns(p) /\ Live(p)' /\ Stays
  <2>1. Resume(p, t) \/ BeginRecovery(p, t) => Stays
    BY <1>2 DEF Resume, BeginRecovery, NoStoreChange
  <2> QED BY <1>1, <1>3, <2>1, RunStep, ResumeStep, BeginRecoveryStep
<1>4. ASSUME Step(p) \/ Fail(p) PROVE Live(p)
  BY <1>4 DEF Step, Fail, Live, Ended, At, RecordWorkspace, RecordRecovery, Recover, Look,
     Advance, Block, Reserve, StartCall, CallRaises, CallReturns, Park, Commit, Adopt, Record,
     CountRejection, Package
<1>5. ASSUME Step(p) \/ Fail(p), ~Commit(p) PROVE Stays
  BY <1>2, <1>5 DEF Step, Fail, OnTaskOnly, OnLedgerOnly, NoStoreChange, RecordWorkspace,
     RecordRecovery, Recover, Look, Advance, Block, Reserve, StartCall, CallRaises, CallReturns,
     Park, Adopt, Record, CountRejection, Package
<1>6. ASSUME Step(p) \/ Fail(p) PROVE AllSound' /\ Turns(p)
  <2>1. CASE RecordWorkspace(p) \/ RecordRecovery(p) \/ Recover(p)
    BY <1>1, <2>1, RecordWorkspaceStep, RecordRecoveryStep, RecoverStep
  <2>2. CASE Look(p) \/ Advance(p) \/ Block(p) \/ Fail(p)
    BY <1>1, <2>2, LookStep, AdvanceStep, BlockStep, FailStep
  <2>3. CASE \/ Reserve(p) \/ StartCall(p) \/ CallRaises(p)
             \/ \E report \in Reports : CallReturns(p, report)
    BY <2>3, ReservationStep, StartCallStep, CallRaisesStep, CallReturnsStep
  <2>4. CASE Park(p) \/ Commit(p) \/ Adopt(p)
    BY <1>1, <2>4, ParkStep, CommitStep, AdoptStep
  <2>5. CASE Record(p) \/ CountRejection(p) \/ Package(p)
    BY <1>1, <2>5, RecordStep, CountRejectionStep, PackageStep
  <2> QED BY <1>6, <2>1, <2>2, <2>3, <2>4, <2>5 DEF Step
<1>7. Commit(p) => Stays
  BY <1>1, CommitStep
<1> QED BY <1>3, <1>4, <1>5, <1>6, <1>7 DEF Begin

LEMMA DeliveryStepOK ==
  ASSUME DeliveryInvariant, [DeliveryNext /\ OneDriver']_deliveryVars
  PROVE  DeliveryInvariant'
<1> USE DEF DeliveryInvariant
<1>1. CASE UNCHANGED deliveryVars
  <2>1. AuthInvariant'
    BY <1>1, AuthStepOK DEF deliveryVars
  <2>2. NoStoreChange /\ process' = process
    BY <1>1 DEF deliveryVars, NoStoreChange
  <2>3. AllSound'
    BY <2>2, NothingWritten DEF AuthInvariant
  <2>4. Typed' /\ OneDriver'
    BY <2>2 DEF NoStoreChange, Typed, OneDriver, Live
  <2>5. ASSUME NEW p \in Processes PROVE Driving(process[p])'
    BY <2>2 DEF AllDriving, NoStoreChange, allVars, storeVars, taskVars, ledgerVars, Driving,
       InHand, InTurn, InRecovery, Open, Latest, Failed, Free, Unfound, Unnamed, Behind,
       LastReview, ReviewCalls
  <2> QED BY <2>1, <2>3, <2>4, <2>5 DEF AllDriving
<1>2. CASE LoginActions /\ UNCHANGED <<worktree, process>> /\ OneDriver'
  <2>1. AuthInvariant'
    BY <1>2, AuthStepOK DEF AuthNext, AuthActions
  <2> QED BY <1>2, <2>1, LoginsStep DEF AuthInvariant
<1>3. ASSUME NEW p \in Processes, Begin(p) \/ Step(p) \/ Fail(p), OneDriver'
      PROVE  DeliveryInvariant'
  <2>1. AuthInvariant'
    BY <1>3, ProcessKeepsStore
  <2>2. /\ AllSound' /\ Turns(p) /\ (Live(p) \/ Live(p)')
        /\ worktree' \in [Tasks -> Revisions \cup {NoRevision}]
    BY <1>3, ProcessTurns
  <2>3. AllDriving' /\ process' \in [Processes -> ProcessRow]
    BY <1>3, <2>2, OthersRest
  <2> QED BY <1>3, <2>1, <2>2, <2>3 DEF Typed
<1> QED BY <1>1, <1>2, <1>3 DEF DeliveryNext

-----------------------------------------------------------------------------
(* What it shows. *)

\* The invariant holds throughout.
THEOREM DeliveryInvariantHolds == OneDriverSpec => []DeliveryInvariant
BY DeliveryInitOK, DeliveryStepOK, PTL DEF OneDriverSpec

\* The tables of the store, the worktrees and the commands stay well-formed:
\* in particular a commit, a recovery and a package always name a revision that
\* is there.
THEOREM DeliveryTypeCorrect == OneDriverSpec => []DeliveryTypeOK
<1>1. DeliveryInvariant => DeliveryTypeOK
  BY DEF DeliveryInvariant, AuthInvariant, Typed, DeliveryTypeOK, AuthTypeOK, StoreTypeOK,
     Ledger, AuthTables
<1> QED BY <1>1, DeliveryInvariantHolds, PTL

\* The evidence a turn is about to add is never refused for its name, however
\* often its stage was parked, or its command killed, before.
THEOREM EvidenceNamesAreFresh == OneDriverSpec => []NamesAreFresh
<1>1. DeliveryInvariant => NamesAreFresh
  <2> SUFFICES ASSUME DeliveryInvariant, NEW p \in Processes
               PROVE  /\ At(p, "record") =>
                           Free(<<StageEvidence[From(p)][1], process[p].attempt>>)
                      /\ At(p, "package") => Free(<<"approval-package", 0>>)
    BY DEF NamesAreFresh, Free
  <2>1. AllDriving
    BY DEF DeliveryInvariant
  <2>2. ASSUME process[p].pc = "record"
        PROVE  Free(<<StageEvidence[From(p)][1], process[p].attempt>>)
    <3>1. PICK t \in Tasks : t = Own(p) /\ InTurn(process[p], t)
      BY <2>1, <2>2, TurnOf DEF Outside, Ended
    <3>2. /\ process[p].from \in {"verifying", "reviewing"} /\ Open(t, process[p].from)
          /\ process[p].attempt = task[t].repairs
      BY <2>2, <3>1 DEF InTurn
    <3> QED BY <3>2 DEF Open, StageEvidence, From
  <2>3. ASSUME process[p].pc = "package"
        PROVE  Free(<<"approval-package", 0>>)
    <3>1. PICK t \in Tasks : t = Own(p) /\ InTurn(process[p], t)
      BY <2>1, <2>3, TurnOf DEF Outside, Ended
    <3>2. process[p].from = "packaging" /\ Open(t, process[p].from)
      BY <2>3, <3>1 DEF InTurn
    <3> QED BY <3>2 DEF Open
  <2> QED BY <2>2, <2>3 DEF At
<1> QED BY <1>1, DeliveryInvariantHolds, PTL

\* What a repair is told of failed in the candidate it starts from.
THEOREM RepairsAddressHead == OneDriverSpec => []RepairAddressesHead
<1>1. DeliveryInvariant => RepairAddressesHead
  <2> SUFFICES ASSUME DeliveryInvariant, NEW p \in Processes,
                      process[p].pc = "call", process[p].from = "repairing"
               PROVE  process[p].feedback = task[process[p].task].head
    BY DEF RepairAddressesHead, At, From, Own
  <2>1. PICK t \in Tasks : t = Own(p) /\ InTurn(process[p], t)
    BY TurnOf DEF DeliveryInvariant, Outside, Ended
  <2> QED BY <2>1 DEF InTurn, Own
<1> QED BY <1>1, DeliveryInvariantHolds, PTL

\* What a review finds is overridden by the recovery of that very review alone,
\* and only when it was rejected for its presentation.
THEOREM FindingsAreHeeded == OneDriverSpec => []NoFindingOverridden
<1>1. DeliveryInvariant => NoFindingOverridden
  <2> SUFFICES ASSUME DeliveryInvariant, NEW t \in Tasks,
                      task[t].state = "awaiting_pr_approval", ~Unfound(t)
               PROVE  \E e \in recovered : LastReview(t, e) /\ exec[e].result = "format"
    BY DEF NoFindingOverridden, Unfound
  <2>1. Excused(t)
    BY DEF DeliveryInvariant, AllSound, Sound, Fits, Standing, Reviewed
  <2> QED BY <2>1 DEF Excused
<1> QED BY <1>1, DeliveryInvariantHolds, PTL

-----------------------------------------------------------------------------
(* The budget of a task that was never parked.  What such a task has spent *)
(* is bounded by where it stands and how often it was sent back: three     *)
(* calls for every repair, and one for every stage of this attempt that is *)
(* behind it.  A killed command leaves the bound behind with it, and       *)
(* nobody reserves for its task again.                                     *)

\* The states in which calls are still to come.
Path == {"contracted", "workspace_ready", "implementing", "repairing", "implemented",
         "verifying", "verified", "reviewing"}

\* The calls of an attempt that come before state s.
Before(s) ==
  CASE s \in {"implemented", "verifying"} -> 1
    [] s \in {"verified", "reviewing"}    -> 2
    [] OTHER                              -> 0

\* The calls of t that may be spent, or be out, where row stands.
Allowance(row, t) ==
  LET due == 3 * task[t].repairs + Before(task[t].state)
  IN CASE row.pc \in {"workspace", "look", "reserve"}        -> due
       [] row.pc = "advance" /\ row.verdict = "rejected"     -> 3 * task[t].repairs
       [] row.pc = "advance" /\ row.verdict # "rejected" /\ row.from \notin DOMAIN RoleOf -> due
       [] OTHER                                              -> due + 1

Spends(row, t) ==
  /\ budget[t].completed + budget[t].reserved <= Allowance(row, t)
  /\ budget[t].reserved = IF row.pc \in {"start", "call"} THEN 1 ELSE 0

OnPath(t) == checkpoint[t].status = "none" /\ task[t].state \in Path

Frugal ==
  /\ \A t \in Tasks : task[t].state = "absent" =>
       budget[t].completed = 0 /\ budget[t].reserved = 0
  /\ \A p \in Processes : Live(p) /\ OnPath(Own(p)) => Spends(process[p], Own(p))

\* p goes on with t and stays within the bound.
Affords(p, t) == \E row : process'[p] = row /\ row.task = t /\ Spends(row, t)'

\* The counters, as they are before a step.
LEMMA CountsNatural ==
  ASSUME DeliveryInvariant, NEW t \in Tasks
  PROVE  /\ budget[t].completed \in Nat /\ budget[t].reserved \in Nat
         /\ task[t].repairs \in 0..2 /\ task[t].state \in States
         /\ \A s : Before(s) \in 0..2
BY DEF DeliveryInvariant, AuthInvariant, Ledger, LedgerTypeOK, BudgetRow, TaskTypeOK, TaskRow,
   Before

LEMMA ReserveCounts ==
  ASSUME DeliveryInvariant, NEW t \in Tasks, NEW e, NEW role, NEW timeout \in Timeouts,
         ReserveExecution(t, e, role, timeout)
  PROVE  /\ budget'[t].reserved = budget[t].reserved + 1
         /\ budget'[t].completed = budget[t].completed
<1>1. budget \in [Tasks -> BudgetRow] /\ budget[t] \in BudgetRow
  BY DEF DeliveryInvariant, AuthInvariant, Ledger, LedgerTypeOK
<1>2. budget' = [budget EXCEPT ![t] = [budget[t] EXCEPT !.reserved = @ + 1,
            !.active = @ + 1, !.reserved_elapsed = @ + timeout]]
  BY <1>1 DEF ReserveExecution
<1> QED BY <1>1, <1>2 DEF BudgetRow

LEMMA FinishCounts ==
  ASSUME DeliveryInvariant, NEW t \in Tasks, NEW e \in Executions, NEW report,
         FinishExecution(e, report)
  PROVE  /\ budget'[t].reserved = budget[t].reserved - 1
         /\ budget'[t].completed = budget[t].completed + 1
<1>1. budget \in [Tasks -> BudgetRow] /\ budget[t] \in BudgetRow
  BY DEF DeliveryInvariant, AuthInvariant, Ledger, LedgerTypeOK
<1>2. exec[e].task = t
  <2>1. exec[e] \in ExecRow
    BY UsedRow DEF FinishExecution, Active, DeliveryInvariant, AuthInvariant, Ledger
  <2> QED BY <2>1, OneTask DEF ExecRow
<1>3. budget' = [budget EXCEPT ![t] = [budget[t] EXCEPT !.reserved = @ - 1,
            !.active = @ - 1, !.completed = @ + 1, !.elapsed = @ + report.elapsed,
            !.reserved_elapsed = @ - exec[e].alloc]]
  BY <1>1, <1>2 DEF FinishExecution, Release
<1> QED BY <1>1, <1>3 DEF BudgetRow

\* What becomes of the row of a process that goes on.
LEMMA GoesOn ==
  ASSUME Typed, NEW p \in Processes, NEW pc \in Points \ Ended, Goto(p, pc)
  PROVE  /\ process'[p].pc = pc /\ process'[p].task = process[p].task
         /\ process'[p].from = process[p].from /\ process'[p].verdict = process[p].verdict
<1>1. process[p] \in ProcessRow /\ process'[p] = [process[p] EXCEPT !.pc = pc]
  BY DEF Typed, Goto, Then
<1> QED BY <1>1 DEF ProcessRow

\* One that ends is not at work.
LEMMA EndsNow ==
  ASSUME Typed, NEW p \in Processes, NEW pc \in Ended, Goto(p, pc)
  PROVE  ~Live(p)'
<1>1. process'[p] = [Unstarted EXCEPT !.pc = pc]
  BY DEF Typed, Goto, Then
<1> QED BY <1>1 DEF Live, Unstarted

LEMMA LookAffords ==
  ASSUME DeliveryInvariant, NEW p \in Processes, NEW t \in Tasks, t = Own(p), Look(p), Live(p)',
         OnPath(t)', OnPath(t) => Spends(process[p], t)
  PROVE  Affords(p, t)
<1> DEFINE s == task[t].state
<1>1. PICK r : process' = [process EXCEPT ![p] = Then(
            [Unstarted EXCEPT !.task = t, !.from = s, !.head = task[t].head,
               !.attempt = task[t].repairs, !.feedback = r], Turn(s))]
  BY DEF Look
<1>2. /\ UNCHANGED <<task, budget, checkpoint>> /\ process[p].pc = "look"
      /\ s \in AtRest \cup Calling \cup Passing \cup {"packaging"}
  BY DEF Look, NoStoreChange, allVars, storeVars, taskVars, ledgerVars, authVars, At
<1>3. s \in Path /\ Spends(process[p], t)
  BY <1>2 DEF OnPath
<1>4. \/ Turn(s) = "advance" /\ s \notin DOMAIN RoleOf
      \/ Turn(s) = "reserve"
  BY <1>2, <1>3 DEF Turn, Path, AtRest, Calling, Passing, RoleOf
<1>5. process'[p] = [Unstarted EXCEPT !.task = t, !.from = s, !.head = task[t].head,
               !.attempt = task[t].repairs, !.feedback = r, !.pc = Turn(s)]
  BY <1>1, <1>4 DEF Then, Ended, DeliveryInvariant, Typed
<1>6. /\ process'[p].task = t /\ process'[p].from = s /\ process'[p].pc = Turn(s)
      /\ process'[p].verdict = "none"
  BY <1>5 DEF Unstarted
<1>7. PICK row : row = process'[p]
  OBVIOUS
<1>8. Spends(row, t)'
  BY <1>2, <1>3, <1>4, <1>6, <1>7 DEF Spends, Allowance
<1> QED BY <1>6, <1>7, <1>8 DEF Affords

LEMMA AdvanceAffords ==
  ASSUME DeliveryInvariant, NEW p \in Processes, NEW t \in Tasks, t = Own(p), Advance(p),
         OnPath(t)', OnPath(t) => Spends(process[p], t)
  PROVE  Affords(p, t)
<1>1. /\ process[p] \in ProcessRow /\ process[p].pc = "advance" /\ Typed /\ TaskTypeOK
      /\ UNCHANGED <<budget, checkpoint>>
  BY DEF DeliveryInvariant, Typed, Advance, At, AuthInvariant, OnTaskOnly, ledgerVars, authVars
<1>2. InTurn(process[p], t)
  BY <1>1, TurnOf DEF Outside, Ended, DeliveryInvariant
<1>3. PICK to : to = IF process[p].verdict = "rejected" THEN "repairing"
                                                        ELSE Onwards[process[p].from]
  OBVIOUS
<1>4. Transition(t, process[p].from, to)
  BY <1>3 DEF Advance, From
<1>5. /\ task[t].state = process[p].from /\ task'[t].state = to
      /\ task'[t].repairs = task[t].repairs
  BY <1>1, <1>4, Transits DEF Advance, OnTaskOnly, Same
<1>6. /\ process'[p].task = t /\ process'[p].pc \in {"look", "reserve"}
  <2>1. CASE process[p].from = "workspace_ready"
    BY <1>1, <2>1 DEF Advance, From, Typed, ProcessRow, Own
  <2>2. CASE process[p].from # "workspace_ready"
    BY <1>1, <2>2, GoesOn DEF Advance, From, Points, Ended, Own
  <2> QED BY <2>1, <2>2
<1>7. /\ process[p].verdict = "rejected" => process[p].from \in {"verifying", "reviewing"}
      /\ process[p].verdict # "rejected" => process[p].from \in DOMAIN Onwards
  BY <1>1, <1>2 DEF InTurn
<1>8. to \in Path /\ checkpoint[t].status = "none"
  BY <1>1, <1>5 DEF OnPath
<1>9. process[p].from \in Path
  BY <1>3, <1>7, <1>8 DEF Path, Onwards
<1>10. Spends(process[p], t)
  BY <1>5, <1>8, <1>9 DEF OnPath
<1>11. PICK n \in Nat, c \in Nat, b \in Nat :
         n = task[t].repairs /\ c = budget[t].completed /\ b = Before(process[p].from)
  BY CountsNatural
<1>12. budget[t].reserved = 0
  BY <1>1, <1>10 DEF Spends
<1>13. c <= 3 * n + Before(to)
  <2>1. CASE process[p].verdict = "rejected"
    BY <1>1, <1>3, <1>5, <1>10, <1>11, <1>12, <2>1 DEF Spends, Allowance, Before
  <2>2. CASE process[p].verdict # "rejected" /\ process[p].from \notin DOMAIN RoleOf
    <3>1. c <= 3 * n + b
      BY <1>1, <1>5, <1>10, <1>11, <1>12, <2>2 DEF Spends, Allowance
    <3>2. Before(to) = b
      BY <1>3, <1>7, <1>8, <1>9, <1>11, <2>2 DEF Path, Onwards, RoleOf, Before
    <3> QED BY <3>1, <3>2
  <2>3. CASE process[p].verdict # "rejected" /\ process[p].from \in DOMAIN RoleOf
    <3>1. c <= 3 * n + b + 1
      BY <1>1, <1>5, <1>10, <1>11, <1>12, <2>3 DEF Spends, Allowance
    <3>2. Before(to) = b + 1
      BY <1>3, <1>7, <1>8, <1>9, <1>11, <2>3 DEF Path, Onwards, RoleOf, Before
    <3> QED BY <3>1, <3>2
  <2> QED BY <2>1, <2>2, <2>3
<1>14. PICK row : row = process'[p]
  OBVIOUS
<1>15. Allowance(row, t)' = 3 * n + Before(to)
  BY <1>5, <1>6, <1>11, <1>14 DEF Allowance
<1>16. Spends(row, t)'
  BY <1>1, <1>6, <1>11, <1>12, <1>13, <1>14, <1>15 DEF Spends
<1> QED BY <1>6, <1>14, <1>16 DEF Affords

\* A call is counted when it is reserved, and stays counted when it closes.
LEMMA CallAffords ==
  ASSUME DeliveryInvariant, NEW p \in Processes, NEW t \in Tasks, t = Own(p), Live(p)',
         \/ Reserve(p) \/ StartCall(p) \/ CallRaises(p)
         \/ \E report \in Reports : CallReturns(p, report),
         OnPath(t)', OnPath(t) => Spends(process[p], t)
  PROVE  Affords(p, t)
<1>1. /\ process[p] \in ProcessRow /\ Typed /\ process[p].pc \in {"reserve", "start", "call"}
      /\ UNCHANGED <<task, checkpoint>>
  BY DEF DeliveryInvariant, Typed, Reserve, StartCall, CallRaises, CallReturns, At, OnLedgerOnly,
     authVars, ReserveExecution, StartExecution, FinishExecution, taskVars
<1>2. InTurn(process[p], t)
  BY <1>1, TurnOf DEF Outside, Ended, DeliveryInvariant
<1>3. Spends(process[p], t)
  BY <1>1 DEF OnPath
<1>4. PICK n \in Nat, c \in Nat, r \in Nat, b \in Nat :
         /\ n = task[t].repairs /\ c = budget[t].completed /\ r = budget[t].reserved
         /\ b = Before(task[t].state)
  BY CountsNatural
<1>5. PICK row : row = process'[p]
  OBVIOUS
<1>6. CASE Reserve(p)
  <2>1. PICK e \in Executions, timeout \in Timeouts :
          /\ ReserveExecution(t, e, RoleOf[From(p)], timeout)
          /\ process' = [process EXCEPT ![p].exec = e, ![p].pc = "start"]
    BY <1>6 DEF Reserve
  <2>2. row.pc = "start" /\ row.task = t
    BY <1>1, <1>5, <2>1 DEF Typed, ProcessRow, Own
  <2>3. budget'[t].reserved = r + 1 /\ budget'[t].completed = c
    BY <1>4, <2>1, ReserveCounts
  <2>4. process[p].pc = "reserve"
    BY <1>6 DEF Reserve, At
  <2>5. r = 0 /\ c <= 3 * n + b
    BY <1>3, <1>4, <2>4 DEF Spends, Allowance
  <2>6. Allowance(row, t)' = 3 * n + b + 1
    BY <1>1, <1>4, <2>2 DEF Allowance
  <2>7. Spends(row, t)'
    BY <2>2, <2>3, <2>5, <2>6 DEF Spends
  <2> QED BY <1>5, <2>2, <2>7 DEF Affords
<1>7. CASE StartCall(p)
  <2>1. budget' = budget /\ process[p].pc = "start" /\ Goto(p, "call")
    BY <1>7 DEF StartCall, StartExecution, At
  <2>2. row.pc = "call" /\ row.task = t
    BY <1>1, <1>5, <2>1, GoesOn DEF Own, Points, Ended
  <2>3. r = 1 /\ c + r <= 3 * n + b + 1
    BY <1>3, <1>4, <2>1 DEF Spends, Allowance
  <2>4. Allowance(row, t)' = 3 * n + b + 1
    BY <1>1, <1>4, <2>2 DEF Allowance
  <2>5. Spends(row, t)'
    BY <1>4, <2>1, <2>2, <2>3, <2>4 DEF Spends
  <2> QED BY <1>5, <2>2, <2>5 DEF Affords
<1>8. ASSUME CallRaises(p) PROVE FALSE
  BY <1>1, <1>8, EndsNow DEF CallRaises, Ended
<1>9. ASSUME NEW report \in Reports, CallReturns(p, report) PROVE Affords(p, t)
  <2>1. /\ FinishExecution(Call(p), report) /\ process[p].pc = "call"
        /\ Call(p) \in Executions
    BY <1>2, <1>9 DEF CallReturns, At, InTurn, Call
  <2>2. \E v, pc : /\ process' = [process EXCEPT ![p].verdict = v, ![p].pc = pc]
                   /\ pc \in {"park", "record", "commit", "block"}
    <3>1. PICK v \in VerdictsOn(From(p), report) :
            process' = [process EXCEPT ![p].verdict = v, ![p].pc =
               CASE report.result = "authentication"   -> "park"
                 [] report.result # "authentication" /\ ~Worker(p) -> "record"
                 [] report.result # "authentication" /\ Worker(p)  ->
                      IF v = "passed" THEN "commit" ELSE "block"]
      BY <1>9 DEF CallReturns
    <3>2. CASE report.result = "authentication"
      BY <3>1, <3>2
    <3>3. CASE report.result # "authentication" /\ ~Worker(p)
      BY <3>1, <3>3
    <3>4. CASE report.result # "authentication" /\ Worker(p)
      BY <3>1, <3>4
    <3> QED BY <3>2, <3>3, <3>4
  <2>3. row.pc \in {"park", "record", "commit", "block"} /\ row.task = t
    BY <1>1, <1>5, <2>2 DEF Typed, ProcessRow, Own
  <2>4. budget'[t].reserved = r - 1 /\ budget'[t].completed = c + 1
    BY <1>4, <2>1, FinishCounts
  <2>5. r = 1 /\ c + r <= 3 * n + b + 1
    BY <1>3, <1>4, <2>1 DEF Spends, Allowance
  <2>6. Allowance(row, t)' = 3 * n + b + 1
    BY <1>1, <1>4, <2>3 DEF Allowance
  <2>7. Spends(row, t)'
    BY <1>4, <2>3, <2>4, <2>5, <2>6 DEF Spends
  <2> QED BY <1>5, <2>3, <2>7 DEF Affords
<1> QED BY <1>6, <1>7, <1>8, <1>9

\* What follows a call costs nothing, and a rejection that is sent back to
\* repair is granted three calls more.
LEMMA AfterCallAffords ==
  ASSUME DeliveryInvariant, NEW p \in Processes, NEW t \in Tasks, t = Own(p), Live(p)',
         Commit(p) \/ Adopt(p) \/ Record(p) \/ CountRejection(p),
         OnPath(t)', OnPath(t) => Spends(process[p], t)
  PROVE  Affords(p, t)
<1>1. /\ process[p] \in ProcessRow /\ Typed /\ TaskTypeOK
      /\ process[p].pc \in {"commit", "adopt", "record", "count"}
      /\ UNCHANGED <<budget, checkpoint>>
  BY DEF DeliveryInvariant, AuthInvariant, Typed, Commit, Adopt, Record, CountRejection, At,
     OnTaskOnly, authVars, ledgerVars, allVars, storeVars
<1>2. InTurn(process[p], t)
  BY <1>1, TurnOf DEF Outside, Ended, DeliveryInvariant
<1>3. PICK n \in Nat, c \in Nat, b \in Nat :
         /\ n = task[t].repairs /\ c = budget[t].completed /\ b = Before(task[t].state)
         /\ b \in 0..2
  BY CountsNatural
<1>4. ASSUME OnPath(t) PROVE budget[t].reserved = 0 /\ c <= 3 * n + b + 1
  BY <1>1, <1>3, <1>4 DEF Spends, Allowance
<1>5. PICK row : row = process'[p]
  OBVIOUS
<1>6. CASE Commit(p)
  <2>1. task' = task /\ row.pc = "adopt" /\ row.task = t
    BY <1>1, <1>5, <1>6 DEF Commit, allVars, storeVars, taskVars, Typed, ProcessRow, Own
  <2>2. Allowance(row, t)' = 3 * n + b + 1 /\ OnPath(t)
    BY <1>1, <1>3, <2>1 DEF Allowance, OnPath
  <2> QED BY <1>1, <1>3, <1>4, <1>5, <2>1, <2>2 DEF Affords, Spends
<1>7. CASE Adopt(p)
  <2>1. /\ task'[t].state = task[t].state /\ task'[t].repairs = task[t].repairs
        /\ process[p].pc = "adopt" /\ Goto(p, "advance")
    BY <1>1, <1>7 DEF Adopt, SetHead, TaskTypeOK, TaskRow, At
  <2>2. /\ row.pc = "advance" /\ row.task = t /\ row.from \in DOMAIN RoleOf
        /\ row.verdict # "rejected"
    BY <1>1, <1>2, <1>5, <2>1, GoesOn DEF Points, Ended, Own, InTurn, RoleOf
  <2>3. Allowance(row, t)' = 3 * n + b + 1 /\ OnPath(t)
    BY <1>1, <1>3, <2>1, <2>2 DEF Allowance, OnPath
  <2> QED BY <1>1, <1>3, <1>4, <1>5, <2>2, <2>3 DEF Affords, Spends
<1>8. CASE Record(p)
  <2>1. /\ task' = task /\ process[p].pc = "record" /\ process[p].verdict # "none"
        /\ process[p].from \in {"verifying", "reviewing"}
    BY <1>2, <1>8 DEF Record, AddEvidence, At, InTurn
  <2>2. PICK pc \in {"advance", "count", "block"} :
          Goto(p, pc) /\ (pc = "advance" => process[p].verdict # "rejected")
    BY <1>1, <1>8, <2>1 DEF Record, ProcessRow, Verdicts
  <2>3. /\ row.pc = pc /\ row.task = t /\ row.from \in DOMAIN RoleOf
        /\ pc = "advance" => row.verdict # "rejected"
    BY <1>1, <1>5, <2>1, <2>2, GoesOn DEF Points, Ended, Own, RoleOf
  <2>4. Allowance(row, t)' = 3 * n + b + 1 /\ OnPath(t)
    BY <1>1, <1>3, <2>1, <2>2, <2>3 DEF Allowance, OnPath
  <2> QED BY <1>1, <1>3, <1>4, <1>5, <2>2, <2>3, <2>4 DEF Affords, Spends
<1>9. CASE CountRejection(p)
  <2>1. PICK s \in Signatures : RecordFailure(t, s)
    BY <1>9 DEF CountRejection
  <2>2. task'[t].state # "blocked"
    BY DEF OnPath, Path
  <2>3. task'[t].repairs = n + 1 /\ task'[t].state = task[t].state
    BY <1>1, <1>3, <2>1, <2>2 DEF RecordFailure, MoveTo, TaskTypeOK, TaskRow
  <2>4. Goto(p, "advance") /\ process[p].verdict = "rejected"
    BY <1>2, <1>9, <2>2 DEF CountRejection, InTurn, At
  <2>5. row.pc = "advance" /\ row.task = t /\ row.verdict = "rejected"
    BY <1>1, <1>5, <2>4, GoesOn DEF Points, Ended, Own
  <2>6. Allowance(row, t)' = 3 * (n + 1) /\ OnPath(t)
    BY <1>1, <2>3, <2>5 DEF Allowance, OnPath
  <2>7. c <= 3 * (n + 1)
    BY <1>3, <1>4, <2>6
  <2> QED BY <1>1, <1>3, <1>4, <1>5, <2>5, <2>6, <2>7 DEF Affords, Spends
<1> QED BY <1>6, <1>7, <1>8, <1>9

\* A command begins with a task nobody has called for, or goes on from the
\* workspace of one.
LEMMA StartAffords ==
  ASSUME DeliveryInvariant, NEW p \in Processes, NEW t \in Tasks,
         \/ Run(p, t) /\ budget[t].completed = 0 /\ budget[t].reserved = 0
         \/ RecordWorkspace(p) /\ t = Own(p) /\ (OnPath(t) => Spends(process[p], t)),
         OnPath(t)'
  PROVE  Affords(p, t)
<1>1. process[p] \in ProcessRow /\ Typed /\ TaskTypeOK /\ UNCHANGED <<budget, checkpoint>>
  BY DEF DeliveryInvariant, AuthInvariant, Typed, Run, RecordWorkspace, OnTaskOnly, ledgerVars,
     authVars
<1>2. PICK n \in Nat, c \in Nat : n = task[t].repairs /\ c = budget[t].completed
  BY CountsNatural
<1>3. PICK row : row = process'[p]
  OBVIOUS
<1>4. CASE Run(p, t) /\ budget[t].completed = 0 /\ budget[t].reserved = 0
  <2>1. row.pc = "workspace" /\ row.task = t
    BY <1>1, <1>3, <1>4 DEF Run, Typed, ProcessRow
  <2>2. task'[t].repairs = n /\ task'[t].state = "contracted"
    BY <1>1, <1>2, <1>4, RunCreates
  <2>3. Allowance(row, t)' = 3 * n
    BY <1>2, <2>1, <2>2 DEF Allowance, Before
  <2> QED BY <1>1, <1>2, <1>3, <1>4, <2>1, <2>3 DEF Affords, Spends
<1>5. CASE RecordWorkspace(p) /\ t = Own(p) /\ (OnPath(t) => Spends(process[p], t))
  <2>1. /\ process[p].pc = "workspace" /\ process[p].verdict # "rejected"
        /\ task[t].state = "contracted"
    BY <1>5 DEF RecordWorkspace, At, DeliveryInvariant, AllDriving, Driving, InHand, Own, Ended
  <2>2. task'[t].repairs = n /\ task'[t].state = "contracted"
    BY <1>1, <1>2, <1>5, <2>1 DEF RecordWorkspace, SetWorkspace, TaskTypeOK, TaskRow
  <2>3. /\ row.pc = "advance" /\ row.task = t /\ row.verdict # "rejected"
        /\ row.from \notin DOMAIN RoleOf
    BY <1>1, <1>3, <1>5, <2>1 DEF RecordWorkspace, Typed, ProcessRow, Own, RoleOf
  <2>4. OnPath(t)
    BY <1>1, <2>1 DEF OnPath, Path
  <2>5. c <= 3 * n /\ budget[t].reserved = 0
    BY <1>2, <1>5, <2>1, <2>4 DEF Spends, Allowance, Before
  <2>6. Allowance(row, t)' = 3 * n
    BY <1>2, <2>2, <2>3 DEF Allowance, Before
  <2> QED BY <1>1, <1>2, <1>3, <2>3, <2>5, <2>6 DEF Affords, Spends
<1> QED BY <1>4, <1>5

\* The other steps leave the path, or come after it.
LEMMA LeavesPath ==
  ASSUME DeliveryInvariant, NEW p \in Processes, NEW t \in Tasks,
         \/ Resume(p, t) \/ BeginRecovery(p, t)
         \/ t = Own(p) /\ (RecordRecovery(p) \/ Recover(p) \/ Block(p) \/ Park(p) \/ Package(p))
  PROVE  ~OnPath(t)'
<1>1. process[p] \in ProcessRow /\ Typed /\ TaskTypeOK /\ AuthTables /\ AllDriving
  BY DEF DeliveryInvariant, AuthInvariant, Typed
<1>2. CASE Resume(p, t)
  BY <1>1, <1>2 DEF Resume, ResumeAfterAuthentication, AuthTables, CheckpointRow, OnPath
<1>3. CASE BeginRecovery(p, t)
  BY <1>3 DEF BeginRecovery, NoStoreChange, allVars, storeVars, taskVars, OnPath, Path
<1>4. CASE RecordRecovery(p) /\ t = Own(p)
  <2>1. task[t].state = "blocked"
    BY <1>1, <1>4 DEF RecordRecovery, At, AllDriving, Driving, InHand, InRecovery, Own, Ended
  <2> QED BY <1>4, <2>1 DEF RecordRecovery, AddEvidence, OnPath, Path
<1>5. CASE Recover(p) /\ t = Own(p)
  BY <1>1, <1>5 DEF Recover, RecoverReviewFormat, MoveTo, TaskTypeOK, TaskRow, OnPath, Path
<1>6. CASE Block(p) /\ t = Own(p)
  <2>1. task'[t].state = "blocked"
    BY <1>1, <1>6, Transits DEF Block, OnTaskOnly
  <2> QED BY <2>1 DEF OnPath, Path
<1>7. CASE Park(p) /\ t = Own(p)
  <2>1. task'[t].state = "authentication_required"
    BY <1>1, <1>7 DEF Park, CheckpointAuthentication, MoveTo, TaskTypeOK, TaskRow
  <2> QED BY <2>1 DEF OnPath, Path
<1>8. CASE Package(p) /\ t = Own(p)
  <2>1. process[p].pc = "package"
    BY <1>8 DEF Package, At
  <2>2. task[t].state = "packaging"
    BY <1>1, <1>8, <2>1, TurnOf DEF Outside, Ended, InTurn
  <2> QED BY <1>8, <2>2 DEF Package, AddEvidence, OnPath, Path
<1> QED BY <1>2, <1>3, <1>4, <1>5, <1>6, <1>7, <1>8

\* Only the calls touch the ledger.
CallStep(p) ==
  \/ Reserve(p) \/ StartCall(p) \/ CallRaises(p)
  \/ \E report \in Reports : CallReturns(p, report)

LEMMA LedgerRests ==
  ASSUME NEW p \in Processes, Begin(p) \/ Step(p) \/ Fail(p), ~CallStep(p)
  PROVE  UNCHANGED <<exec, budget>>
BY DEF Begin, Step, Fail, CallStep, Run, Resume, BeginRecovery, ResumeAfterAuthentication,
   RecordWorkspace, RecordRecovery, Recover, RecoverReviewFormat, Look, Advance, Block, Park,
   CheckpointAuthentication, Commit, Adopt, Record, CountRejection, Package, OnTaskOnly,
   NoStoreChange, allVars, storeVars, ledgerVars

\* A task is called for in a stage of its own, which leaves it alone.
LEMMA CalledFor ==
  ASSUME DeliveryInvariant, NEW p \in Processes, CallStep(p)
  PROVE  \E t \in Tasks : t = Own(p) /\ task[t].state \in DOMAIN RoleOf /\ task' = task
<1>1. process[p].pc \in {"reserve", "start", "call"} /\ task' = task
  BY DEF CallStep, Reserve, StartCall, CallRaises, CallReturns, At, ReserveExecution,
     StartExecution, FinishExecution, taskVars
<1> QED BY <1>1, TurnOf DEF DeliveryInvariant, Outside, Ended, InTurn

\* A task that is there stays.
LEMMA NothingVanishes ==
  ASSUME DeliveryInvariant, NEW p \in Processes, Begin(p) \/ Step(p) \/ Fail(p),
         NEW t \in Tasks, task'[t].state = "absent"
  PROVE  task[t].state = "absent" /\ budget' = budget
<1>1. TaskTypeOK /\ Typed /\ AuthTables /\ AllDriving /\ process[p] \in ProcessRow
  BY DEF DeliveryInvariant, AuthInvariant, Typed
<1>2. ~CallStep(p)
  BY CalledFor, OneTask DEF RoleOf
<1> SUFFICES task[t].state = "absent"
  BY <1>2, LedgerRests
<1>3. CASE \/ Look(p) \/ Fail(p) \/ Commit(p) \/ RecordRecovery(p) \/ Record(p) \/ Package(p)
           \/ \E u \in Tasks : BeginRecovery(p, u)
  BY <1>3 DEF Look, Fail, Commit, RecordRecovery, Record, Package, BeginRecovery, AddEvidence,
     NoStoreChange, allVars, storeVars, taskVars
<1>4. CASE Advance(p) \/ Block(p)
  <2>1. PICK u, from, to : Transition(u, from, to)
    BY <1>4 DEF Advance, Block
  <2>2. to # "absent"
    BY <2>1 DEF Transition, Transitions, Onward, Working
  <2> QED BY <1>1, <2>1, <2>2 DEF Transition, TaskTypeOK, TaskRow
<1>5. CASE RecordWorkspace(p) \/ Adopt(p)
  <2>1. PICK u, r : SetWorkspace(u, r) \/ SetHead(u, r)
    BY <1>5 DEF RecordWorkspace, Adopt
  <2>2. task'[t].state = task[t].state
    BY <1>1, <2>1 DEF SetWorkspace, SetHead, TaskTypeOK, TaskRow
  <2> QED BY <2>2
<1>6. CASE CountRejection(p)
  <2>1. PICK u, s : RecordFailure(u, s)
    BY <1>6 DEF CountRejection
  <2> QED BY <1>1, <2>1 DEF RecordFailure, MoveTo, TaskTypeOK, TaskRow
<1>7. CASE Recover(p) \/ Park(p)
  <2>1. \E u : MoveTo(u, "review_complete") \/ MoveTo(u, "authentication_required")
    BY <1>7 DEF Recover, RecoverReviewFormat, Park, CheckpointAuthentication
  <2> QED BY <1>1, <2>1 DEF MoveTo, TaskTypeOK, TaskRow
<1>8. CASE \E u \in Tasks : Run(p, u)
  BY <1>1, <1>8, RunCreates
<1>9. CASE \E u \in Tasks : Resume(p, u)
  <2>1. PICK u \in Tasks : MoveTo(u, checkpoint[u].stage)
    BY <1>9 DEF Resume, ResumeAfterAuthentication
  <2>2. checkpoint[u].stage # "absent"
    BY <1>1 DEF AuthTables, CheckpointRow, Stages
  <2> QED BY <1>1, <2>1, <2>2 DEF MoveTo, TaskTypeOK, TaskRow
<1> QED BY <1>2, <1>3, <1>4, <1>5, <1>6, <1>7, <1>8, <1>9 DEF Begin, Step, CallStep

\* Nobody is at work on a task but its mover.
LEMMA OnlyMover ==
  ASSUME DeliveryInvariant, OneDriver', NEW p \in Processes, Begin(p) \/ Step(p) \/ Fail(p),
         NEW q \in Processes, Live(q)'
  PROVE  q = p
<1>1. Turns(p) /\ (Live(p) \/ Live(p)') /\ Typed /\ OneDriver
  BY ProcessTurns DEF DeliveryInvariant
<1>2. q # p => process'[q] = process[q]
  BY <1>1 DEF Turns, Typed
<1> QED BY <1>1, <1>2 DEF OneDriver, Live

LEMMA MoverAffords ==
  ASSUME DeliveryInvariant, DeliveryInvariant', Frugal, NEW p \in Processes,
         Begin(p) \/ Step(p) \/ Fail(p), Live(p)', NEW t \in Tasks, OnPath(t)'
  PROVE  Affords(p, t)
<1>1. Typed /\ AllDriving
  BY DEF DeliveryInvariant
<1>2. CASE Begin(p)
  <2>1. PICK u \in Tasks : Run(p, u) \/ Resume(p, u) \/ BeginRecovery(p, u)
    BY <1>2 DEF Begin
  <2>2. u = t
    BY OneTask
  <2>3. Run(p, t)
    BY <2>1, <2>2, LeavesPath
  <2>4. task[t].state = "absent"
    BY <2>3 DEF Run, Exists
  <2> QED BY <2>3, <2>4, StartAffords DEF Frugal
<1>3. CASE Step(p)
  <2>1. Live(p)
    BY <1>3 DEF Step, Live, Ended, At, RecordWorkspace, RecordRecovery, Recover, Look,
     Advance, Block, Reserve, StartCall, CallRaises, CallReturns, Park, Commit, Adopt, Record,
     CountRejection, Package
  <2>2. t = Own(p)
    BY <1>1, <2>1, OneTask DEF AllDriving, Driving, Live, Own
  <2>3. OnPath(t) => Spends(process[p], t)
    BY <2>1, <2>2 DEF Frugal
  <2>4. ~(RecordRecovery(p) \/ Recover(p) \/ Block(p) \/ Park(p) \/ Package(p))
    BY <2>2, LeavesPath
  <2>5. RecordWorkspace(p) => Affords(p, t)
    BY <2>2, <2>3, StartAffords
  <2>6. Look(p) \/ Advance(p) => Affords(p, t)
    BY <2>2, <2>3, LookAffords, AdvanceAffords
  <2>7. CallStep(p) => Affords(p, t)
    BY <2>2, <2>3, CallAffords DEF CallStep
  <2>8. Commit(p) \/ Adopt(p) \/ Record(p) \/ CountRejection(p) => Affords(p, t)
    BY <2>2, <2>3, AfterCallAffords
  <2> QED BY <1>3, <2>4, <2>5, <2>6, <2>7, <2>8 DEF Step, CallStep
<1>4. ASSUME Fail(p) PROVE FALSE
  BY <1>1, <1>4, EndsNow DEF Fail, Ended
<1> QED BY <1>2, <1>3, <1>4

\* A checkpoint, once there is one, stays.
LEMMA LoginsOnPath ==
  ASSUME AuthTables, LoginActions, NEW t \in Tasks, OnPath(t)'
  PROVE  OnPath(t)
<1>1. checkpoint[t] \in CheckpointRow
  BY DEF AuthTables
<1>2. task' = task
  BY LoginsLeaveStore DEF storeVars, taskVars
<1>3. ASSUME NEW s, NEW F, NEW To \in ActiveStatuses, MoveLinked(s, F, To)
      PROVE  checkpoint[t].status = "none"
  BY <1>1, <1>3 DEF MoveLinked, CheckpointRow, ActiveStatuses, OnPath
<1>4. ASSUME NEW u \in Tasks, NEW s \in Sessions, ClaimLogin(u, s) \/ JoinLogin(u, s)
      PROVE  checkpoint[t].status = "none"
  <2>1. CASE ClaimLogin(u, s)
    BY <1>1, <2>1 DEF ClaimLogin, CheckpointRow, OnPath
  <2>2. CASE JoinLogin(u, s)
    BY <2>2 DEF JoinLogin, AuthTables, CheckpointRow, OnPath
  <2> QED BY <1>4, <2>1, <2>2
<1>5. ASSUME NEW s \in Sessions, LaunchLogin(s) \/ LoginEnds(s) \/ OwnerDies(s)
      PROVE  checkpoint[t].status = "none"
  BY <1>5 DEF LaunchLogin, LoginEnds, OwnerDies, OnPath
<1>6. ASSUME NEW s \in Sessions,
             ReportUncertain(s) \/ \E outcome \in LoginOutcomes : FinishLogin(s, outcome)
      PROVE  checkpoint[t].status = "none"
  <2>1. \E F, To : To \in ActiveStatuses /\ MoveLinked(s, F, To)
    BY <1>6 DEF ReportUncertain, FinishLogin, Reconcile, ActiveStatuses
  <2> QED BY <1>3, <2>1
<1>7. ASSUME NEW u \in Tasks, ReconcileUncertain(u) \/ ReconcileEnded(u)
      PROVE  checkpoint[t].status = "none"
  <2>1. \E s, F, To : To \in ActiveStatuses /\ MoveLinked(s, F, To)
    BY <1>7 DEF ReconcileUncertain, ReconcileEnded, Reconcile, ActiveStatuses
  <2> QED BY <1>3, <2>1
<1>8. checkpoint[t].status = "none"
  BY <1>4, <1>5, <1>6, <1>7 DEF LoginActions
<1> QED BY <1>2, <1>8 DEF OnPath

LEMMA FrugalStep ==
  ASSUME DeliveryInvariant, DeliveryInvariant', Frugal, [DeliveryNext /\ OneDriver']_deliveryVars
  PROVE  Frugal'
<1>1. CASE UNCHANGED deliveryVars
  BY <1>1 DEF deliveryVars, allVars, storeVars, taskVars, ledgerVars, authVars, Frugal, Live,
     OnPath, Spends, Allowance, Own
<1>2. CASE LoginActions /\ UNCHANGED <<worktree, process>>
  <2>1. UNCHANGED <<task, budget, process>>
    BY <1>2, LoginsLeaveStore DEF storeVars, taskVars, ledgerVars
  <2>2. ASSUME NEW p \in Processes, Live(p)', OnPath(Own(p))'
        PROVE  Spends(process[p], Own(p))'
    <3>1. PICK t \in Tasks : t = Own(p) /\ t = Own(p)'
      BY <2>1, <2>2 DEF DeliveryInvariant, AllDriving, Driving, Live, Own
    <3>2. Live(p) /\ OnPath(t)
      BY <1>2, <2>1, <2>2, <3>1, LoginsOnPath DEF Live, DeliveryInvariant, AuthInvariant, OnPath
    <3>3. Spends(process[p], t)
      BY <3>1, <3>2 DEF Frugal
    <3> QED BY <2>1, <3>1, <3>3 DEF Spends, Allowance
  <2> QED BY <2>1, <2>2 DEF Frugal
<1>3. ASSUME NEW p \in Processes, Begin(p) \/ Step(p) \/ Fail(p), OneDriver'
      PROVE  Frugal'
  <2>1. ASSUME NEW t \in Tasks, task'[t].state = "absent"
        PROVE  budget'[t].completed = 0 /\ budget'[t].reserved = 0
    BY <1>3, <2>1, NothingVanishes DEF Frugal
  <2>2. ASSUME NEW q \in Processes, Live(q)', OnPath(Own(q))'
        PROVE  Spends(process[q], Own(q))'
    <3>1. q = p
      BY <1>3, <2>2, OnlyMover
    <3>2. PICK t \in Tasks : t = Own(q)'
      BY <2>2 DEF DeliveryInvariant, AllDriving, Driving, Live, Own
    <3>3. OnPath(t)'
      BY <2>2, <3>2 DEF OnPath
    <3>4. Affords(p, t)
      BY <1>3, <2>2, <3>1, <3>3, MoverAffords
    <3> QED BY <3>1, <3>2, <3>4 DEF Affords, Spends, Allowance
  <2> QED BY <2>1, <2>2 DEF Frugal
<1> QED BY <1>1, <1>2, <1>3 DEF DeliveryNext

LEMMA FrugalInit == DeliveryInit => Frugal
BY DEF DeliveryInit, AuthInit, StoreInit, LedgerInit, Unstarted, Frugal, Live

-----------------------------------------------------------------------------
(* The time of such a task.  Every call is allotted at most max_timeout, so *)
(* that what the calls so far took is a share of the limit for each, and    *)
(* what they ran over.                                                      *)

Allotted ==
  \A e \in Executions : exec[e].status # "unused" =>
    exec[e].alloc <= Budget[exec[e].task].max_timeout

Paced ==
  \A u \in Tasks :
    budget[u].elapsed <= budget[u].completed * Budget[u].max_timeout
                           + Total("overrun", exec, u, Closed)

Timed == Charged(exec, budget) /\ Untimed /\ Allotted /\ Paced

LEMMA ReserveTimes ==
  ASSUME Ledger, Ledger', Timed, NEW t \in Tasks, NEW e \in Executions, NEW role \in Roles,
         NEW timeout \in Timeouts, ReserveExecution(t, e, role, timeout)
  PROVE  Timed'
<1>1. Charged(exec', budget') /\ Untimed'
  BY ReserveCharges DEF Timed
<1>2. exec \in ExecTable /\ exec' \in ExecTable /\ budget \in [Tasks -> BudgetRow]
  BY DEF Ledger, LedgerTypeOK, ExecTable
<1>3. PICK row : row = [status |-> "reserved", task |-> t, role |-> role, alloc |-> timeout,
                        elapsed |-> 0, result |-> "none"]
  OBVIOUS
<1>4. /\ exec' = [exec EXCEPT ![e] = row] /\ exec[e].status = "unused"
      /\ timeout <= Budget[t].max_timeout
  BY <1>3 DEF ReserveExecution, Unused, TimeAllowed
<1>5. exec'[e] = row /\ \A d \in Executions \ {e} : exec'[d] = exec[d]
  BY <1>2, <1>4 DEF ExecTable
<1>6. Allotted'
  BY <1>3, <1>4, <1>5 DEF Allotted, Timed
<1>7. ASSUME NEW u \in Tasks
      PROVE  budget'[u].elapsed <= budget'[u].completed * Budget[u].max_timeout
                                     + Total("overrun", exec', u, Closed)
  <2>1. ~Within(exec[e], u, Closed) /\ ~Within(exec'[e], u, Closed)
    BY <1>3, <1>4, <1>5 DEF Within, Closed, Outcomes, Resolutions
  <2>2. Total("overrun", exec', u, Closed) = Total("overrun", exec, u, Closed)
    BY <1>2, <1>5, <2>1, TotalSame DEF Times
  <2>3. budget' = [budget EXCEPT ![t] = [budget[t] EXCEPT !.reserved = @ + 1,
            !.active = @ + 1, !.reserved_elapsed = @ + timeout]]
    BY <1>2 DEF ReserveExecution
  <2>4. budget'[u].elapsed = budget[u].elapsed /\ budget'[u].completed = budget[u].completed
    BY <1>2, <2>3 DEF BudgetRow
  <2> QED BY <2>2, <2>4 DEF Timed, Paced
<1> QED BY <1>1, <1>6, <1>7 DEF Timed, Paced

LEMMA StartTimes ==
  ASSUME Ledger, Ledger', Timed, NEW e \in Executions, StartExecution(e)
  PROVE  Timed'
<1>1. exec[e] \in ExecRow
  BY UsedRow DEF StartExecution, Ledger
<1>2. exec' = [exec EXCEPT ![e].status = "running"] /\ budget' = budget
  BY DEF StartExecution
<1>3. \A d \in Executions : Retimed(d) /\ (exec'[d].status = "unused" => exec[d].status = "unused")
  BY <1>1, <1>2, StatusesDisjoint DEF StartExecution, Retimed, Ledger, LedgerTypeOK, ExecRow,
     Outstanding, Active
<1>4. Charged(exec', budget') /\ Untimed'
  BY <1>2, <1>3, NothingCharged DEF Timed
<1>5. \A u : Total("overrun", exec', u, Closed) = Total("overrun", exec, u, Closed)
  <2>1. TimesOf("overrun", exec') = TimesOf("overrun", exec)
    BY <1>3 DEF Retimed, TimesOf, TimeOf
  <2>2. \A u : Rows(exec', u, Closed) = Rows(exec, u, Closed)
    BY <1>3 DEF Retimed, Rows
  <2> QED BY <2>1, <2>2 DEF Total
<1>6. Paced'
  BY <1>2, <1>5 DEF Timed, Paced
<1>7. Allotted'
  BY <1>1, <1>3 DEF Timed, Allotted, Retimed, StartExecution
<1> QED BY <1>4, <1>6, <1>7 DEF Timed

LEMMA FinishTimes ==
  ASSUME Ledger, Ledger', Timed, NEW e \in Executions, NEW report \in AnyReport,
         FinishExecution(e, report)
  PROVE  Timed'
<1> DEFINE t == exec[e].task
           row == [exec[e] EXCEPT !.status = report.status, !.elapsed = report.elapsed,
                                  !.result = report.result]
<1>1. exec[e].status \in Active /\ exec[e] \in ExecRow
  BY UsedRow DEF FinishExecution, Ledger, Active
<1>2. report.status \in Outcomes /\ report.elapsed \in Nat /\ report.result \in Results
  BY DEF AnyReport
<1>3. /\ row \in ExecRow /\ row.task = t /\ row.alloc = exec[e].alloc
      /\ row.elapsed = report.elapsed /\ row.status \in Closed
  BY <1>1, <1>2 DEF ExecRow, Closed
<1>4. Rewrites(e, row) /\ Release(e, row.elapsed)
  BY <1>3 DEF FinishExecution, Rewrites
<1>5. t \in Tasks /\ exec[e].status \in Outstanding
  BY <1>1 DEF ExecRow, Outstanding
<1> HIDE DEF row
<1>6. Charged(exec', budget') /\ Untimed'
  BY <1>3, <1>4, <1>5, ReleaseCharges DEF Timed
<1>7. /\ exec \in ExecTable /\ exec' \in ExecTable /\ budget \in [Tasks -> BudgetRow]
      /\ exec'[e] = row /\ \A d \in Executions \ {e} : exec'[d] = exec[d]
  BY <1>4 DEF Ledger, LedgerTypeOK, ExecTable, Rewrites
<1>8. exec[e].alloc <= Budget[t].max_timeout
  BY <1>1 DEF Timed, Allotted, Active
<1>9. Allotted'
  BY <1>3, <1>7, <1>8 DEF Timed, Allotted
<1>10. ASSUME NEW u \in Tasks
      PROVE  budget'[u].elapsed <= budget'[u].completed * Budget[u].max_timeout
                                     + Total("overrun", exec', u, Closed)
  <2>1. /\ Within(exec'[e], u, Closed) <=> t = u
        /\ ~Within(exec[e], u, Closed)
    BY <1>3, <1>5, <1>7, StatusesDisjoint DEF Within
  <2>2. budget' = [budget EXCEPT ![t] = [budget[t] EXCEPT !.reserved = @ - 1,
            !.active = @ - 1, !.completed = @ + 1, !.elapsed = @ + row.elapsed,
            !.reserved_elapsed = @ - exec[e].alloc]]
    BY <1>4, <1>5, <1>7 DEF Release
  <2>3. budget[u].elapsed <= budget[u].completed * Budget[u].max_timeout
                               + Total("overrun", exec, u, Closed)
    BY DEF Timed, Paced
  <2>4. CASE t # u
    <3>1. Total("overrun", exec', u, Closed) = Total("overrun", exec, u, Closed)
      BY <1>7, <2>1, <2>4, TotalSame DEF Times
    <3> QED BY <1>7, <2>2, <2>3, <2>4, <3>1
  <2>5. CASE t = u
    <3>1. PICK a \in Nat, b \in Nat, m \in Nat, c \in Nat, d \in Nat :
            /\ a = row.elapsed /\ b = row.alloc /\ m = Budget[u].max_timeout
            /\ c = budget[u].completed /\ d = budget[u].elapsed
      BY <1>3, <1>7, BudgetAssumption DEF ExecRow, BudgetRow, Limits
    <3>2. PICK n \in Nat : n = Total("overrun", exec, u, Closed)
      BY <1>7, TotalNatural DEF Times
    <3>3. PICK o \in Nat : o = TimeOf("overrun", row) /\ a <= b + o
      <4>1. TimeOf("overrun", row) = IF a > b THEN a - b ELSE 0
        BY <3>1 DEF TimeOf
      <4> QED BY <3>1, <4>1
    <3>4. Total("overrun", exec', u, Closed) = n + o
      BY <1>7, <2>1, <2>5, <3>2, <3>3, TotalIn DEF Times
    <3>5. budget'[u].elapsed = d + a /\ budget'[u].completed = c + 1
      BY <1>7, <2>2, <2>5, <3>1 DEF BudgetRow
    <3>6. d <= c * m + n /\ b <= m
      BY <1>3, <1>8, <2>3, <2>5, <3>1, <3>2
    <3>7. PICK k \in Nat : k = c * m
      BY <3>1
    <3>8. (c + 1) * m = k + m
      BY <3>1, <3>7
    <3>9. d + a <= (c + 1) * m + (n + o)
      BY <3>3, <3>6, <3>7, <3>8
    <3> QED BY <3>1, <3>4, <3>5, <3>9
  <2> QED BY <2>4, <2>5
<1> QED BY <1>6, <1>9, <1>10 DEF Timed, Paced

\* The other steps leave the ledger alone.
LEMMA TimedStep ==
  ASSUME DeliveryInvariant, DeliveryInvariant', Timed, [DeliveryNext /\ OneDriver']_deliveryVars
  PROVE  Timed'
<1>1. Ledger /\ Ledger'
  BY DEF DeliveryInvariant, AuthInvariant
<1>2. ASSUME UNCHANGED <<exec, budget>> PROVE Timed'
  BY <1>2 DEF Timed, Charged, Untimed, Allotted, Paced, Total, TimesOf, Rows
<1>3. UNCHANGED deliveryVars \/ LoginActions => UNCHANGED <<exec, budget>>
  BY LoginsLeaveStore DEF deliveryVars, allVars, storeVars, ledgerVars
<1>4. ASSUME NEW p \in Processes, CallStep(p) PROVE Timed'
  <2>1. process[p].pc \in {"reserve", "start", "call"}
    BY <1>4 DEF CallStep, Reserve, StartCall, CallRaises, CallReturns, At
  <2>2. PICK t \in Tasks : t = Own(p) /\ InTurn(process[p], t)
    BY <2>1, TurnOf DEF DeliveryInvariant, Outside, Ended
  <2>3. CASE Reserve(p)
    <3>1. RoleOf[From(p)] \in Roles
      BY <2>2, <2>3, StagesOfCalls DEF Reserve, At, InTurn, From
    <3>2. PICK e \in Executions, timeout \in Timeouts :
            ReserveExecution(t, e, RoleOf[From(p)], timeout)
      BY <2>2, <2>3 DEF Reserve
    <3> QED BY <1>1, <3>1, <3>2, ReserveTimes
  <2>4. CASE StartCall(p)
    <3>1. Call(p) \in Executions /\ StartExecution(Call(p))
      BY <2>2, <2>4 DEF StartCall, At, InTurn, Call
    <3> QED BY <1>1, <3>1, StartTimes
  <2>5. CASE CallRaises(p) \/ \E report \in Reports : CallReturns(p, report)
    <3>1. Call(p) \in Executions
      BY <2>2, <2>5 DEF CallRaises, CallReturns, At, InTurn, Call
    <3>2. PICK r : r = [status |-> "failed", elapsed |-> 0, result |-> "other"]
      OBVIOUS
    <3>3. r \in AnyReport /\ \A report \in Reports : report \in AnyReport
      BY <3>2, ReportsAssumption DEF AnyReport, Outcomes, Results
    <3>4. \E report \in AnyReport : FinishExecution(Call(p), report)
      BY <2>5, <3>2, <3>3 DEF CallRaises, CallReturns
    <3> QED BY <1>1, <3>1, <3>4, FinishTimes
  <2> QED BY <1>4, <2>3, <2>4, <2>5 DEF CallStep
<1> QED BY <1>2, <1>3, <1>4, LedgerRests DEF DeliveryNext

LEMMA TimedInit == DeliveryInit => Timed
<1> SUFFICES ASSUME DeliveryInit PROVE Timed
  OBVIOUS
<1>1. /\ exec = [e \in Executions |-> Unused] /\ exec \in ExecTable
      /\ \A u \in Tasks : budget[u].elapsed = 0 /\ budget[u].completed = 0
  BY DEF DeliveryInit, AuthInit, StoreInit, LedgerInit, ExecTable
<1>2. Charged(exec, budget) /\ Untimed
  BY ChargedInit DEF DeliveryInit, AuthInit
<1>3. Allotted
  BY <1>1 DEF Allotted, Unused
<1>4. ASSUME NEW u \in Tasks
      PROVE  0 <= 0 * Budget[u].max_timeout + Total("overrun", exec, u, Closed)
  <2>1. Budget[u].max_timeout \in Nat /\ Total("overrun", exec, u, Closed) \in Nat
    BY <1>1, TotalNatural, BudgetAssumption DEF Times, Limits
  <2> QED BY <2>1
<1> QED BY <1>1, <1>2, <1>3, <1>4 DEF Timed, Paced

\* Before its next call, a task on its path has a call and its time to spare.
LEMMA BudgetIsLeft ==
  ASSUME DeliveryInvariant, Frugal, Timed, NEW p \in Processes, At(p, "reserve"),
         NEW t \in Tasks, t = Own(p), checkpoint[t].status = "none"
  PROVE  /\ CallAllowed(t, RoleOf[From(p)])
         /\ \A timeout \in Timeouts :
              TimeAllowed(t, timeout, Budget[t].max_elapsed + Total("overrun", exec, t, Closed))
<1>1. process[p].pc = "reserve" /\ InTurn(process[p], t) /\ process[p].from \in DOMAIN RoleOf
      /\ task[t].state = process[p].from
  BY TurnOf DEF At, Outside, Ended, DeliveryInvariant, InTurn
<1>2. Spends(process[p], t)
  <2>1. OnPath(t) /\ Live(p)
    BY <1>1 DEF OnPath, Path, RoleOf, Live, Ended
  <2> QED BY <2>1 DEF Frugal
<1>3. PICK n \in 0..2, c \in Nat, b \in 0..2 :
        n = task[t].repairs /\ c = budget[t].completed /\ b = Before(task[t].state)
  BY CountsNatural
<1>4. budget[t].reserved = 0 /\ c <= 3 * n + b
  BY <1>1, <1>2, <1>3 DEF Spends, Allowance
<1>5. In(t, Outstanding) = {} /\ budget[t].active = 0
  <2>1. /\ budget[t].reserved = Cardinality(In(t, Outstanding))
        /\ budget[t].active = budget[t].reserved
    BY DEF DeliveryInvariant, AuthInvariant, Ledger, LedgerMatchesExecutions
  <2>2. IsFiniteSet(In(t, Outstanding))
    <3>1. In(t, Outstanding) = Rows(exec, t, Outstanding)
      BY DEF In, Rows
    <3> QED BY <3>1, RowsFinite
  <2> QED BY <1>4, <2>1, <2>2, FS_EmptySet
<1>6. /\ Budget[t].max_calls = 9 /\ Budget[t].max_concurrency >= 1
      /\ Budget[t].verification_reserve = 2 /\ Budget[t].review_reserve = 0
      /\ Budget[t].max_timeout \in Nat /\ Budget[t].max_elapsed \in Nat
      /\ Budget[t].max_concurrency \in Nat
      /\ Budget[t].max_elapsed >= 9 * Budget[t].max_timeout
  BY DeliveryBudgetAssumption, BudgetAssumption DEF ValidLimits, Limits
<1>7. CallAllowed(t, RoleOf[From(p)])
  <2>1. RoleOf[From(p)] \in Roles /\ task[t].state = RoleState[RoleOf[From(p)]]
    BY <1>1 DEF RoleOf, Roles, RoleState, From
  <2>2. ~Uncertain(t)
    BY <1>5 DEF Uncertain, In, Outstanding
  <2>3. PICK d \in Nat : d = Protected(t, RoleOf[From(p)]) /\ b + d <= 2
    <3>1. CASE process[p].from \in {"implementing", "repairing"}
      <4>1. Protected(t, RoleOf[From(p)]) = 2 /\ b = 0
        BY <1>1, <1>3, <1>6, <3>1 DEF Protected, RoleOf, From, Before
      <4> QED BY <4>1
    <3>2. CASE process[p].from \in {"verifying", "reviewing"}
      <4>1. Protected(t, RoleOf[From(p)]) = 0
        BY <1>6, <3>2 DEF Protected, RoleOf, From
      <4> QED BY <1>3, <4>1
    <3> QED BY <1>1, <3>1, <3>2 DEF RoleOf
  <2>4. 9 - (c + 0) - 1 >= d
    BY <1>3, <1>4, <2>3
  <2> QED BY <1>3, <1>4, <1>5, <1>6, <2>1, <2>2, <2>3, <2>4 DEF CallAllowed
<1>8. ASSUME NEW timeout \in Timeouts
      PROVE  TimeAllowed(t, timeout, Budget[t].max_elapsed + Total("overrun", exec, t, Closed))
  <2>1. exec \in ExecTable /\ budget[t].elapsed \in Nat
    BY DEF DeliveryInvariant, AuthInvariant, Ledger, LedgerTypeOK, ExecTable, BudgetRow
  <2>2. PICK m \in Nat, o \in Nat, d \in Nat, l \in Nat :
          /\ m = Budget[t].max_timeout /\ o = Total("overrun", exec, t, Closed)
          /\ d = budget[t].elapsed /\ l = Budget[t].max_elapsed
    BY <1>6, <2>1, TotalNatural DEF Times
  <2>3. budget[t].reserved_elapsed = 0
    <3>1. Rows(exec, t, Outstanding) = {}
      BY <1>5 DEF In, Rows
    <3>2. SumFunctionOnSet(TimesOf("alloc", exec), {}) = 0
      BY FS_EmptySet, SumIsUnits, UnitsOfNone DEF Natural
    <3> QED BY <3>1, <3>2 DEF Timed, Charged, Total
  <2>4. d <= c * m + o
    BY <1>3, <2>2 DEF Timed, Paced
  <2>5. c * m <= 8 * m
    <3>1. c <= 8
      BY <1>3, <1>4
    <3> QED BY <2>2, <3>1
  <2>6. timeout \in Nat /\ timeout <= m /\ 9 * m <= l
    BY <1>6, <2>2, DeliveryBudgetAssumption, TimeoutsAssumption
  <2>7. d + 0 + timeout <= l + o
    BY <2>2, <2>4, <2>5, <2>6
  <2> QED BY <2>2, <2>3, <2>6, <2>7 DEF TimeAllowed
<1> QED BY <1>7, <1>8

\* The budget of a delivery covers every path through it: nine calls are enough
\* for a candidate and two repairs of it, whatever its calls report, and no call
\* is refused for its time but what earlier ones took beyond their own.
THEOREM BudgetSuffices == OneDriverSpec => []BudgetCoversPath
<1>1. DeliveryInvariant /\ Frugal /\ Timed => BudgetCoversPath
  <2> SUFFICES ASSUME DeliveryInvariant, Frugal, Timed, NEW p \in Processes,
                      At(p, "reserve"), checkpoint[Own(p)].status = "none"
               PROVE  /\ CallAllowed(Own(p), RoleOf[From(p)])
                      /\ \A timeout \in Timeouts : TimeAllowed(Own(p), timeout,
                           Budget[Own(p)].max_elapsed
                             + SumFunctionOnSet(Overrun, In(Own(p), Closed)))
    BY DEF BudgetCoversPath
  <2>1. PICK t \in Tasks : t = Own(p)
    BY TurnOf DEF At, Outside, Ended, DeliveryInvariant
  <2>2. SumFunctionOnSet(Overrun, In(t, Closed)) = Total("overrun", exec, t, Closed)
    <3>1. Overrun = TimesOf("overrun", exec) /\ In(t, Closed) = Rows(exec, t, Closed)
      BY DEF Overrun, TimesOf, TimeOf, In, Rows
    <3> QED BY <3>1 DEF Total
  <2> QED BY <2>1, <2>2, BudgetIsLeft
<1>2. DeliveryInit => Frugal /\ Timed
  BY FrugalInit, TimedInit
<1>3. DeliveryInvariant /\ DeliveryInvariant' /\ Frugal /\ Timed
      /\ [DeliveryNext /\ OneDriver']_deliveryVars => Frugal' /\ Timed'
  BY FrugalStep, TimedStep
<1> QED BY <1>1, <1>2, <1>3, DeliveryInvariantHolds, PTL DEF OneDriverSpec

-----------------------------------------------------------------------------
(* A command at work comes nearer to its end with every step.              *)

Nears(p) == Rank(p)' \in Nat /\ Rank(p)' < Rank(p)

\* What every step of a command that is still at work afterwards has to do.
LEMMA RankFalls ==
  ASSUME DeliveryInvariant, DeliveryInvariant', NEW p \in Processes, NEW t \in Tasks, t = Own(p),
         process[p].pc \in DOMAIN Due, process'[p].pc \in DOMAIN Due, process'[p].task = t,
         \/ task'[t].repairs = task[t].repairs + 1
         \/ /\ task'[t].repairs = task[t].repairs
            /\ Ahead(Station(process[p], t))' < Ahead(Station(process[p], t))
         \/ /\ task'[t].repairs = task[t].repairs
            /\ Ahead(Station(process[p], t))' = Ahead(Station(process[p], t))
            /\ Due[process'[p].pc] < Due[process[p].pc]
  PROVE  Nears(p)
<1>1. PICK n \in 0..2, m \in 0..2 : n = task[t].repairs /\ m = task'[t].repairs
  BY DEF DeliveryInvariant, AuthInvariant, TaskTypeOK, TaskRow
<1>2. \A s : Ahead(s) \in 0..11
  BY DEF Ahead, StagesAhead
<1>3. PICK a \in 0..11, b \in 0..11 :
        a = Ahead(Station(process[p], t)) /\ b = Ahead(Station(process[p], t))'
  BY <1>2
<1>4. PICK d \in 2..11, c \in 2..11 : d = Due[process[p].pc] /\ c = Due[process'[p].pc]
  BY DEF Due
<1>5. Rank(p) = 16 * (16 * (2 - n) + a) + d
  BY <1>1, <1>3, <1>4 DEF Rank, Station, Ahead
<1>6. Rank(p)' = 16 * (16 * (2 - m) + b) + c
  BY <1>1, <1>3, <1>4 DEF Rank, Own, Station, Ahead
<1>7. \/ m = n + 1
      \/ m = n /\ b < a
      \/ m = n /\ b = a /\ c < d
  BY <1>1, <1>3, <1>4
<1>8. PICK r \in Nat, q \in Nat : /\ r = 16 * (16 * (2 - m) + b) + c
                                  /\ q = 16 * (16 * (2 - n) + a) + d
  OBVIOUS
<1>9. r < q
  BY <1>7, <1>8
<1> QED BY <1>5, <1>6, <1>8, <1>9 DEF Nears

\* A step within a stage only has to come further in its turn.
LEMMA TurnFalls ==
  ASSUME DeliveryInvariant, DeliveryInvariant', NEW p \in Processes, NEW t \in Tasks, t = Own(p),
         process[p].pc \in DOMAIN Due, process'[p].pc \in DOMAIN Due, process'[p].task = t,
         task'[t].state = task[t].state, task'[t].repairs = task[t].repairs,
         process[p].pc # "advance", process'[p].pc = "advance" => process'[p].verdict # "rejected",
         Due[process'[p].pc] < Due[process[p].pc]
  PROVE  Nears(p)
<1>1. Ahead(Station(process[p], t)) = Ahead(task[t].state)
  BY DEF Station
<1>2. Ahead(Station(process[p], t))' = Ahead(task[t].state)
  BY DEF Station, Ahead
<1> QED BY <1>1, <1>2, RankFalls

LEMMA AtWork ==
  ASSUME Typed, AllDriving, NEW p \in Processes, Live(p)
  PROVE  /\ process[p] \in ProcessRow /\ process[p].pc \in DOMAIN Due
         /\ \E t \in Tasks : t = Own(p) /\ process[p].task = t
BY DEF Typed, ProcessRow, Points, Live, Ended, Due, AllDriving, Driving, Own

LEMMA AtWorkNext ==
  ASSUME DeliveryInvariant', NEW p \in Processes, Live(p)', NEW t \in Tasks
  PROVE  process'[p].pc \in DOMAIN Due /\ process'[p].task = t
<1>1. process'[p].pc \in DOMAIN Due
  BY DEF DeliveryInvariant, Typed, ProcessRow, Points, Live, Ended, Due
<1>2. process'[p].task \in Tasks
  BY DEF DeliveryInvariant, AllDriving, Driving, Live
<1> QED BY <1>1, <1>2, OneTask

\* The steps of a turn that leave the task where it is.
LEMMA WithinStage ==
  ASSUME DeliveryInvariant, DeliveryInvariant', NEW p \in Processes, Live(p)',
         \/ RecordWorkspace(p) \/ RecordRecovery(p) \/ Look(p) \/ CallStep(p)
         \/ Commit(p) \/ Adopt(p) \/ Record(p) \/ Package(p)
  PROVE  Nears(p)
<1>1. Live(p)
  BY DEF Live, Ended, At, RecordWorkspace, RecordRecovery, Look, CallStep, Reserve, StartCall,
     CallRaises, CallReturns, Commit, Adopt, Record, Package
<1>2. /\ Typed /\ AllDriving /\ TaskTypeOK
      /\ process[p] \in ProcessRow /\ process[p].pc \in DOMAIN Due
  BY <1>1, AtWork DEF DeliveryInvariant, AuthInvariant
<1>3. PICK t \in Tasks : t = Own(p)
  BY <1>1, <1>2, AtWork
<1>4. process'[p].pc \in DOMAIN Due /\ process'[p].task = t
  BY AtWorkNext
<1>5. task'[t].state = task[t].state /\ task'[t].repairs = task[t].repairs
  <2>1. CASE RecordWorkspace(p) \/ Adopt(p)
    <3>1. PICK r : SetWorkspace(t, r) \/ SetHead(t, r)
      BY <1>3, <2>1 DEF RecordWorkspace, Adopt
    <3> QED BY <1>2, <3>1 DEF SetWorkspace, SetHead, TaskTypeOK, TaskRow
  <2>2. CASE RecordRecovery(p) \/ Look(p) \/ CallStep(p) \/ Commit(p) \/ Record(p) \/ Package(p)
    <3>1. task' = task
      BY <2>2, CalledFor DEF RecordRecovery, Look, Commit, Record, Package, AddEvidence,
         NoStoreChange, allVars, storeVars, taskVars
    <3> QED BY <3>1
  <2> QED BY <2>1, <2>2
<1>6. /\ process[p].pc # "advance"
      /\ process'[p].pc = "advance" => process'[p].verdict # "rejected"
      /\ Due[process'[p].pc] < Due[process[p].pc]
  <2>1. CASE RecordWorkspace(p)
    <3>1. process[p].pc = "workspace" /\ process[p].verdict # "rejected"
      BY <1>2, <2>1 DEF RecordWorkspace, At, AllDriving, Driving, InHand, Ended
    <3>2. process'[p].pc = "advance" /\ process'[p].verdict = process[p].verdict
      BY <1>2, <2>1 DEF RecordWorkspace, Typed, ProcessRow
    <3> QED BY <3>1, <3>2 DEF Due
  <2>2. CASE RecordRecovery(p)
    <3>1. process[p].pc = "evidence" /\ process'[p].pc = "recover"
      BY <1>2, <2>2, GoesOn DEF RecordRecovery, At, Points, Ended
    <3> QED BY <3>1 DEF Due
  <2>3. CASE Look(p)
    <3>1. /\ process[p].pc = "look"
          /\ process'[p].pc \in {"advance", "reserve", "package"}
          /\ process'[p].verdict = "none"
      <4>1. PICK r, s : process' = [process EXCEPT ![p] = Then(
                [Unstarted EXCEPT !.task = t, !.from = s, !.head = task[t].head,
                   !.attempt = task[t].repairs, !.feedback = r], Turn(s))]
                /\ s \in AtRest \cup Calling \cup Passing \cup {"packaging"}
        BY <1>3, <2>3 DEF Look
      <4>2. Turn(s) \in {"returned", "advance", "reserve", "package"}
        BY <4>1 DEF Turn, AtRest, Calling, Passing
      <4>3. process'[p] = Then([Unstarted EXCEPT !.task = t, !.from = s, !.head = task[t].head,
                   !.attempt = task[t].repairs, !.feedback = r], Turn(s))
        BY <1>2, <4>1 DEF Typed
      <4>4. Turn(s) # "returned"
        BY <4>3 DEF Then, Live, Ended, Unstarted
      <4> QED BY <2>3, <4>2, <4>3, <4>4 DEF Then, Ended, Unstarted, Look, At
    <3> QED BY <3>1 DEF Due
  <2>4. CASE Reserve(p)
    <3>1. process[p].pc = "reserve" /\ process'[p].pc = "start"
      BY <1>2, <2>4 DEF Reserve, At, Typed, ProcessRow
    <3> QED BY <3>1 DEF Due
  <2>5. CASE StartCall(p)
    <3>1. process[p].pc = "start" /\ process'[p].pc = "call"
      BY <1>2, <2>5, GoesOn DEF StartCall, At, Points, Ended
    <3> QED BY <3>1 DEF Due
  <2>6. ASSUME CallRaises(p) PROVE FALSE
    BY <1>2, <2>6, EndsNow DEF CallRaises, Ended
  <2>7. ASSUME NEW report \in Reports, CallReturns(p, report)
        PROVE  /\ process[p].pc = "call"
               /\ process'[p].pc \in {"park", "record", "commit", "block"}
    <3>1. PICK v :
            process' = [process EXCEPT ![p].verdict = v, ![p].pc =
               CASE report.result = "authentication"   -> "park"
                 [] report.result # "authentication" /\ ~Worker(p) -> "record"
                 [] report.result # "authentication" /\ Worker(p)  ->
                      IF v = "passed" THEN "commit" ELSE "block"]
      BY <2>7 DEF CallReturns
    <3>2. CASE report.result = "authentication"
      BY <1>2, <2>7, <3>1, <3>2 DEF Typed, ProcessRow, CallReturns, At
    <3>3. CASE report.result # "authentication" /\ ~Worker(p)
      BY <1>2, <2>7, <3>1, <3>3 DEF Typed, ProcessRow, CallReturns, At
    <3>4. CASE report.result # "authentication" /\ Worker(p)
      BY <1>2, <2>7, <3>1, <3>4 DEF Typed, ProcessRow, CallReturns, At
    <3> QED BY <3>2, <3>3, <3>4
  <2>8. CASE Commit(p)
    <3>1. process[p].pc = "commit" /\ process'[p].pc = "adopt"
      BY <1>2, <2>8 DEF Commit, At, Typed, ProcessRow
    <3> QED BY <3>1 DEF Due
  <2>9. CASE Adopt(p)
    <3>1. /\ process[p].pc = "adopt" /\ process'[p].pc = "advance"
          /\ process'[p].verdict = process[p].verdict
      BY <1>2, <2>9, GoesOn DEF Adopt, At, Points, Ended
    <3>2. process[p].verdict = "passed"
      BY <1>2, <3>1, TurnOf DEF Outside, Ended, InTurn
    <3> QED BY <3>1, <3>2 DEF Due
  <2>10. CASE Record(p)
    <3>1. process[p].pc = "record"
      BY <2>10 DEF Record, At
    <3>2. process[p].verdict \in {"passed", "rejected", "stopped"}
      BY <1>2, <3>1, TurnOf DEF Outside, Ended, InTurn, ProcessRow, Verdicts
    <3>3. PICK pc \in {"advance", "count", "block"} :
            Goto(p, pc) /\ (pc = "advance" => process[p].verdict # "rejected")
      BY <2>10, <3>2 DEF Record
    <3>4. process'[p].pc = pc /\ process'[p].verdict = process[p].verdict
      BY <1>2, <3>3, GoesOn DEF Points, Ended
    <3> QED BY <3>1, <3>3, <3>4 DEF Due
  <2>11. CASE Package(p)
    <3>1. /\ process[p].pc = "package" /\ process'[p].pc = "advance"
          /\ process'[p].verdict = process[p].verdict
      BY <1>2, <2>11, GoesOn DEF Package, At, Points, Ended
    <3>2. process[p].verdict # "rejected"
      BY <1>2, <3>1, TurnOf DEF Outside, Ended, InTurn
    <3> QED BY <3>1, <3>2 DEF Due
  <2>12. ASSUME NEW report \in Reports, CallReturns(p, report)
         PROVE  Due[process'[p].pc] < Due[process[p].pc] /\ process'[p].pc # "advance"
                /\ process[p].pc # "advance"
    BY <2>7, <2>12 DEF Due
  <2> QED BY <2>1, <2>2, <2>3, <2>4, <2>5, <2>6, <2>8, <2>9, <2>10, <2>11, <2>12 DEF CallStep
<1> QED BY <1>2, <1>3, <1>4, <1>5, <1>6, TurnFalls

\* Those that move it: on, out of the way, or back for one repair more.
LEMMA BetweenStages ==
  ASSUME DeliveryInvariant, DeliveryInvariant', NEW p \in Processes, Live(p)',
         Advance(p) \/ Block(p) \/ Park(p) \/ Recover(p) \/ CountRejection(p)
  PROVE  Nears(p)
<1>1. Live(p)
  BY DEF Live, Ended, At, Advance, Block, Park, Recover, CountRejection
<1>2. /\ Typed /\ AllDriving /\ TaskTypeOK
      /\ process[p] \in ProcessRow /\ process[p].pc \in DOMAIN Due
  BY <1>1, AtWork DEF DeliveryInvariant, AuthInvariant
<1>3. PICK t \in Tasks : t = Own(p)
  BY <1>1, <1>2, AtWork
<1>4. process'[p].pc \in DOMAIN Due /\ process'[p].task = t
  BY AtWorkNext
<1>5. ASSUME process'[p].pc # "advance"
      PROVE  Ahead(Station(process[p], t))' = Ahead(task'[t].state)
  BY <1>5 DEF Station, Ahead
<1>6. CASE Advance(p)
  <2>1. process[p].pc = "advance" /\ InTurn(process[p], t)
    BY <1>2, <1>3, <1>6, TurnOf DEF Advance, At, Outside, Ended
  <2>2. PICK to : to = IF process[p].verdict = "rejected" THEN "repairing"
                                                          ELSE Onwards[process[p].from]
    OBVIOUS
  <2>3. task'[t].state = to /\ task'[t].repairs = task[t].repairs
    BY <1>2, <1>3, <1>6, <2>2, Transits DEF Advance, From, OnTaskOnly, Same
  <2>4. process'[p].pc \in {"look", "reserve"}
    BY <1>2, <1>6, GoesOn DEF Advance, Typed, ProcessRow, Points, Ended
  <2>5. Ahead(to) < Ahead(Station(process[p], t))
    <3>1. CASE process[p].verdict = "rejected"
      BY <2>1, <2>2, <3>1 DEF Station, Ahead, StagesAhead
    <3>2. CASE process[p].verdict # "rejected"
      <4>1. process[p].from \in DOMAIN Onwards /\ Station(process[p], t) = process[p].from
        BY <2>1, <3>2 DEF InTurn, Station
      <4> QED BY <2>2, <3>2, <4>1 DEF Onwards, Ahead, StagesAhead
    <3> QED BY <3>1, <3>2
  <2> QED BY <1>2, <1>3, <1>4, <1>5, <2>3, <2>4, <2>5, RankFalls
<1>7. CASE Block(p) \/ Park(p)
  <2>1. process[p].pc \in {"block", "park"} /\ InTurn(process[p], t)
    BY <1>2, <1>3, <1>7, TurnOf DEF Block, Park, At, Outside, Ended
  <2>2. process'[p].pc = "look"
    BY <1>2, <1>7, GoesOn DEF Block, Park, Points, Ended
  <2>3. /\ task[t].state \in DOMAIN RoleOf /\ task'[t].repairs = task[t].repairs
        /\ task'[t].state \in {"blocked", "authentication_required"}
    <3>1. CASE Block(p)
      <4>1. process[p].pc = "block" /\ process[p].from \in DOMAIN RoleOf
        BY <2>1, <3>1 DEF Block, At, InTurn
      <4> QED BY <1>2, <1>3, <2>1, <3>1, <4>1, Transits
            DEF Block, From, OnTaskOnly, Same, InTurn
    <3>2. CASE Park(p)
      <4>1. task[t].state \in Stages /\ MoveTo(t, "authentication_required")
        BY <1>3, <3>2 DEF Park, CheckpointAuthentication, Interrupted
      <4> QED BY <1>2, <4>1, StagesOfCalls DEF MoveTo, TaskTypeOK, TaskRow
    <3> QED BY <1>7, <3>1, <3>2
  <2>4. Ahead(task'[t].state) < Ahead(Station(process[p], t))
    <3>1. Station(process[p], t) = task[t].state
      BY <2>1 DEF Station
    <3> QED BY <2>3, <3>1 DEF RoleOf, Ahead, StagesAhead
  <2> QED BY <1>2, <1>3, <1>4, <1>5, <2>2, <2>3, <2>4, RankFalls
<1>8. CASE Recover(p)
  <2>1. process[p].pc = "recover" /\ process'[p].pc = "look"
    BY <1>2, <1>8, GoesOn DEF Recover, At, Points, Ended
  <2>2. task[t].state = "blocked" /\ MoveTo(t, "review_complete")
    BY <1>3, <1>8 DEF Recover, RecoverReviewFormat, BlockedByReview
  <2>3. task'[t].state = "review_complete" /\ task'[t].repairs = task[t].repairs
    BY <1>2, <2>2 DEF MoveTo, TaskTypeOK, TaskRow
  <2>4. Ahead(task'[t].state) < Ahead(Station(process[p], t))
    BY <2>1, <2>2, <2>3 DEF Station, Ahead, StagesAhead
  <2> QED BY <1>2, <1>3, <1>4, <1>5, <2>1, <2>3, <2>4, RankFalls
<1>9. CASE CountRejection(p)
  <2>1. process[p].pc = "count" /\ process'[p].pc \in {"look", "advance"}
        /\ (task'[t].state = "blocked" => process'[p].pc = "look")
    BY <1>2, <1>3, <1>9, GoesOn DEF CountRejection, At, Points, Ended
  <2>2. PICK s \in Signatures : RecordFailure(t, s)
    BY <1>3, <1>9 DEF CountRejection
  <2>3. CASE MoveTo(t, "blocked")
    <3>1. task'[t].state = "blocked" /\ task'[t].repairs = task[t].repairs
      BY <1>2, <2>3 DEF MoveTo, TaskTypeOK, TaskRow
    <3>2. Ahead(task'[t].state) < Ahead(Station(process[p], t))
      BY <2>1, <2>2, <3>1 DEF RecordFailure, Station, Ahead, StagesAhead
    <3> QED BY <1>2, <1>3, <1>4, <1>5, <2>1, <3>1, <3>2, RankFalls
  <2>4. CASE task' = [task EXCEPT ![t].repairs = @ + 1]
    <3>1. task'[t].repairs = task[t].repairs + 1
      BY <1>2, <2>4 DEF TaskTypeOK, TaskRow
    <3> QED BY <1>2, <1>3, <1>4, <3>1, RankFalls
  <2> QED BY <2>2, <2>3, <2>4 DEF RecordFailure
<1> QED BY <1>6, <1>7, <1>8, <1>9

\* Whatever a command's calls return, every step it takes brings it nearer to
\* its end, and nothing else moves it: with the fairness of its steps, it ends.
THEOREM DrivesDescend == OneDriverSpec => DriveDescends
<1> DEFINE Holds == \A p \in Processes : Live(p) /\ Live(p)' =>
       \/ process'[p] = process[p] /\ Rank(p)' = Rank(p)
       \/ Rank(p)' \in Nat /\ Rank(p)' < Rank(p)
<1>1. ASSUME DeliveryInvariant, DeliveryInvariant', [DeliveryNext /\ OneDriver']_deliveryVars
      PROVE  Holds
  <2> SUFFICES ASSUME NEW p \in Processes, Live(p), Live(p)'
               PROVE  (process'[p] = process[p] /\ Rank(p)' = Rank(p)) \/ Nears(p)
    BY DEF Nears
  <2>1. CASE UNCHANGED deliveryVars \/ (LoginActions /\ UNCHANGED <<worktree, process>>)
    <3>1. task' = task /\ process' = process
      BY <2>1, LoginsLeaveStore DEF deliveryVars, allVars, storeVars, taskVars
    <3> QED BY <3>1 DEF Rank, Own, Station, Ahead
  <2>2. ASSUME NEW q \in Processes, Begin(q) \/ Step(q) \/ Fail(q), OneDriver'
        PROVE  Nears(p)
    <3>1. p = q
      BY <1>1, <2>2, OnlyMover DEF OneDriver
    <3>2. ~Begin(p)
      BY DEF Begin, Run, Resume, BeginRecovery, At, Live
    <3>3. ~Fail(p)
      BY <1>1, EndsNow DEF Fail, Ended, DeliveryInvariant
    <3> QED BY <1>1, <2>2, <3>1, <3>2, <3>3, WithinStage, BetweenStages DEF Step, CallStep
  <2> QED BY <1>1, <2>1, <2>2 DEF DeliveryNext
<1>2. DeliveryInvariant /\ DeliveryInvariant' /\ [DeliveryNext /\ OneDriver']_deliveryVars
        => [Holds]_deliveryVars
  BY <1>1
<1> HIDE DEF Holds
<1>3. OneDriverSpec => [][Holds]_deliveryVars
  BY <1>2, DeliveryInvariantHolds, PTL DEF OneDriverSpec
<1> QED BY <1>3 DEF Holds, DriveDescends

-----------------------------------------------------------------------------
(* The delivery implements CandidatePipeline, step by step.                *)

\* What a step that leaves the candidate alone may do to the pipeline.
Untouched(t) == worktree' = worktree /\ task'[t].head = task[t].head

LEMMA Heads == \A t \in Tasks : task'[t].head = task[t].head =>
                 UNCHANGED [u \in Tasks |-> task[u].head]
BY OneTask

LEMMA PipelineStands ==
  ASSUME NEW t \in Tasks, PipelineStage(t)' = PipelineStage(t)
  PROVE  UNCHANGED [u \in Tasks |-> PipelineStage(u)]
<1>1. \A u \in Tasks : PipelineStage(u)' = PipelineStage(u)
  BY OneTask
<1> QED BY <1>1

LEMMA PipelineRests ==
  ASSUME NEW t \in Tasks, PipelineStage(t)' = PipelineStage(t), Untouched(t)
  PROVE  UNCHANGED Pipeline!vars
BY PipelineStands, Heads DEF Untouched, Pipeline!vars

LEMMA PipelineMoves ==
  ASSUME NEW t \in Tasks, NEW S, NEW to, PipelineStage(t) \in S, PipelineStage(t)' = to,
         Untouched(t)
  PROVE  Pipeline!Move(t, S, to)
<1>1. [u \in Tasks |-> PipelineStage(u)][t] \in S
  OBVIOUS
<1>2. [u \in Tasks |-> PipelineStage(u)]' = [[u \in Tasks |-> PipelineStage(u)] EXCEPT ![t] = to]
  <2>1. \A u \in Tasks : u = t
    BY OneTask
  <2> QED BY <2>1
<1> QED BY <1>1, <1>2, Heads DEF Untouched, Pipeline!Move

LEMMA PipelineStops ==
  ASSUME NEW t \in Tasks, PipelineStage(t) # "packaged", PipelineStage(t)' = "stopped",
         Untouched(t)
  PROVE  Pipeline!Next
<1>1. \A u \in Tasks : u = t
  BY OneTask
<1>2. [u \in Tasks |-> PipelineStage(u)][t] # "packaged"
  OBVIOUS
<1>3. [u \in Tasks |-> PipelineStage(u)]' =
        [u \in Tasks |-> IF u \in {t} THEN "stopped" ELSE [w \in Tasks |-> PipelineStage(w)][u]]
  BY <1>1
<1>4. Pipeline!Stop({t})
  BY <1>2, <1>3, Heads DEF Untouched, Pipeline!Stop
<1> QED BY <1>4 DEF Pipeline!Next

\* run and a commit build the candidate.
LEMMA PipelineBuilds ==
  ASSUME NEW t \in Tasks, NEW r \in Revisions, PipelineStage(t) = "building",
         PipelineStage(t)' = "building", task'[t].head = task[t].head,
         worktree' = [worktree EXCEPT ![t] = r]
  PROVE  Pipeline!Next
<1>1. Pipeline!Build(t, r)
  BY PipelineStands, Heads DEF Pipeline!Build, Pipeline!Unpromised
<1> QED BY <1>1 DEF Pipeline!Next

\* set_workspace and set_head endorse it.
LEMMA PipelineEndorses ==
  ASSUME NEW t \in Tasks, PipelineStage(t) = "building", PipelineStage(t)' = "building",
         worktree' = worktree, task'[t].head = worktree[t]
  PROVE  Pipeline!Next
<1>1. [u \in Tasks |-> task[u].head]' = [[u \in Tasks |-> task[u].head] EXCEPT ![t] = worktree[t]]
  <2>1. \A u \in Tasks : u = t
    BY OneTask
  <2> QED BY <2>1
<1>2. Pipeline!Endorse(t)
  BY <1>1, PipelineStands DEF Pipeline!Endorse, Pipeline!Unpromised
<1> QED BY <1>2 DEF Pipeline!Next

\* Most steps leave the candidate where it is.
LEMMA RestingStep ==
  ASSUME AuthTables, AuthTables', NEW t \in Tasks, Untouched(t),
         task'[t].state = task[t].state, task'[t].moved = task[t].moved,
         checkpoint'[t].stage = checkpoint[t].stage
  PROVE  UNCHANGED Pipeline!vars
BY PlaceKept, PipelineRests DEF Standing

\* Where t is, when it is not parked.
LEMMA PlaceNow ==
  ASSUME NEW t
  PROVE  /\ task[t].state # "authentication_required" =>
              PipelineStage(t) = Place(task[t].state, task[t].moved)
         /\ task'[t].state # "authentication_required" =>
              PipelineStage(t)' = Place(task'[t].state, task'[t].moved)
BY DEF PipelineStage, Place, BlockedByReview

LEMMA BeginInPipeline ==
  ASSUME AuthInvariant, AuthTables', Typed, AllSound, NEW p \in Processes, Begin(p)
  PROVE  [Pipeline!Next]_(Pipeline!vars)
<1>1. TaskTypeOK /\ AuthTables
  BY DEF AuthInvariant
<1>2. ASSUME NEW t \in Tasks, Run(p, t) PROVE Pipeline!Next
  <2>1. /\ task[t].state = "absent" /\ task'[t].state = "contracted"
        /\ task'[t].head = task[t].head /\ worktree' = [worktree EXCEPT ![t] = BaseRevision]
    BY <1>1, <1>2, RunCreates DEF Run, Exists
  <2>2. PipelineStage(t) = "building" /\ PipelineStage(t)' = "building"
    BY <2>1, PlaceNow DEF Place
  <2> QED BY <2>1, <2>2, Bases, PipelineBuilds
<1>3. ASSUME NEW t \in Tasks, Resume(p, t) PROVE UNCHANGED Pipeline!vars
  <2>1. /\ task[t].state = "authentication_required" /\ MoveTo(t, checkpoint[t].stage)
        /\ checkpoint' = [checkpoint EXCEPT ![t].status = "resumed"] /\ worktree' = worktree
    BY <1>3 DEF Resume, ResumeAfterAuthentication
  <2>2. checkpoint[t] \in CheckpointRow /\ checkpoint'[t] = [checkpoint[t] EXCEPT !.status = "resumed"]
    BY <1>1, <2>1 DEF AuthTables
  <2>3. checkpoint'[t].stage = checkpoint[t].stage
    BY <2>2 DEF CheckpointRow
  <2>4. /\ task'[t].state = checkpoint[t].stage /\ task'[t].moved = task[t].moved
        /\ task'[t].head = task[t].head
    BY <1>1, <2>1 DEF MoveTo, TaskTypeOK, TaskRow
  <2> QED BY <1>1, <2>1, <2>3, <2>4, PlaceKept, PipelineRests DEF Standing, Untouched
<1>4. ASSUME NEW t \in Tasks, BeginRecovery(p, t) PROVE UNCHANGED Pipeline!vars
  <2>1. UNCHANGED <<task, checkpoint, worktree>>
    BY <1>4 DEF BeginRecovery, NoStoreChange, allVars, storeVars, taskVars, authVars
  <2> QED BY <1>1, <2>1, RestingStep DEF Untouched
<1> QED BY <1>2, <1>3, <1>4 DEF Begin

\* The steps that do not move the task.
LEMMA QuietStep ==
  ASSUME AuthTables, AuthTables', NEW p \in Processes,
         \/ Look(p) \/ Fail(p) \/ Reserve(p) \/ StartCall(p) \/ CallRaises(p)
         \/ \E report \in Reports : CallReturns(p, report)
         \/ RecordRecovery(p) \/ Record(p) \/ Package(p)
  PROVE  UNCHANGED Pipeline!vars
<1>1. PICK t : t \in Tasks
  BY OneTaskAssumption
<1>2. CASE Look(p) \/ Fail(p)
  <2>1. UNCHANGED <<task, checkpoint, worktree>>
    BY <1>2 DEF Look, Fail, NoStoreChange, allVars, storeVars, taskVars, authVars
  <2> QED BY <1>1, <2>1, RestingStep DEF Untouched
<1>3. CASE \/ Reserve(p) \/ StartCall(p) \/ CallRaises(p)
           \/ \E report \in Reports : CallReturns(p, report)
  <2>1. UNCHANGED <<task, checkpoint, worktree>>
    BY <1>3 DEF Reserve, StartCall, CallRaises, CallReturns, OnLedgerOnly, ReserveExecution,
       StartExecution, FinishExecution, taskVars, authVars
  <2> QED BY <1>1, <2>1, RestingStep DEF Untouched
<1>4. CASE RecordRecovery(p) \/ Record(p) \/ Package(p)
  <2>1. UNCHANGED <<task, checkpoint, worktree>>
    BY <1>4 DEF RecordRecovery, Record, Package, OnTaskOnly, AddEvidence, authVars
  <2> QED BY <1>1, <2>1, RestingStep DEF Untouched
<1> QED BY <1>2, <1>3, <1>4

\* A commit, and the steps that make the task's head of it.
LEMMA BuildingStep ==
  ASSUME TaskTypeOK, Typed, AllSound, AllDriving, NEW p \in Processes,
         RecordWorkspace(p) \/ Commit(p) \/ Adopt(p)
  PROVE  Pipeline!Next
<1>1. CASE RecordWorkspace(p)
  <2>1. process[p].pc = "workspace"
    BY <1>1 DEF RecordWorkspace, At
  <2>2. PICK t \in Tasks : t = Own(p) /\ InHand(process[p], t)
    BY <2>1 DEF AllDriving, Driving, Own, Ended
  <2>3. task[t].state = "contracted" /\ worktree[t] = BaseRevision
    BY <2>1, <2>2 DEF InHand
  <2>4. /\ task'[t].state = "contracted" /\ task'[t].head = BaseRevision
        /\ worktree' = worktree
    BY <1>1, <2>2, <2>3 DEF RecordWorkspace, SetWorkspace, OnTaskOnly, TaskTypeOK, TaskRow
  <2>5. PipelineStage(t) = "building" /\ PipelineStage(t)' = "building"
    BY <2>3, <2>4, PlaceNow DEF Place
  <2> QED BY <2>3, <2>4, <2>5, PipelineEndorses
<1>2. CASE Commit(p) \/ Adopt(p)
  <2>1. process[p].pc \in {"commit", "adopt"}
    BY <1>2 DEF Commit, Adopt, At
  <2>2. PICK t \in Tasks : t = Own(p) /\ InTurn(process[p], t)
    BY <2>1, TurnOf DEF Outside, Ended
  <2>3. task[t].state \in {"implementing", "repairing"}
    BY <2>1, <2>2 DEF InTurn
  <2>4. task'[t].state = task[t].state
    BY <1>2, <2>2 DEF Commit, Adopt, SetHead, allVars, storeVars, taskVars, TaskTypeOK, TaskRow
  <2>5. PipelineStage(t) = "building" /\ PipelineStage(t)' = "building"
    BY <2>3, <2>4, PlaceNow DEF Place
  <2>6. CASE Commit(p)
    <3>1. PICK r : r = worktree[t] + 1
      OBVIOUS
    <3>2. r \in Revisions /\ worktree' = [worktree EXCEPT ![t] = r] /\ task' = task
      BY <2>2, <2>6, <3>1 DEF Commit, allVars, storeVars, taskVars
    <3> QED BY <2>5, <3>2, PipelineBuilds
  <2>7. CASE Adopt(p)
    <3>1. process[p].head = worktree[t]
      BY <2>2, <2>7 DEF InTurn, Adopt, At
    <3>2. task'[t].head = worktree[t] /\ worktree' = worktree
      BY <2>2, <2>7, <3>1 DEF Adopt, SetHead, OnTaskOnly, TaskTypeOK, TaskRow
    <3> QED BY <2>5, <3>2, PipelineEndorses
  <2> QED BY <1>2, <2>6, <2>7
<1> QED BY <1>1, <1>2

\* A stage that is done moves the candidate on, or back to be reworked.
LEMMA AdvanceInPipeline ==
  ASSUME TaskTypeOK, Typed, AllSound, AllDriving, NEW p \in Processes, Advance(p)
  PROVE  [Pipeline!Next]_(Pipeline!vars)
<1>1. process[p].pc = "advance"
  BY DEF Advance, At
<1>2. PICK t \in Tasks : t = Own(p) /\ InTurn(process[p], t)
  BY <1>1, TurnOf DEF Outside, Ended
<1>3. PICK from : from = process[p].from
  OBVIOUS
<1>4. PICK to : to = IF process[p].verdict = "rejected" THEN "repairing" ELSE Onwards[from]
  OBVIOUS
<1>5. Transition(t, from, to) /\ worktree' = worktree
  BY <1>2, <1>3, <1>4 DEF Advance, From, OnTaskOnly
<1>6. Untouched(t) /\ task[t].state = from /\ task'[t].state = to
  BY <1>5, Transits DEF Untouched, Same
<1>7. from # "authentication_required" /\ to # "authentication_required"
  BY <1>1, <1>2, <1>3, <1>4 DEF InTurn, Onwards
<1>8. /\ PipelineStage(t) = Place(from, task[t].moved)
      /\ PipelineStage(t)' = Place(to, task'[t].moved)
  BY <1>6, <1>7, PlaceNow
<1>9. CASE process[p].verdict = "rejected"
  <2>1. from \in {"verifying", "reviewing"} /\ to = "repairing"
    BY <1>1, <1>2, <1>3, <1>4, <1>9 DEF InTurn
  <2>2. PipelineStage(t) \in {"built", "checked"} /\ PipelineStage(t)' = "building"
    BY <1>8, <2>1 DEF Place
  <2>3. Pipeline!Rework(t)
    BY <1>6, <2>2, PipelineMoves DEF Pipeline!Rework
  <2> QED BY <2>3 DEF Pipeline!Next
<1>10. CASE process[p].verdict # "rejected"
  <2>1. from \in DOMAIN Onwards /\ to = Onwards[from]
    BY <1>1, <1>2, <1>3, <1>4, <1>10 DEF InTurn
  <2>2. CASE from \in {"implementing", "repairing"}
    <3>1. PipelineStage(t) = "building" /\ PipelineStage(t)' = "built"
      BY <1>8, <2>1, <2>2 DEF Place, Onwards
    <3>2. Pipeline!Finish(t)
      BY <1>6, <3>1, PipelineMoves DEF Pipeline!Finish
    <3> QED BY <3>2 DEF Pipeline!Next
  <2>3. CASE from = "verifying"
    <3>1. PipelineStage(t) = "built" /\ PipelineStage(t)' = "checked"
      BY <1>8, <2>1, <2>3 DEF Place, Onwards
    <3>2. worktree[t] = task[t].head /\ worktree[t] \in Revisions
      BY <1>1, <1>2, <1>6, <2>3 DEF InTurn, AllSound, Sound, Fits, Standing
    <3>3. Pipeline!Move(t, {"built"}, "checked")
      BY <1>6, <3>1, PipelineMoves
    <3>4. Pipeline!Check(t)
      BY <3>2, <3>3, NoRevisionAssumption DEF Pipeline!Check
    <3> QED BY <3>4 DEF Pipeline!Next
  <2>4. CASE from = "reviewing"
    <3>1. PipelineStage(t) = "checked" /\ PipelineStage(t)' = "reviewed"
      BY <1>8, <2>1, <2>4 DEF Place, Onwards
    <3>2. Pipeline!Review(t)
      BY <1>6, <3>1, PipelineMoves DEF Pipeline!Review
    <3> QED BY <3>2 DEF Pipeline!Next
  <2>5. CASE from = "packaging"
    <3>1. PipelineStage(t) = "reviewed" /\ PipelineStage(t)' = "packaged"
      BY <1>8, <2>1, <2>5 DEF Place, Onwards
    <3>2. Pipeline!Package(t)
      BY <1>6, <3>1, PipelineMoves DEF Pipeline!Package
    <3> QED BY <3>2 DEF Pipeline!Next
  <2>6. CASE from \in {"contracted", "workspace_ready", "implemented", "verified",
                       "review_complete"}
    <3>1. PipelineStage(t)' = PipelineStage(t)
      BY <1>8, <2>1, <2>6 DEF Place, Onwards
    <3> QED BY <1>6, <3>1, PipelineRests
  <2> QED BY <2>1, <2>2, <2>3, <2>4, <2>5, <2>6 DEF Onwards
<1> QED BY <1>9, <1>10

\* A task that is blocked stops its candidate, unless its review holds it.
LEMMA BlockingStep ==
  ASSUME TaskTypeOK, Typed, AllSound, AllDriving, NEW p \in Processes,
         Block(p) \/ CountRejection(p) \/ Recover(p)
  PROVE  [Pipeline!Next]_(Pipeline!vars)
<1>1. CASE Block(p)
  <2>1. process[p].pc = "block"
    BY <1>1 DEF Block, At
  <2>2. PICK t \in Tasks : t = Own(p) /\ InTurn(process[p], t)
    BY <2>1, TurnOf DEF Outside, Ended
  <2>3. PICK from : from = process[p].from
    OBVIOUS
  <2>4. Transition(t, from, "blocked") /\ worktree' = worktree
    BY <1>1, <2>2, <2>3 DEF Block, From, OnTaskOnly
  <2>5. /\ Untouched(t) /\ task[t].state = from /\ task'[t].state = "blocked"
        /\ task'[t].moved = <<from, "blocked">> /\ from \in DOMAIN RoleOf
    BY <2>1, <2>2, <2>3, <2>4, Transits DEF Untouched, Same, InTurn
  <2>6. /\ PipelineStage(t) = Place(from, task[t].moved)
        /\ PipelineStage(t)' = Place("blocked", <<from, "blocked">>)
    BY <2>5, StagesOfCalls, PlaceNow
  <2>7. CASE from = "reviewing"
    <3>1. PipelineStage(t) = "checked" /\ PipelineStage(t)' = "held"
      BY <2>6, <2>7 DEF Place
    <3>2. Pipeline!Hold(t)
      BY <2>5, <3>1, PipelineMoves DEF Pipeline!Hold
    <3> QED BY <3>2 DEF Pipeline!Next
  <2>8. CASE from # "reviewing"
    <3>1. PipelineStage(t) # "packaged"
      BY <2>5, <2>6, StagesOfCalls DEF Place
    <3>2. PipelineStage(t)' = "stopped"
      BY <2>6, <2>8 DEF Place
    <3> QED BY <2>5, <3>1, <3>2, PipelineStops
  <2> QED BY <2>7, <2>8
<1>2. CASE CountRejection(p)
  <2>1. process[p].pc = "count"
    BY <1>2 DEF CountRejection, At
  <2>2. PICK t \in Tasks : t = Own(p) /\ InTurn(process[p], t)
    BY <2>1, TurnOf DEF Outside, Ended
  <2>3. /\ \E s \in Signatures : RecordFailure(t, s)
        /\ UNCHANGED <<ledgerVars, authVars, worktree>>
    BY <1>2, <2>2 DEF CountRejection, OnTaskOnly
  <2>4. task[t].state \in {"verifying", "reviewing"} /\ task[t] \in TaskRow
    BY <2>3 DEF RecordFailure, TaskTypeOK
  <2>5. task[t].moved # HeldByReview
    BY <2>4 DEF AllSound, Sound
  <2>6. CASE MoveTo(t, "blocked")
    <3>1. task'[t] = [task[t] EXCEPT !.state = "blocked"]
      BY <2>6 DEF MoveTo, TaskTypeOK
    <3>2. /\ Untouched(t) /\ task'[t].state = "blocked" /\ task'[t].moved = task[t].moved
      BY <2>3, <2>4, <3>1 DEF Untouched, TaskRow
    <3>3. PipelineStage(t) # "packaged" /\ PipelineStage(t)' = "stopped"
      BY <2>4, <2>5, <3>2, PlaceNow DEF Place, HeldByReview
    <3> QED BY <3>2, <3>3, PipelineStops
  <2>7. CASE task' = [task EXCEPT ![t].repairs = @ + 1]
    <3>1. task'[t] = [task[t] EXCEPT !.repairs = @ + 1]
      BY <2>7 DEF TaskTypeOK
    <3>2. Untouched(t) /\ task'[t].state = task[t].state /\ task'[t].moved = task[t].moved
      BY <2>3, <2>4, <3>1 DEF Untouched, TaskRow
    <3>3. PipelineStage(t)' = PipelineStage(t)
      BY <2>4, <3>2, PlaceNow
    <3> QED BY <3>2, <3>3, PipelineRests
  <2> QED BY <2>3, <2>6, <2>7 DEF RecordFailure
<1>3. CASE Recover(p)
  <2>1. process[p].pc = "recover"
    BY <1>3 DEF Recover, At
  <2>2. PICK t \in Tasks : t = Own(p)
    BY <2>1 DEF AllDriving, Driving, Own, Ended
  <2>3. /\ task[t].state = "blocked" /\ task[t].moved = HeldByReview
        /\ MoveTo(t, "review_complete") /\ worktree' = worktree
    BY <1>3, <2>2 DEF Recover, OnLedgerOnly, RecoverReviewFormat, BlockedByReview, HeldByReview
  <2>4. task'[t].state = "review_complete" /\ Untouched(t)
    BY <2>3 DEF MoveTo, Untouched, TaskTypeOK, TaskRow
  <2>5. PipelineStage(t) = "held" /\ PipelineStage(t)' = "reviewed"
    BY <2>3, <2>4, PlaceNow DEF Place, HeldByReview
  <2>6. Pipeline!Review(t)
    BY <2>4, <2>5, PipelineMoves DEF Pipeline!Review
  <2> QED BY <2>6 DEF Pipeline!Next
<1> QED BY <1>1, <1>2, <1>3

\* A parked candidate stays where it is.
LEMMA ParkInPipeline ==
  ASSUME TaskTypeOK, AuthTables, AuthTables', AllDriving, NEW p \in Processes, Park(p)
  PROVE  UNCHANGED Pipeline!vars
<1>1. process[p].pc = "park"
  BY DEF Park, At
<1>2. PICK t \in Tasks : t = Own(p)
  BY <1>1, TurnOf DEF Outside, Ended
<1>3. /\ \E e, c, s, refs : CheckpointAuthentication(t, e, c, s, refs)
      /\ worktree' = worktree
  BY <1>2 DEF Park
<1>4. /\ task[t].state \in Stages /\ MoveTo(t, "authentication_required")
      /\ checkpoint'[t].stage = task[t].state
  BY <1>3 DEF CheckpointAuthentication, Interrupted, AuthTables
<1>5. /\ task'[t].state = "authentication_required"
      /\ task'[t].moved = task[t].moved /\ Untouched(t)
  BY <1>3, <1>4 DEF MoveTo, Untouched, TaskTypeOK, TaskRow
<1>6. Standing(t)' = Standing(t)
  BY <1>4, <1>5 DEF Standing, Stages
<1> QED BY <1>5, <1>6, PlaceKept, PipelineRests

LEMMA PipelineStep ==
  ASSUME DeliveryInvariant, AuthTables', [DeliveryNext]_deliveryVars
  PROVE  [Pipeline!Next]_(Pipeline!vars)
<1>1. TaskTypeOK /\ AuthTables /\ AuthInvariant /\ Typed /\ AllSound /\ AllDriving
  BY DEF DeliveryInvariant, AuthInvariant
<1>2. PICK t : t \in Tasks
  BY OneTaskAssumption
<1>3. CASE UNCHANGED deliveryVars
  <2>1. UNCHANGED <<task, checkpoint, worktree>>
    BY <1>3 DEF deliveryVars, allVars, storeVars, taskVars, authVars
  <2> QED BY <1>1, <1>2, <2>1, RestingStep DEF Untouched
<1>4. CASE LoginActions /\ UNCHANGED <<worktree, process>>
  <2>1. task' = task /\ worktree' = worktree /\ checkpoint'[t].stage = checkpoint[t].stage
    BY <1>1, <1>2, <1>4, LoginsLeaveStore, LoginsRest DEF storeVars, taskVars, Resting
  <2> QED BY <1>1, <1>2, <2>1, RestingStep DEF Untouched
<1>5. ASSUME NEW p \in Processes, Begin(p) \/ Step(p) \/ Fail(p)
      PROVE  [Pipeline!Next]_(Pipeline!vars)
  <2>1. CASE Begin(p)
    BY <1>1, <2>1, BeginInPipeline
  <2>2. CASE \/ Look(p) \/ Fail(p) \/ Reserve(p) \/ StartCall(p) \/ CallRaises(p)
             \/ \E report \in Reports : CallReturns(p, report)
             \/ RecordRecovery(p) \/ Record(p) \/ Package(p)
    BY <1>1, <2>2, QuietStep
  <2>3. CASE RecordWorkspace(p) \/ Commit(p) \/ Adopt(p)
    BY <1>1, <2>3, BuildingStep
  <2>4. CASE Advance(p)
    BY <1>1, <2>4, AdvanceInPipeline
  <2>5. CASE Block(p) \/ CountRejection(p) \/ Recover(p)
    BY <1>1, <2>5, BlockingStep
  <2>6. CASE Park(p)
    BY <1>1, <2>6, ParkInPipeline
  <2> QED BY <1>5, <2>1, <2>2, <2>3, <2>4, <2>5, <2>6 DEF Step
<1> QED BY <1>3, <1>4, <1>5 DEF DeliveryNext

LEMMA PipelineInit == DeliveryInit => Pipeline!Init
<1> SUFFICES ASSUME DeliveryInit PROVE Pipeline!Init
  OBVIOUS
<1>1. \A t \in Tasks : task[t].state = "absent" /\ task[t].head = NoRevision
  BY DEF DeliveryInit, AuthInit, StoreInit, TaskInit, AbsentTask
<1>2. \A t \in Tasks : PipelineStage(t) = "building"
  BY <1>1 DEF PipelineStage
<1> QED BY <1>1, <1>2 DEF DeliveryInit, Pipeline!Init

\* The delivery implements the candidate pipeline: from its check to its package
\* a candidate is the revision that was checked and that is the task's head,
\* whichever command is killed between a commit and the head it records, and
\* however late a held review is recovered.
THEOREM DeliveryDeliversCandidate == OneDriverSpec => CandidateIsDelivered
<1>1. DeliveryInvariant /\ [DeliveryNext /\ OneDriver']_deliveryVars
        => DeliveryInvariant' /\ [Pipeline!Next]_(Pipeline!vars)
  <2> SUFFICES ASSUME DeliveryInvariant, [DeliveryNext /\ OneDriver']_deliveryVars
               PROVE  DeliveryInvariant' /\ [Pipeline!Next]_(Pipeline!vars)
    OBVIOUS
  <2>1. DeliveryInvariant' /\ AuthTables'
    BY DeliveryStepOK DEF DeliveryInvariant, AuthInvariant
  <2> QED BY <2>1, PipelineStep
<1> QED BY <1>1, DeliveryInitOK, PipelineInit, PTL
        DEF OneDriverSpec, CandidateIsDelivered, Pipeline!Spec
=============================================================================
