------------------------------ MODULE MCPhase4 ------------------------------
(***************************************************************************)
(* Small instances of Phase4Workflow for TLC: one task, as every root has. *)
(***************************************************************************)
EXTENDS Phase4Workflow, TLC

NoDependencies == [t \in Tasks |-> {}]
OneRepair == [t \in Tasks |-> 1]
Single == <<"code">>
Pair == <<"left", "right">>

\* A decomposed plan's budget lets two assignments run at once.
WorkflowBudget == [t \in Tasks |->
  [max_calls |-> 6, max_elapsed |-> 6, max_concurrency |-> 2, max_timeout |-> 1,
   verification_reserve |-> 1, review_reserve |-> 1]]

Report(status, result) == [status |-> status, elapsed |-> 1, result |-> result]

PlainReports == {Report("succeeded", "other"), Report("failed", "other")}
LoginReports == PlainReports \cup {Report("failed", "authentication")}

\* The verifier may be blocked, for want of its sandbox.
AllReports == LoginReports \cup {Report("blocked", "other")}

WorkflowEvidence == EvidenceKinds \X (0..2)

\* Executions, processes and sessions are interchangeable: numbered in the
\* order of their use, they need no symmetry, which liveness forbids.
InOrder ==
  /\ \A e \in Executions : exec[e] # Unused => \A f \in 1..e : exec[f] # Unused
  /\ \A s \in Sessions : session[s].status # "unused" =>
       \A u \in 1..s : session[u].status # "unused"
  /\ \A p \in Processes : ~At(p, "ready") => \A q \in 1..p : ~At(q, "ready")

\* One start or resume at a time.
SequentialSpec == WorkflowInit /\ [][WorkflowNext /\ OneDriver' /\ InOrder']_workflowVars

\* Any number of drivers at once.
OrderedSpec ==
  /\ WorkflowInit
  /\ [][WorkflowNext /\ InOrder']_workflowVars
  /\ \A p \in Processes :
       WF_workflowVars(Step(p)) /\ WF_workflowVars(RefusedFail(p))
=============================================================================
