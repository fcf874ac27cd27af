------------------------------ MODULE MCDelivery ------------------------------
(***************************************************************************)
(* A small instance of DeliveryWorkflow for TLC: the one task of a root,   *)
(* with the budget run gives it, times scaled down.                        *)
(***************************************************************************)
EXTENDS DeliveryWorkflow, TLC

NoDependencies == [t \in Tasks |-> {}]
TwoRepairs == [t \in Tasks |-> 2]

DeliveryBudget == [t \in Tasks |->
  [max_calls |-> 9, max_elapsed |-> 9, max_concurrency |-> 1, max_timeout |-> 1,
   verification_reserve |-> 2, review_reserve |-> 0]]

Report(status, result) == [status |-> status, elapsed |-> 1, result |-> result]

\* A call that fails runs into its timeout, and over it while it is killed.
DeliveryReports ==
  {Report("succeeded", "other"), [Report("failed", "other") EXCEPT !.elapsed = 3],
   Report("blocked", "other"), Report("failed", "authentication"), Report("failed", "format")}

DeliveryEvidence ==
  {"verification", "review", "review-format-recovered", "approval-package"} \X (0..2)

\* Executions, sessions, signatures and processes are taken in the order of
\* their numbers, which stands for the symmetry that liveness forbids.
InOrder ==
  /\ \A e \in Executions : exec[e] # Unused => \A f \in 1..e : exec[f] # Unused
  /\ \A s \in Sessions : session[s].status # "unused" =>
       \A u \in 1..s : session[u].status # "unused"
  /\ \A t \in Tasks, s \in Signatures : failures[t][s] > 0 =>
       \A u \in 1..s : failures[t][u] > 0
  /\ \A p \in Processes : ~At(p, "ready") => \A q \in 1..p : ~At(q, "ready")

OrderedSpec ==
  /\ DeliveryInit
  /\ [][DeliveryNext /\ OneDriver' /\ InOrder']_deliveryVars
  /\ \A p \in Processes :
       WF_deliveryVars(Step(p)) /\ WF_deliveryVars(RefusedFail(p))
=============================================================================
