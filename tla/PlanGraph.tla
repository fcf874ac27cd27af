------------------------------- MODULE PlanGraph -------------------------------
(***************************************************************************)
(* The validation of an execution plan (agentkit/phase4_contracts.py,      *)
(* ExecutionPlan.__post_init__): its shape, and the search that visits a   *)
(* node once all it depends on has been visited and refuses a plan with    *)
(* nodes left over.                                                        *)
(*                                                                         *)
(* The nodes ready to be visited are taken in any order, where the code    *)
(* takes the last one.  What is validated after the search (management     *)
(* calls, skills) is about other fields and only refuses.                  *)
(***************************************************************************)
EXTENDS Integers, Sequences, FiniteSets

CONSTANT Plans  \* the plans somebody may construct

VARIABLES
  plan,
  verdict,
  normal,   \* normal[n]: predecessors of n that are not visited
  ready,
  visited

vars == <<plan, verdict, normal, ready, visited>>

-----------------------------------------------------------------------------
MaxGraphNodes == 12
MaxImplementationNodes == 2

Identifiers(p) == {p.nodes[i].id : i \in DOMAIN p.nodes}
OfKind(p, kind) == {p.nodes[i].id : i \in {j \in DOMAIN p.nodes : p.nodes[j].kind = kind}}

Ordinary(p) == {e \in p.edges : e.type = "dependency"}
Sources(p, n) == {e.source : e \in {d \in Ordinary(p) : d.target = n}}

DistinctNodes(p) ==
  \A i, j \in DOMAIN p.nodes : p.nodes[i].id = p.nodes[j].id => i = j

KnownEdges(p) == \A e \in p.edges : {e.source, e.target} \subseteq Identifiers(p)

BoundedImplementation(p) ==
  LET n == Cardinality(OfKind(p, "implementation"))
  IN /\ n \in 1..MaxImplementationNodes
     /\ p.mode = "single" => n = 1
     /\ p.mode = "decomposed" => n >= 2

RepairsInvolveRepair(p) ==
  \A e \in p.edges : e.type = "bounded_repair" =>
    {e.source, e.target} \cap OfKind(p, "repair") # {}

DeclaredDependencies(p) ==
  \A i \in DOMAIN p.nodes : p.nodes[i].dependencies = Sources(p, p.nodes[i].id)

WellFormed(p) ==
  /\ p.mode \in {"single", "decomposed"}
  /\ Len(p.nodes) \in 1..MaxGraphNodes
  /\ DistinctNodes(p)
  /\ KnownEdges(p)
  /\ BoundedImplementation(p)
  /\ RepairsInvolveRepair(p)
  /\ DeclaredDependencies(p)

-----------------------------------------------------------------------------
Init ==
  /\ plan \in Plans
  /\ verdict = "none"
  /\ normal = [n \in Identifiers(plan) |-> {}]
  /\ ready = {} /\ visited = {}

RefuseShape ==
  /\ verdict = "none" /\ ~WellFormed(plan)
  /\ verdict' = "malformed"
  /\ UNCHANGED <<plan, normal, ready, visited>>

BeginSearch ==
  /\ verdict = "none" /\ WellFormed(plan)
  /\ verdict' = "searching"
  /\ normal' = [n \in Identifiers(plan) |-> Sources(plan, n)]
  /\ ready' = {n \in Identifiers(plan) : Sources(plan, n) = {}}
  /\ UNCHANGED <<plan, visited>>

\* Freed are those whose last predecessor was current.
Visit(current) ==
  /\ verdict = "searching" /\ current \in ready
  /\ visited' = visited \cup {current}
  /\ normal' = [n \in Identifiers(plan) |-> normal[n] \ {current}]
  /\ ready' = (ready \ {current}) \cup
       {n \in Identifiers(plan) : normal[n] = {current} /\ n \notin visited'}
  /\ UNCHANGED <<plan, verdict>>

Accept ==
  /\ verdict = "searching" /\ ready = {} /\ visited = Identifiers(plan)
  /\ verdict' = "accepted"
  /\ UNCHANGED <<plan, normal, ready, visited>>

RefuseCycle ==
  /\ verdict = "searching" /\ ready = {} /\ visited # Identifiers(plan)
  /\ verdict' = "cyclic"
  /\ UNCHANGED <<plan, normal, ready, visited>>

Next ==
  \/ RefuseShape \/ BeginSearch
  \/ \E n \in ready : Visit(n)
  \/ Accept \/ RefuseCycle

Spec == Init /\ [][Next]_vars

-----------------------------------------------------------------------------
(* The edges of the plans build_plan writes (agentkit/orchestration.py),   *)
(* implementations being the nodes of the subtasks.                        *)

Joined(S, T) == [source : S, target : T, type : {"dependency"}]

RepairEdges ==
  [source : {"verify", "review"}, target : {"repair"}, type : {"bounded_repair"}]
  \cup [source : {"repair"}, target : {"verify"}, type : {"bounded_repair"}]

BuiltEdges(implementations, decomposed) ==
  LET chiefs   == IF decomposed THEN {"schedule"} ELSE {"plan"}
      verified == IF decomposed THEN {"integrate"} ELSE implementations
  IN Joined({"intake"}, {"plan"})
     \cup (IF decomposed
           THEN Joined({"plan"}, {"schedule"}) \cup Joined(implementations, {"integrate"})
           ELSE {})
     \cup Joined(chiefs, implementations)
     \cup Joined(verified, {"verify"})
     \cup Joined({"verify"}, {"review"}) \cup Joined({"review"}, {"package"})
     \cup RepairEdges

Fixed == {"intake", "plan", "schedule", "integrate", "verify", "review", "repair", "package"}

-----------------------------------------------------------------------------
(* Properties                                                              *)

\* The reference: every set of nodes has one that depends on none of them.
Acyclic(p) ==
  \A S \in SUBSET Identifiers(p) :
    S # {} => \E n \in S : Sources(p, n) \cap S = {}

\* The search decides the reference, for graphs of every size and shape: it
\* accepts a plan only if its ordinary dependencies are acyclic, and refuses it
\* as cyclic only if they are not.
SearchIsRight ==
  /\ verdict = "accepted" => WellFormed(plan) /\ Acyclic(plan)
  /\ verdict = "cyclic" => ~Acyclic(plan)

\* Nothing is visited before, or twice, what it depends on; so that the order
\* of the visits is one the plan can be executed in.
VisitsInOrder ==
  [][\A n \in visited' \ visited : Sources(plan, n) \subseteq visited]_vars
=============================================================================
