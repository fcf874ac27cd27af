---------------------------- MODULE PlanGraphProofs ----------------------------
(***************************************************************************)
(* That the search of PlanGraph decides acyclicity, whatever the plan.     *)
(* Both answers rest on the same invariant: normal holds exactly what is   *)
(* not visited yet of each node's predecessors.                            *)
(***************************************************************************)
EXTENDS PlanGraph, WellFoundedInduction, TLAPS

\* What is left of the graph, while it is searched.
Remainder ==
  /\ WellFormed(plan)
  /\ visited \subseteq Identifiers(plan)
  /\ normal = [n \in Identifiers(plan) |-> Sources(plan, n) \ visited]
  /\ ready = {n \in Identifiers(plan) \ visited : normal[n] = {}}

\* No set of visited nodes is a knot, and what they depend on is visited.
Untangled ==
  /\ \A n \in visited : Sources(plan, n) \subseteq visited
  /\ \A S \in SUBSET visited : S # {} => \E n \in S : Sources(plan, n) \cap S = {}

Search ==
  /\ verdict \in {"none", "malformed", "searching", "accepted", "cyclic"}
  /\ verdict = "none" => visited = {}
  /\ verdict \in {"searching", "accepted", "cyclic"} => Remainder /\ Untangled
  /\ verdict = "accepted" => visited = Identifiers(plan)
  /\ verdict = "cyclic" => ready = {} /\ visited # Identifiers(plan)

\* Visiting a ready node leaves the visited ones untangled: it depends on
\* visited nodes only, and every set of visited nodes, with it or without it,
\* still has a member that depends on none of the set.
LEMMA VisitUntangled ==
  ASSUME Remainder, Untangled, NEW n \in ready
  PROVE  /\ Sources(plan, n) \subseteq visited
         /\ \A S \in SUBSET (visited \cup {n}) :
              S # {} => \E m \in S : Sources(plan, m) \cap S = {}
<1>1. n \in Identifiers(plan) /\ n \notin visited /\ Sources(plan, n) \ visited = {}
  BY DEF Remainder
<1>2. Sources(plan, n) \subseteq visited
  BY <1>1
<1>3. ASSUME NEW S \in SUBSET (visited \cup {n}), S # {}
      PROVE  \E m \in S : Sources(plan, m) \cap S = {}
  <2>1. CASE S \ {n} = {}
    <3>1. S = {n}
      BY <1>3, <2>1
    <3> QED
      BY <1>1, <1>2, <3>1
  <2>2. CASE S \ {n} # {}
    <3>1. S \ {n} \in SUBSET visited
      BY <1>3
    <3>2. PICK m \in S \ {n} : Sources(plan, m) \cap (S \ {n}) = {}
      BY <2>2, <3>1 DEF Untangled
    <3>3. m \in visited /\ Sources(plan, m) \subseteq visited
      BY <3>1, <3>2 DEF Untangled
    <3>4. n \notin Sources(plan, m)
      BY <1>1, <3>3
    <3> QED
      BY <3>2, <3>4
  <2> QED
    BY <2>1, <2>2
<1> QED
  BY <1>2, <1>3

LEMMA VisitRemains ==
  ASSUME Remainder, Untangled, NEW n \in ready, Visit(n)
  PROVE  Remainder' /\ Untangled'
<1> USE DEF Visit
<1>1. n \in Identifiers(plan) /\ n \notin visited
  BY DEF Remainder
<1>2. plan' = plan /\ visited' = visited \cup {n}
  OBVIOUS
<1>3. WellFormed(plan)' /\ (visited \subseteq Identifiers(plan))'
  BY <1>1, <1>2 DEF Remainder
<1>4. normal' = [m \in Identifiers(plan) |-> Sources(plan, m) \ visited']
  <2>1. \A m \in Identifiers(plan) : normal[m] \ {n} = Sources(plan, m) \ visited'
    BY <1>2 DEF Remainder
  <2> QED
    BY <2>1
<1>5. ready' = {m \in Identifiers(plan) \ visited' : normal'[m] = {}}
  <2>1. \A m \in Identifiers(plan) : normal'[m] = normal[m] \ {n}
    OBVIOUS
  <2>2. ready = {m \in Identifiers(plan) \ visited : normal[m] = {}}
    BY DEF Remainder
  <2>3. ready' = (ready \ {n}) \cup
           {m \in Identifiers(plan) : normal[m] = {n} /\ m \notin visited'}
    OBVIOUS
  <2>4. ASSUME NEW m \in Identifiers(plan)
        PROVE  m \in ready' <=> m \notin visited' /\ normal'[m] = {}
    <3>1. CASE normal[m] = {}
      <4>1. normal'[m] = {} /\ normal[m] # {n}
        BY <2>1, <3>1
      <4>2. m \in ready' <=> m \in ready /\ m # n
        BY <2>3, <4>1
      <4> QED
        BY <1>2, <2>2, <3>1, <4>1, <4>2
    <3>2. CASE normal[m] # {}
      <4>1. m \notin ready
        BY <2>2, <3>2
      <4>2. normal'[m] = {} <=> normal[m] = {n}
        BY <2>1, <3>2
      <4> QED
        BY <2>3, <4>1, <4>2
    <3> QED
      BY <3>1, <3>2
  <2>5. ready' \subseteq Identifiers(plan)
    BY <2>2, <2>3
  <2> QED
    BY <2>4, <2>5
<1>6. Remainder'
  BY <1>2, <1>3, <1>4, <1>5 DEF Remainder
<1>7. Untangled'
  BY <1>2, VisitUntangled DEF Untangled
<1> QED
  BY <1>6, <1>7

LEMMA SearchInvariant == Spec => []Search
<1>1. Init => Search
  BY DEF Init, Search
<1>2. ASSUME Search, [Next]_vars
      PROVE  Search'
  <2>1. CASE RefuseShape
    BY <1>2, <2>1 DEF RefuseShape, Search
  <2>2. CASE BeginSearch
    <3> USE DEF BeginSearch
    <3>1. visited = {} /\ visited' = {} /\ plan' = plan /\ verdict' = "searching"
      BY <1>2, <2>2 DEF Search
    <3>2. Remainder'
      BY <2>2, <3>1 DEF Remainder
    <3>3. Untangled'
      BY <3>1 DEF Untangled
    <3> QED
      BY <3>1, <3>2, <3>3 DEF Search
  <2>3. ASSUME NEW n \in ready, Visit(n)
        PROVE  Search'
    <3>1. verdict = "searching" /\ verdict' = "searching"
      BY <2>3 DEF Visit
    <3>2. Remainder' /\ Untangled'
      BY <1>2, <2>3, <3>1, VisitRemains DEF Search
    <3> QED
      BY <3>1, <3>2 DEF Search
  <2>4. CASE Accept
    BY <1>2, <2>4 DEF Accept, Search, Remainder, Untangled
  <2>5. CASE RefuseCycle
    BY <1>2, <2>5 DEF RefuseCycle, Search, Remainder, Untangled
  <2>6. CASE UNCHANGED vars
    BY <1>2, <2>6 DEF vars, Search, Remainder, Untangled
  <2> QED
    BY <1>2, <2>1, <2>2, <2>3, <2>4, <2>5, <2>6 DEF Next
<1> QED
  BY <1>1, <1>2, PTL DEF Spec

\* ExecutionPlan accepts a plan only if its dependencies are acyclic, and
\* refuses it as cyclic only if they are not: what is left over when nothing is
\* ready is a set in which every node depends on another of the set.
THEOREM SearchDecides == Spec => []SearchIsRight
<1>1. ASSUME Search
      PROVE  SearchIsRight
  <2>1. ASSUME verdict = "accepted"
        PROVE  WellFormed(plan) /\ Acyclic(plan)
    BY <1>1, <2>1 DEF Search, Remainder, Untangled, Acyclic
  <2>2. ASSUME verdict = "cyclic"
        PROVE  ~Acyclic(plan)
    <3> DEFINE left == Identifiers(plan) \ visited
    <3>1. Remainder /\ ready = {} /\ visited # Identifiers(plan)
      BY <1>1, <2>2 DEF Search
    <3>2. left \in SUBSET Identifiers(plan) /\ left # {}
      BY <3>1 DEF Remainder
    <3>3. ASSUME NEW n \in left
          PROVE  Sources(plan, n) \cap left # {}
      <4>1. normal[n] = Sources(plan, n) \ visited /\ normal[n] # {}
        BY <3>1 DEF Remainder
      <4>2. Sources(plan, n) \subseteq Identifiers(plan)
        BY <3>1 DEF Remainder, WellFormed, KnownEdges, Sources, Ordinary
      <4> QED
        BY <4>1, <4>2
    <3> QED
      BY <3>2, <3>3 DEF Acyclic
  <2> QED
    BY <2>1, <2>2 DEF SearchIsRight
<1> QED
  BY <1>1, SearchInvariant, PTL

\* The order in which the nodes are visited is one in which they can be executed.
THEOREM SearchIsOrdered == Spec => VisitsInOrder
<1>1. ASSUME Search, [Next]_vars
      PROVE  [\A n \in visited' \ visited : Sources(plan, n) \subseteq visited]_vars
  <2>1. ASSUME NEW n \in ready, Visit(n)
        PROVE  \A m \in visited' \ visited : Sources(plan, m) \subseteq visited
    <3>1. Remainder /\ Untangled
      BY <1>1, <2>1 DEF Visit, Search
    <3>2. visited' \ visited \subseteq {n}
      BY <2>1 DEF Visit
    <3> QED
      BY <2>1, <3>1, <3>2, VisitUntangled
  <2>2. CASE UNCHANGED visited
    BY <2>2
  <2> QED
    BY <1>1, <2>1, <2>2 DEF Next, RefuseShape, BeginSearch, Accept, RefuseCycle, vars
<1> QED
  BY <1>1, SearchInvariant, PTL DEF Spec, VisitsInOrder

\* A graph whose nodes can be numbered so that each depends only on lower ones
\* has no knot.
LEMMA RankedIsAcyclic ==
  ASSUME NEW p, NEW rank \in [Identifiers(p) -> Nat],
         \A n \in Identifiers(p) : \A m \in Sources(p, n) :
           m \in Identifiers(p) => rank[m] < rank[n]
  PROVE  Acyclic(p)
<1> SUFFICES ASSUME NEW S \in SUBSET Identifiers(p), S # {}
             PROVE  \E n \in S : Sources(p, n) \cap S = {}
  BY DEF Acyclic
<1> DEFINE lower == {r \in Nat \X Nat : r[1] < r[2]}
<1> DEFINE ranks == {rank[n] : n \in S}
<1>1. IsWellFoundedOn(lower, Nat)
  BY NatLessThanWellFounded DEF OpToRel
<1>2. ranks \subseteq Nat /\ ranks # {}
  OBVIOUS
<1>3. PICK k \in ranks : \A j \in ranks : ~ (<<j, k>> \in lower)
  <2> HIDE DEF ranks, lower
  <2> QED
    BY <1>1, <1>2, WFMin
<1>4. PICK n \in S : rank[n] = k
  BY <1>3
<1>5. \A m \in S : ~(rank[m] < rank[n])
  BY <1>2, <1>3, <1>4
<1> QED
  BY <1>4, <1>5

\* The plans build_plan writes, with one subtask or several, are acyclic although
\* their repair edges lead back, so that validation never refuses them as cyclic.
THEOREM BuiltPlansPass ==
  ASSUME NEW p, NEW I, NEW decomposed \in BOOLEAN, I \cap Fixed = {},
         p.edges = BuiltEdges(I, decomposed)
  PROVE  Acyclic(p)
<1> DEFINE level(n) == CASE n = "intake"    -> 0
                         [] n = "plan"      -> 1
                         [] n = "schedule"  -> 2
                         [] n \in I         -> 3
                         [] n = "integrate" -> 4
                         [] n = "verify"    -> 5
                         [] n = "review"    -> 6
                         [] OTHER           -> 7
<1> DEFINE rank == [n \in Identifiers(p) |-> level(n)]
<1>1. rank \in [Identifiers(p) -> Nat]
  OBVIOUS
<1>2. ASSUME NEW n, NEW m \in Sources(p, n)
      PROVE  level(m) < level(n)
  <2>1. [source |-> m, target |-> n, type |-> "dependency"] \in BuiltEdges(I, decomposed)
    <3>1. PICK e \in p.edges : e.type = "dependency" /\ e.target = n /\ e.source = m
      BY DEF Sources, Ordinary
    <3>2. e = [source |-> m, target |-> n, type |-> "dependency"]
      BY <3>1 DEF BuiltEdges, Joined, RepairEdges
    <3> QED
      BY <3>1, <3>2
  <2>2. \/ m = "intake" /\ n = "plan"
        \/ m = "plan" /\ n = "schedule"
        \/ m \in {"plan", "schedule"} /\ n \in I
        \/ m \in I /\ n \in {"integrate", "verify"}
        \/ m = "integrate" /\ n = "verify"
        \/ m = "verify" /\ n = "review"
        \/ m = "review" /\ n = "package"
    BY <2>1 DEF BuiltEdges, Joined, RepairEdges
  <2> QED
    BY <2>2 DEF Fixed
<1>3. \A n \in Identifiers(p) : \A m \in Sources(p, n) :
        m \in Identifiers(p) => rank[m] < rank[n]
  BY <1>2
<1> HIDE DEF rank
<1> QED
  BY <1>1, <1>3, RankedIsAcyclic
=============================================================================
