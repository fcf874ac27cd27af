--------------------------- MODULE CandidatePipeline ---------------------------
(***************************************************************************)
(* What a delivery promises of its candidate, however it is driven: the    *)
(* candidate is built and endorsed (made the task's head) as often as it   *)
(* takes; it is checked only after it was built and only when the endorsed *)
(* revision is the one that is there; and from then on, through review,    *)
(* packaging and the recovery of a review that was held back, it is never  *)
(* touched, unless it is sent back for rework and is built, checked and    *)
(* reviewed again.  A candidate that was stopped is promised to nobody:    *)
(* who was at work on it may still finish what they were doing.            *)
(***************************************************************************)
CONSTANTS
  Tasks,
  Revisions,
  NoRevision

VARIABLES
  stage,      \* stage[t]: how far t's candidate has come
  candidate,  \* candidate[t]: the revision that is there to be delivered
  endorsed    \* endorsed[t]: the revision everybody is told of

vars == <<stage, candidate, endorsed>>

-----------------------------------------------------------------------------
Stages == {"building", "built", "checked", "held", "reviewed", "packaged", "stopped"}

Init ==
  /\ stage = [t \in Tasks |-> "building"]
  /\ candidate = [t \in Tasks |-> NoRevision]
  /\ endorsed = [t \in Tasks |-> NoRevision]

Unpromised == {"building", "stopped"}

Build(t, r) ==
  /\ stage[t] \in Unpromised
  /\ candidate' = [candidate EXCEPT ![t] = r]
  /\ UNCHANGED <<stage, endorsed>>

Endorse(t) ==
  /\ stage[t] \in Unpromised
  /\ endorsed' = [endorsed EXCEPT ![t] = candidate[t]]
  /\ UNCHANGED <<stage, candidate>>

Move(t, S, to) ==
  /\ stage[t] \in S
  /\ stage' = [stage EXCEPT ![t] = to]
  /\ UNCHANGED <<candidate, endorsed>>

\* What is built may turn out not to be what is endorsed: then it fails its check.
Finish(t) == Move(t, {"building"}, "built")

Check(t) ==
  /\ candidate[t] = endorsed[t] /\ candidate[t] # NoRevision
  /\ Move(t, {"built"}, "checked")

Rework(t)  == Move(t, {"built", "checked"}, "building")
Hold(t)    == Move(t, {"checked"}, "held")
Review(t)  == Move(t, {"checked", "held"}, "reviewed")
Package(t) == Move(t, {"reviewed"}, "packaged")

\* A restart may stop many candidates at once, none of them packaged.
Stop(T) ==
  /\ \A t \in T : stage[t] # "packaged"
  /\ stage' = [t \in Tasks |-> IF t \in T THEN "stopped" ELSE stage[t]]
  /\ UNCHANGED <<candidate, endorsed>>

Next ==
  \/ \E t \in Tasks :
       \/ \E r \in Revisions : Build(t, r)
       \/ Endorse(t) \/ Finish(t) \/ Check(t) \/ Rework(t)
       \/ Hold(t) \/ Review(t) \/ Package(t)
  \/ \E T \in SUBSET Tasks : Stop(T)

Spec == Init /\ [][Next]_vars
=============================================================================
