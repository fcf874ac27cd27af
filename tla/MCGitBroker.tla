------------------------------ MODULE MCGitBroker ------------------------------
(***************************************************************************)
(* A small instance of GitBroker for TLC: the worktree of a task and those *)
(* of its two assignments, whose scopes overlap, and a protected file.     *)
(***************************************************************************)
EXTENDS GitBroker, TLC

Seed == [p \in Paths |-> 0]

AssignmentScopes ==
  [task  |-> {{"one"}, {"one", "two"}},  \* repairs
   left  |-> {{"one"}},
   right |-> {{"one", "two"}}]

\* Calls are made in the order of their numbers.
InOrder == \A c \in Calls : call[c].pc # "ready" => \A d \in 1..c : call[d].pc # "ready"

NumberedSpec == Init /\ [][Next /\ OneCall' /\ InOrder']_vars
=============================================================================
