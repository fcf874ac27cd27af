------------------------------ MODULE CallLedger ------------------------------
(***************************************************************************)
(* What the controller store promises of a task's provider and verifier    *)
(* calls, whatever rows and counters it keeps to do so: a call is launched *)
(* once, is out until somebody closes it, and is spent from then on for    *)
(* ever; a task has at most MaxConcurrency calls out and launches at most  *)
(* MaxCalls in all; a restart loses every call that is out, of every task, *)
(* and a task that lost a call launches none until each lost one is closed.*)
(***************************************************************************)
EXTENDS Integers, FiniteSets

CONSTANTS
  Tasks,
  Calls,          \* calls that may be launched, each at most once
  MaxCalls,       \* MaxCalls[t]: calls t may launch in all
  MaxConcurrency  \* MaxConcurrency[t]: calls t may have out at once

VARIABLES
  out,    \* out[t]: calls of t that were launched and are not closed
  lost,   \* lost[t]: those a restart found out
  spent   \* spent[t]: calls of t that are closed

vars == <<out, lost, spent>>

-----------------------------------------------------------------------------
Init ==
  /\ out = [t \in Tasks |-> {}]
  /\ lost = [t \in Tasks |-> {}]
  /\ spent = [t \in Tasks |-> {}]

Launched(c) == \E t \in Tasks : c \in out[t] \cup spent[t]

Launch(t, c) ==
  /\ ~Launched(c)
  /\ lost[t] = {}
  /\ Cardinality(out[t]) < MaxConcurrency[t]
  /\ Cardinality(out[t]) + Cardinality(spent[t]) < MaxCalls[t]
  /\ out' = [out EXCEPT ![t] = @ \cup {c}]
  /\ UNCHANGED <<lost, spent>>

\* It answered, was cancelled, or its uncertainty was resolved.
Close(t, c) ==
  /\ c \in out[t]
  /\ out' = [out EXCEPT ![t] = @ \ {c}]
  /\ lost' = [lost EXCEPT ![t] = @ \ {c}]
  /\ spent' = [spent EXCEPT ![t] = @ \cup {c}]

Restart ==
  /\ lost' = out
  /\ UNCHANGED <<out, spent>>

Next ==
  \/ \E t \in Tasks, c \in Calls : Launch(t, c) \/ Close(t, c)
  \/ Restart

Spec == Init /\ [][Next]_vars
=============================================================================
