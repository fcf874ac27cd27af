------------------------------ MODULE ProviderCall ------------------------------
(***************************************************************************)
(* A provider call (agentkit/adapters.py, execute and execute_owned_code): *)
(* the checks before the launch, the run of the CLI by the transport, and  *)
(* the result that is made of its outcome and persisted.                   *)
(*                                                                         *)
(* The state the CLI keeps at home is external: Codex's installation       *)
(* identifier may come out of the call changed.                            *)
(***************************************************************************)
EXTENDS ProcessTransport

VARIABLES
  call,     \* how far the call has come
  result    \* the result persisted, or NoResult

callVars == <<transportVars, call, result>>

-----------------------------------------------------------------------------
NoResult == [status |-> "none", error |-> "none"]

\* Why a call may be blocked before anything is launched.
Gates ==
  {"billing_policy", "unsupported_isolation", "invalid_boundary", "sandbox_unavailable",
   "missing_executable", "incompatible_cli", "authentication", "fixture_not_empty",
   "startup_state_unavailable"}

Errors ==
  Stops \cup Gates \cup {Categories[i] : i \in DOMAIN Categories} \cup
  {"provider_error", "truncated_output", "malformed_output", "startup_state_changed"}

CallTypeOK ==
  /\ TransportTypeOK
  /\ call \in {"preflight", "transport", "done", "raised"}
  /\ result \in [status : {"none", "succeeded", "failed", "cancelled", "blocked"}, error : Errors]

CallInit == TransportInit /\ call = "preflight" /\ result = NoResult

Block(gate) ==
  /\ call = "preflight"
  /\ call' = "done" /\ result' = [status |-> "blocked", error |-> gate]
  /\ UNCHANGED transportVars

Proceed ==
  /\ call = "preflight"
  /\ call' = "transport"
  /\ UNCHANGED <<transportVars, result>>

Run ==
  /\ call = "transport"
  /\ TransportNext
  /\ UNCHANGED <<call, result>>

\* Only the Codex identifier is compared; what Claude leaves behind is removed.
Result(changed) ==
  IF Engine = "codex" /\ changed
  THEN [status |-> "failed", error |-> "startup_state_changed"]
  ELSE Normalized(output, exit, stop)

Finish ==
  /\ call = "transport" /\ pc = "returned"
  /\ \E changed \in {FALSE, leader # "none"} : result' = Result(changed)
  /\ call' = "done"
  /\ UNCHANGED transportVars

\* The result directory, fresh before the call, is not any more.
RefusePersistence ==
  /\ call = "transport" /\ pc = "returned"
  /\ call' = "raised"
  /\ UNCHANGED <<transportVars, result>>

CallNext ==
  \/ \E gate \in Gates : Block(gate)
  \/ Proceed \/ Run \/ Finish \/ RefusePersistence

CallSpec ==
  /\ CallInit /\ [][CallNext]_callVars
  /\ WF_callVars(Finish)
  /\ WF_callVars(Transport /\ UNCHANGED <<call, result>>)
  /\ SF_callVars(Waits /\ UNCHANGED <<call, result>>)

-----------------------------------------------------------------------------
(* Properties                                                              *)

Returned == pc = "returned" /\ leader # "none"

\* However the processes behave, whatever they ignore and whoever holds the
\* pipes, the call is over within its timeout and a bounded cleanup.
ReturnsInTime == clock <= Deadline

\* A call leaves nobody of its process group behind, silent or not, and has
\* collected its leader; what it reports of the group is so.
NobodyLeftBehind ==
  Returned => leader = "reaped" /\ member = "none" /\ cancellation.gone = "yes"

\* Nobody is killed who was not given the grace to end by himself, not even by
\* the cleanup after an interrupt.
GraceIsGranted == cancellation.kill => clock - termAt >= Grace

\* The cancellation record and the outcome agree on why the process was
\* stopped, although the leader may exit, a deadline pass, a cancellation come
\* and the output overflow in any order.
CancellationTellsStop ==
  Returned =>
    /\ cancellation.requested = (stop # "none")
    /\ cancellation.reason = IF stop # "none" THEN stop ELSE "leader-exited"

\* A call succeeds only if its process ended by itself, without an error, and
\* its stream says once that the turn was completed and nowhere that it was not.
SuccessIsEarned ==
  result.status = "succeeded" =>
    /\ ~asked /\ exit = "zero" /\ stop = "none"
    /\ Cardinality(OfKind(output, Terminals)) = 1
    /\ OfKind(output, {"failed", "garbage", "tool"}) = {}
    /\ StopOnLimit(output) = "none"

\* A call whose process was stopped or exited well is taken for one without a
\* login only if a diagnostic or a failure says so, not for a word in a message.
\* (After a bad exit any word counts: error_class is given the whole stream.)
LoginFailureIsReported ==
  result.status = "failed" /\ result.error = "authentication"
    /\ (exit = "zero" \/ stop # "none") =>
    \E i \in OfKind(output, {"stderr", "error", "failed"}) : output[i].says = "authentication"

\* A call that was launched comes to its end although nobody it launched does
\* anything for it.
CallEnds == call = "transport" ~> call \in {"done", "raised"}
=============================================================================
