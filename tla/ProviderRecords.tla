---------------------------- MODULE ProviderRecords ----------------------------
(***************************************************************************)
(* What a provider's CLI writes and what is made of it                     *)
(* (agentkit/adapters.py): the monitor that reads along while the process  *)
(* runs, and the normalization of its outcome once it has ended.           *)
(*                                                                         *)
(* A record stands for a line of the JSONL stream, or for a piece of the   *)
(* diagnostics on stderr, by its kind and by the one telling word in its   *)
(* text.  Tools are those the mode of the call does not allow.             *)
(***************************************************************************)
EXTENDS Integers, Sequences, FiniteSets

CONSTANTS
  Engine,   \* "codex" or "claude"
  Records   \* the records a provider may write

\* The categories of error_class, in the order they are looked for.
Categories ==
  <<"usage_limit", "authentication", "rate_limit", "sandbox_unavailable", "guard_denied", "network">>

Words == {Categories[i] : i \in DOMAIN Categories} \cup {"retrying", "nothing"}

Kinds ==
  {"stderr",
   "text",       \* a message, reasoning, the start of the session
   "limit",      \* a rate limit event that says rejected
   "tool",       \* a finished tool item, a tool use, an advertised surface
   "toolstart",  \* a started tool item
   "error",      \* an error event
   "completed",  \* a terminal record of a turn that succeeded
   "failed",     \* and of one that failed
   "garbage",    \* a line that is not a typed JSON object
   "partial"}    \* an unterminated line

ASSUME RecordsAssumption ==
  /\ Engine \in {"codex", "claude"}
  /\ Records \subseteq [kind : Kinds, says : Words]

\* A sequence of records is what was written to both streams, as it was read.
OfKind(s, K) == {i \in DOMAIN s : s[i].kind \in K}
Said(s, I)   == {s[i].says : i \in I}

Stderr(s) == OfKind(s, {"stderr"})
Stdout(s) == OfKind(s, Kinds \ {"stderr"})

First(S) == CHOOSE i \in S : \A j \in S : i <= j
Last(S)  == CHOOSE i \in S : \A j \in S : j <= i

ErrorClass(words) ==
  LET found == {i \in DOMAIN Categories : Categories[i] \in words}
  IN IF found = {} THEN "provider_error" ELSE Categories[First(found)]

-----------------------------------------------------------------------------
(* stop_on_limit: stderr first, then the complete lines of stdout in order. *)

Alarming == {"usage_limit", "rate_limit", "authentication"}

AlarmOf(words) ==
  CASE ErrorClass(words) \in Alarming -> ErrorClass(words)
    [] ErrorClass(words) \notin Alarming /\ "retrying" \in words -> "retry_requested"
    [] OTHER -> "none"

\* Mutant: a telling word alarms wherever it is said.
RecordAlarmAnywhere(r) ==
  CASE r.kind = "limit"                -> "usage_limit"
    [] r.kind \in {"tool", "toolstart"} -> "unexpected_tools"
    [] OTHER                            -> AlarmOf({r.says})

RecordAlarm(r) ==
  CASE r.kind = "limit"                -> "usage_limit"
    [] r.kind \in {"tool", "toolstart"} -> "unexpected_tools"
    [] r.kind \in {"error", "failed"}   -> AlarmOf({r.says})
    [] OTHER                            -> "none"

StopOnLimit(s) ==
  LET diagnosed == AlarmOf(Said(s, Stderr(s)))
      hits == {i \in Stdout(s) : RecordAlarm(s[i]) # "none"}
  IN IF diagnosed # "none" THEN diagnosed
     ELSE IF hits # {} THEN RecordAlarm(s[First(hits)]) ELSE "none"

-----------------------------------------------------------------------------
(* The parse of a stream that was not stopped: its error class, or "none". *)

Terminals == {"completed", "failed"}

\* Every record is looked at before the terminal one is, and a later error
\* replaces an earlier one.  Only the Codex stream has error events.
StreamError(s) ==
  LET bad == OfKind(s, {"tool"} \cup IF Engine = "codex" THEN {"error"} ELSE {})
  IN IF bad = {} THEN "none"
     ELSE IF s[Last(bad)].kind = "tool" THEN "unexpected_tools"
     ELSE ErrorClass({s[Last(bad)].says})

\* The stream breaks off in a line.
Truncated(s) == Stdout(s) # {} /\ s[Last(Stdout(s))].kind = "partial"

\* Mutant: the last of several terminal records counts.
ParsedLeniently(s) ==
  LET ends == OfKind(s, Terminals)
  IN CASE Truncated(s) -> "truncated_output"
       [] OTHER ->
            IF OfKind(s, {"garbage", "partial"}) # {} THEN "malformed_output"
            ELSE IF ends = {} THEN "truncated_output"
            ELSE IF s[Last(ends)].kind = "failed" THEN ErrorClass({s[Last(ends)].says})
            ELSE StreamError(s)

Parsed(s) ==
  LET ends == OfKind(s, Terminals)
  IN CASE Truncated(s) -> "truncated_output"
       [] OTHER ->
            IF OfKind(s, {"garbage", "partial"}) # {} THEN "malformed_output"
            ELSE IF ends = {} THEN "truncated_output"
            ELSE IF Cardinality(ends) > 1 THEN "malformed_output"
            ELSE IF s[Last(ends)].kind = "failed" THEN ErrorClass({s[Last(ends)].says})
            ELSE StreamError(s)

\* normalize.  A reason to stop is all there is to say; a bad exit is classified
\* by whatever was written.
Normalized(s, exit, stop) ==
  IF stop # "none"
  THEN [status |-> IF stop \in {"cancelled", "interrupted"} THEN "cancelled" ELSE "failed",
        error  |-> stop]
  ELSE LET error == IF exit # "zero" THEN ErrorClass(Said(s, DOMAIN s)) ELSE Parsed(s)
       IN [status |-> IF error = "none" THEN "succeeded" ELSE "failed", error |-> error]
=============================================================================
