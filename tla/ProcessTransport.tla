---------------------------- MODULE ProcessTransport ----------------------------
(***************************************************************************)
(* One call of the process transport (agentkit/process.py): run_process    *)
(* launches a CLI as the leader of a new process group, reads its output,  *)
(* stops it when it must and cleans up after it.                           *)
(*                                                                         *)
(* Around it live the processes it has to do with: the leader, its         *)
(* children in the group (of which the model keeps one alive at a time),   *)
(* and a descendant that has left the group but kept the pipes.  Those in  *)
(* the group may be silent: alive with their pipes closed.  They all do as *)
(* they please: SIGTERM only asks a process to end, which it may do        *)
(* anyway, and SIGKILL ends it at once.                                    *)
(*                                                                         *)
(* Time is counted in ticks and passes while the transport waits or reads, *)
(* at most one tick at a time.  Reading takes a record at a time, of       *)
(* either stream, and the limit on bytes is one on records.                *)
(***************************************************************************)
EXTENDS ProviderRecords

CONSTANTS
  Timeout,    \* timeout, in ticks
  Grace,      \* grace, between SIGTERM and SIGKILL
  Linger,     \* how long pipes are still read after SIGKILL
  MaxOutput,  \* max_bytes
  PipeSize,   \* records a pipe holds: bounds the model
  Horizon     \* where the clock stops: bounds the model

\* The latest end of a call: after the timeout the grace, then either the time
\* pipes are read after a kill or, if the loop ends without one, the grace
\* again, which the cleanup always grants; and a tick each for the turn that
\* ends the loop and for the wait that finds the group gone.
Deadline == Timeout + Grace + (IF Grace > Linger THEN Grace ELSE Linger) + 2

ASSUME TransportAssumption ==
  /\ {Timeout, Grace, Linger, MaxOutput} \subseteq Nat
  /\ PipeSize \in Nat \ {0}
  /\ Horizon > Deadline

VARIABLES
  pc,
  clock,      \* ticks since the launch
  leader,     \* the process launched
  exit,       \* its exit status
  member,     \* a child of it in its process group
  holder,     \* a descendant outside the group that holds the pipes
  pipe,       \* records written and not read
  output,     \* streams: records read and kept, up to the reason to stop
  total,      \* records read and kept
  watching,   \* some pipe is still registered with the selector
  cancelEvent,
  stop,       \* the reason to stop, or "none"
  termAt,     \* term_at, kill_at: when signalled, or Never
  killAt,
  until,      \* end of the wait for the group
  cancellation,
  asked       \* history: the leader was signalled before it had exited

processes == <<leader, exit, member, holder, pipe>>
reading   == <<output, total, watching>>
control   == <<stop, termAt, killAt, until, cancellation, asked>>
transportVars == <<pc, clock, processes, reading, cancelEvent, control>>

Never == -1

Points == {"launch", "turn", "select", "cleanup", "dwindle", "collect", "returned"}

Stops == Alarming \cup
  {"none", "cancelled", "timeout", "output_limit", "interrupted", "retry_requested",
   "unexpected_tools", "missing_executable", "launch_error"}

Reasons == Stops \cup {"cancelled-before-launch", "leader-exited"}

TransportTypeOK ==
  /\ pc \in Points
  /\ clock \in Nat
  /\ leader \in {"none", "running", "silent", "zombie", "reaped"}
  /\ exit \in {"none", "zero", "nonzero"}
  /\ member \in {"none", "running", "silent"} /\ holder \in {"none", "running"}
  /\ pipe \in Seq(Records) /\ output \in Seq(Records) /\ total \in 0..MaxOutput
  /\ watching \in BOOLEAN /\ cancelEvent \in BOOLEAN /\ asked \in BOOLEAN
  /\ stop \in Stops
  /\ {termAt, killAt, until} \subseteq Nat \cup {Never}
  /\ cancellation \in [requested : BOOLEAN, reason : Reasons, term : BOOLEAN, kill : BOOLEAN,
                       reaped : BOOLEAN, gone : {"unknown", "yes", "no"}]

TransportInit ==
  /\ pc = "launch" /\ clock = 0
  /\ leader = "none" /\ exit = "none" /\ member = "none" /\ holder = "none"
  /\ pipe = <<>> /\ output = <<>> /\ total = 0 /\ watching = FALSE
  /\ cancelEvent = FALSE /\ stop = "none" /\ asked = FALSE
  /\ termAt = Never /\ killAt = Never /\ until = Never
  /\ cancellation = [requested |-> FALSE, reason |-> "none", term |-> FALSE, kill |-> FALSE,
                     reaped |-> FALSE, gone |-> "unknown"]

-----------------------------------------------------------------------------
(* The processes, and whoever may cancel the call.                         *)

Alive == {"running", "silent"}
GroupLives == leader \in Alive \/ member \in Alive
GroupExists == GroupLives \/ leader = "zombie"
Writers == {leader, member, holder} \cap {"running"}

Outside == UNCHANGED <<pc, clock, reading, cancelEvent, control>>

\* What is written when nobody reads any more is lost.
Write(r) ==
  /\ pc \in {"turn", "select"} /\ watching
  /\ Writers # {} /\ Len(pipe) < PipeSize
  /\ pipe' = Append(pipe, r)
  /\ UNCHANGED <<leader, exit, member, holder>> /\ Outside

LeaderExits(status) ==
  /\ leader \in Alive
  /\ leader' = "zombie" /\ exit' = status
  /\ UNCHANGED <<member, holder, pipe>> /\ Outside

LeaderFallsSilent ==
  /\ leader = "running" /\ leader' = "silent"
  /\ UNCHANGED <<exit, member, holder, pipe>> /\ Outside

Fork ==
  /\ GroupLives /\ member = "none"
  /\ \/ leader = "running" /\ member' = "running"
     \/ member' = "silent"
  /\ UNCHANGED <<leader, exit, holder, pipe>> /\ Outside

MemberExits ==
  /\ member \in Alive /\ member' = "none"
  /\ UNCHANGED <<leader, exit, holder, pipe>> /\ Outside

Detach ==
  /\ "running" \in {leader, member} /\ holder = "none"
  /\ holder' = "running"
  /\ UNCHANGED <<leader, exit, member, pipe>> /\ Outside

HolderExits ==
  /\ holder = "running" /\ holder' = "none"
  /\ UNCHANGED <<leader, exit, member, pipe>> /\ Outside

Cancel ==
  /\ ~cancelEvent /\ stop = "none"
  /\ cancelEvent' = TRUE
  /\ UNCHANGED <<pc, clock, processes, reading, control>>

Surroundings ==
  \/ \E r \in Records : Write(r)
  \/ \E status \in {"zero", "nonzero"} : LeaderExits(status)
  \/ LeaderFallsSilent \/ Fork \/ MemberExits \/ Detach \/ HolderExits \/ Cancel

-----------------------------------------------------------------------------
(* The launch.                                                             *)

RefuseCancelled ==
  /\ pc = "launch" /\ cancelEvent
  /\ pc' = "returned" /\ stop' = "cancelled"
  /\ cancellation' = [cancellation EXCEPT !.requested = TRUE,
       !.reason = "cancelled-before-launch", !.gone = "yes"]
  /\ UNCHANGED <<clock, processes, reading, cancelEvent, termAt, killAt, until, asked>>

LaunchFails ==
  /\ pc = "launch" /\ ~cancelEvent
  /\ pc' = "returned" /\ stop' \in {"missing_executable", "launch_error"}
  /\ UNCHANGED <<clock, processes, reading, cancelEvent, termAt, killAt, until,
                 cancellation, asked>>

Launch ==
  /\ pc = "launch" /\ ~cancelEvent
  /\ pc' = "turn" /\ leader' = "running" /\ watching' = TRUE
  /\ UNCHANGED <<clock, exit, member, holder, pipe, output, total, cancelEvent, control>>

-----------------------------------------------------------------------------
(* A turn of the loop.                                                     *)

\* Mutant: the first reason counts.
TerminatedOnce(reason, there) ==
  IF termAt # Never THEN cancellation
  ELSE [cancellation EXCEPT !.reason = reason, !.requested = reason # "leader-exited",
                            !.term = there]

\* What terminate makes of the record: the latest reason counts, SIGTERM is
\* sent once, to whoever is there.
Terminated(reason, there) ==
  [cancellation EXCEPT !.reason = reason, !.requested = reason # "leader-exited",
                       !.term = IF termAt = Never THEN there ELSE @]

\* poll() collects the leader if it has exited.
Poll ==
  /\ leader' = IF leader = "zombie" THEN "reaped" ELSE leader
  /\ UNCHANGED <<exit, member, holder, pipe>>

\* What SIGKILL, after a poll, leaves of the group.
Kill ==
  /\ leader' = IF leader \in Alive THEN "zombie"
               ELSE IF leader = "zombie" THEN "reaped" ELSE leader
  /\ exit' = IF leader \in Alive THEN "nonzero" ELSE exit
  /\ member' = "none"
  /\ UNCHANGED <<holder, pipe>>

Exited == leader \in {"zombie", "reaped"}

LoopEnds ==
  /\ pc = "turn" /\ ~watching /\ Exited
  /\ Poll
  /\ pc' = "cleanup"
  /\ UNCHANGED <<clock, reading, cancelEvent, control>>

\* Mutant: SIGKILL does not wait for the grace to pass.
KillIsDueAtOnce == termAt # Never /\ killAt = Never

KillIsDue == termAt # Never /\ killAt = Never /\ clock - termAt >= Grace

\* Mutant: collection goes on as long as a pipe is held.
NeverGiveUp == FALSE

GiveUp == killAt # Never /\ clock - killAt > Linger

Reason ==
  CASE stop # "none" -> stop
    [] stop = "none" /\ cancelEvent -> "cancelled"
    [] stop = "none" /\ ~cancelEvent /\ clock >= Timeout -> "timeout"
    [] OTHER -> "none"

\* The leader is polled between the two calls of terminate.
Turn ==
  /\ pc = "turn" /\ (watching \/ ~Exited)
  /\ stop' = Reason
  /\ IF Reason # "none" \/ Exited
     THEN /\ cancellation' = [
               IF Reason # "none" THEN Terminated(Reason, GroupExists)
                                  ELSE Terminated("leader-exited", GroupLives)
               EXCEPT !.kill = @ \/ (KillIsDue /\ GroupLives)]
          /\ termAt' = IF termAt = Never THEN clock ELSE termAt
          /\ asked' = (asked \/ leader \in Alive)
     ELSE UNCHANGED <<cancellation, termAt, asked>>
  /\ killAt' = IF KillIsDue THEN clock ELSE killAt
  /\ IF KillIsDue THEN Kill ELSE Poll
  /\ pc' = IF GiveUp THEN "cleanup" ELSE "select"
  /\ UNCHANGED <<clock, reading, cancelEvent, until>>

\* Time that a wait or a read may take.
MayPass == clock' \in {clock, clock + 1} \cap 0..Horizon

\* Mutant: one record too many is kept.
NearlyFull == total > MaxOutput

Full == total = MaxOutput

\* Past the limit records are dropped, and the limit is the reason to stop
\* whatever was before.  Nobody looks at what is kept after a reason to stop.
Read ==
  /\ pc = "select" /\ watching /\ pipe # <<>>
  /\ pipe' = Tail(pipe)
  /\ output' = IF stop = "none" /\ ~Full THEN Append(output, Head(pipe)) ELSE output
  /\ total' = IF Full THEN total ELSE total + 1
  /\ stop' = IF Full THEN "output_limit"
             ELSE IF stop = "none" THEN StopOnLimit(output') ELSE stop
  /\ MayPass /\ pc' = "turn"
  /\ UNCHANGED <<leader, exit, member, holder, watching, cancelEvent, termAt, killAt, until,
                 cancellation, asked>>

EndOfFile ==
  /\ pc = "select" /\ watching /\ pipe = <<>> /\ Writers = {}
  /\ watching' = FALSE
  /\ pc' = "turn"
  /\ UNCHANGED <<clock, processes, output, total, cancelEvent, control>>

Idle ==
  /\ pc = "select" /\ (~watching \/ (pipe = <<>> /\ Writers # {}))
  /\ MayPass /\ pc' = "turn"
  /\ UNCHANGED <<processes, reading, cancelEvent, control>>

\* KeyboardInterrupt or SystemExit, anywhere in the loop.
Interrupt ==
  /\ pc \in {"turn", "select"}
  /\ stop' = "interrupted"
  /\ cancellation' = Terminated("interrupted", GroupExists)
  /\ termAt' = IF termAt = Never THEN clock ELSE termAt
  /\ asked' = (asked \/ leader \in Alive)
  /\ pc' = "cleanup"
  /\ UNCHANGED <<clock, processes, reading, cancelEvent, killAt, until>>

-----------------------------------------------------------------------------
(* The cleanup, whatever ended the loop.                                   *)

Cleanup ==
  /\ pc = "cleanup"
  /\ cancellation' = Terminated(IF stop # "none" THEN stop ELSE "leader-exited", GroupExists)
  /\ termAt' = IF termAt = Never THEN clock ELSE termAt
  /\ until' = clock + Grace
  /\ pc' = "dwindle"
  /\ UNCHANGED <<clock, processes, reading, cancelEvent, stop, killAt, asked>>

WaitForGroup ==
  /\ pc = "dwindle" /\ GroupExists /\ clock < until
  /\ Poll
  /\ MayPass
  /\ UNCHANGED <<pc, reading, cancelEvent, control>>

\* Mutant: a group that outlives its leader is left alone.
StopWaitingForLeader ==
  /\ pc = "dwindle" /\ (~GroupExists \/ clock >= until)
  /\ IF leader # "reaped" THEN Kill ELSE UNCHANGED processes
  /\ cancellation' = [cancellation EXCEPT !.kill = @ \/ leader # "reaped"]
  /\ pc' = "collect"
  /\ UNCHANGED <<clock, reading, cancelEvent, stop, termAt, killAt, until, asked>>

StopWaiting ==
  /\ pc = "dwindle" /\ (~GroupExists \/ clock >= until)
  /\ IF GroupExists THEN Kill ELSE UNCHANGED processes
  /\ cancellation' = [cancellation EXCEPT !.kill = @ \/ GroupExists]
  /\ pc' = "collect"
  /\ UNCHANGED <<clock, reading, cancelEvent, stop, termAt, killAt, until, asked>>

\* Nothing is left to wait for: what was killed is gone at once.
Collect ==
  /\ pc = "collect"
  /\ Poll
  /\ watching' = FALSE
  /\ cancellation' = [cancellation EXCEPT !.reaped = TRUE,
       !.gone = IF member \in Alive THEN "no" ELSE "yes"]
  /\ pc' = "returned"
  /\ UNCHANGED <<clock, output, total, cancelEvent, stop, termAt, killAt, until, asked>>

-----------------------------------------------------------------------------
Transport ==
  \/ RefuseCancelled \/ LaunchFails \/ Launch
  \/ LoopEnds \/ Turn \/ Read \/ EndOfFile \/ Idle
  \/ Cleanup \/ WaitForGroup \/ StopWaiting \/ Collect

TransportNext == (pc # "returned" /\ Surroundings) \/ Transport \/ Interrupt

\* The transport goes on and time passes; of the processes nothing is expected.
Waits == (Read \/ Idle \/ WaitForGroup) /\ clock' > clock

TransportFairness == WF_transportVars(Transport) /\ SF_transportVars(Waits)

TransportSpec == TransportInit /\ [][TransportNext]_transportVars
=============================================================================
