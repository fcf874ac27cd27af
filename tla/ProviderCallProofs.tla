-------------------------- MODULE ProviderCallProofs --------------------------
(***************************************************************************)
(* Theorems about ProviderCall: whatever the processes around a call do,   *)
(* for every timeout, grace and limit and every set of records, it returns *)
(* in time, leaves nobody behind, grants the grace before a kill, says why *)
(* it stopped, and gives its result a reason.                              *)
(***************************************************************************)
EXTENDS ProviderCall, FiniteSetTheorems, WellFoundedInduction,
        SequenceTheorems, TLAPS

-----------------------------------------------------------------------------
(* What a sequence of records comes to.                                    *)

LEMMA LeastNumber ==
  ASSUME NEW S \in SUBSET Nat, S # {}
  PROVE  \E m \in S : \A k \in S : m <= k
<1> DEFINE Less == {ss \in Nat \X Nat : ss[1] < ss[2]}
<1>1. IsWellFoundedOn(Less, Nat)
  BY NatLessThanWellFounded DEF OpToRel
<1>2. PICK m \in S : \A k \in S : ~(<<k, m>> \in Less)
  <2> HIDE DEF Less
  <2> QED BY <1>1, WFMin
<1>3. \A k \in S : ~(k < m)
  <2>1. \A k \in S : k \in Nat
    OBVIOUS
  <2> QED BY <1>2, <2>1
<1> QED BY <1>2, <1>3

LEMMA FirstIsIn ==
  ASSUME NEW S \in SUBSET Nat, S # {}
  PROVE  First(S) \in S
BY LeastNumber DEF First

LEMMA LastIsIn ==
  ASSUME NEW n \in Nat, NEW S \in SUBSET (1..n), S # {}
  PROVE  Last(S) \in S
<1> DEFINE Mirror == {n - i : i \in S}
<1>1. Mirror \in SUBSET Nat /\ Mirror # {}
  <2>1. \A i \in S : n - i \in Nat
    OBVIOUS
  <2> QED BY <2>1
<1>2. PICK m \in Mirror : \A k \in Mirror : m <= k
  BY <1>1, LeastNumber
<1>3. PICK i \in S : m = n - i
  BY <1>2
<1>4. \A j \in S : j <= i
  <2>1. TAKE j \in S
  <2>2. m <= n - j
    BY <1>2
  <2> QED BY <1>3, <2>2
<1> QED BY <1>3, <1>4 DEF Last

LEMMA ErrorClassSays ==
  ASSUME NEW words
  PROVE  /\ ErrorClass(words) \in {Categories[i] : i \in DOMAIN Categories} \cup {"provider_error"}
         /\ ErrorClass(words) # "provider_error" => ErrorClass(words) \in words
<1> DEFINE found == {i \in DOMAIN Categories : Categories[i] \in words}
<1>1. DOMAIN Categories = 1..6
  BY DEF Categories
<1>2. found # {} => First(found) \in found
  BY <1>1, FirstIsIn
<1> QED BY <1>2 DEF ErrorClass

LEMMA AlarmSays ==
  ASSUME NEW words
  PROVE  /\ AlarmOf(words) \in Alarming \cup {"retry_requested", "none"}
         /\ AlarmOf(words) = "authentication" => "authentication" \in words
<1>1. ErrorClass(words) = "authentication" => "authentication" \in words
  BY ErrorClassSays
<1> QED BY <1>1 DEF AlarmOf, Alarming

LEMMA RecordAlarmSays ==
  ASSUME NEW r
  PROVE  /\ RecordAlarm(r) \in Alarming \cup {"retry_requested", "none", "unexpected_tools"}
         /\ RecordAlarm(r) = "authentication" =>
              r.kind \in {"error", "failed"} /\ r.says = "authentication"
<1>1. CASE r.kind \in {"limit", "tool", "toolstart"}
  BY <1>1 DEF RecordAlarm, Alarming
<1>2. CASE r.kind \in {"error", "failed"}
  BY <1>2, AlarmSays DEF RecordAlarm
<1>3. CASE r.kind \notin {"limit", "tool", "toolstart", "error", "failed"}
  BY <1>3 DEF RecordAlarm
<1> QED BY <1>1, <1>2, <1>3

\* A diagnostic or a failure asks for a login.
LoginAsked(s) == \E i \in OfKind(s, {"stderr", "error", "failed"}) : s[i].says = "authentication"

LEMMA StopOnLimitSays ==
  ASSUME NEW s \in Seq(Records)
  PROVE  /\ StopOnLimit(s) \in Stops
         /\ StopOnLimit(s) = "authentication" => LoginAsked(s)
<1> DEFINE said == AlarmOf(Said(s, Stderr(s)))
           hits == {i \in Stdout(s) : RecordAlarm(s[i]) # "none"}
<1>1. hits \in SUBSET Nat
  BY DEF Stdout, OfKind
<1>2. hits # {} => First(hits) \in hits
  BY <1>1, FirstIsIn
<1>3. said = "authentication" => LoginAsked(s)
  BY AlarmSays DEF Said, Stderr, OfKind, LoginAsked
<1>4. hits # {} /\ RecordAlarm(s[First(hits)]) = "authentication" => LoginAsked(s)
  BY <1>2, RecordAlarmSays DEF Stdout, OfKind, LoginAsked
<1>5. StopOnLimit(s) = IF said # "none" THEN said
                       ELSE IF hits # {} THEN RecordAlarm(s[First(hits)]) ELSE "none"
  BY DEF StopOnLimit
<1>6. said \in Stops /\ RecordAlarm(s[First(hits)]) \in Stops /\ "none" \in Stops
  BY AlarmSays, RecordAlarmSays DEF Stops
<1> QED BY <1>3, <1>4, <1>5, <1>6

-----------------------------------------------------------------------------
(* Types of the transport.                                                 *)

LEMMA Bounds == Timeout \in Nat /\ Grace \in Nat /\ Linger \in Nat /\ MaxOutput \in Nat
BY TransportAssumption

\* What the processes around the transport may do to what it keeps.
LEMMA SurroundingsLeave ==
  ASSUME TransportTypeOK, Surroundings
  PROVE  /\ UNCHANGED <<pc, clock, output, total, watching, stop, termAt, killAt, until,
                        cancellation, asked>>
         /\ \/ leader' = leader /\ exit' = exit
            \/ leader \in Alive /\ leader' = "silent" /\ exit' = exit
            \/ leader \in Alive /\ leader' = "zombie" /\ exit' \in {"zero", "nonzero"}
         /\ member' \in {member, "none"} \/ (GroupLives /\ member' \in Alive)
         /\ holder' \in {"none", "running"} /\ pipe' \in Seq(Records) /\ cancelEvent' \in BOOLEAN
<1> USE DEF Outside, reading, control, processes
<1>1. /\ holder \in {"none", "running"} /\ member \in {"none", "running", "silent"}
      /\ pipe \in Seq(Records) /\ cancelEvent \in BOOLEAN
  BY DEF TransportTypeOK
<1>2. ASSUME NEW r \in Records, Write(r)
      PROVE  pipe' \in Seq(Records) /\ UNCHANGED <<leader, exit, member, holder, cancelEvent>>
  BY <1>1, <1>2 DEF Write
<1>3. CASE \E r \in Records : Write(r)
  BY <1>1, <1>2, <1>3 DEF Write
<1>4. CASE \E status \in {"zero", "nonzero"} : LeaderExits(status)
  BY <1>1, <1>4 DEF LeaderExits
<1>5. CASE LeaderFallsSilent
  BY <1>1, <1>5 DEF LeaderFallsSilent, Alive
<1>6. CASE Fork
  BY <1>1, <1>6 DEF Fork, Alive
<1>7. CASE MemberExits \/ HolderExits \/ Cancel
  BY <1>1, <1>7 DEF MemberExits, HolderExits, Cancel
<1>8. CASE Detach
  BY <1>1, <1>8 DEF Detach
<1> QED BY <1>3, <1>4, <1>5, <1>6, <1>7, <1>8 DEF Surroundings

LEMMA TerminatedType ==
  ASSUME TransportTypeOK, NEW reason \in Reasons, NEW there \in BOOLEAN
  PROVE  /\ Terminated(reason, there) \in
              [requested : BOOLEAN, reason : Reasons, term : BOOLEAN, kill : BOOLEAN,
               reaped : BOOLEAN, gone : {"unknown", "yes", "no"}]
         /\ Terminated(reason, there).reason = reason
         /\ Terminated(reason, there).requested = (reason # "leader-exited")
         /\ Terminated(reason, there).kill = cancellation.kill
BY DEF Terminated, TransportTypeOK

LEMMA ReasonType ==
  ASSUME TransportTypeOK
  PROVE  /\ Reason \in Stops
         /\ stop # "none" => Reason = stop
         /\ Reason = "none" => stop = "none" /\ clock < Timeout
         /\ Reason = "authentication" => stop = "authentication"
<1> USE Bounds DEF TransportTypeOK
<1>1. CASE stop # "none"
  BY <1>1 DEF Reason
<1>2. CASE stop = "none" /\ cancelEvent
  BY <1>2 DEF Reason, Stops
<1>3. CASE stop = "none" /\ ~cancelEvent /\ clock >= Timeout
  BY <1>3 DEF Reason, Stops
<1>4. CASE stop = "none" /\ ~cancelEvent /\ ~(clock >= Timeout)
  BY <1>4 DEF Reason, Stops
<1> QED BY <1>1, <1>2, <1>3, <1>4

\* Who is left after a poll, and after a kill.
LEMMA PollLeaves ==
  ASSUME TransportTypeOK, Poll
  PROVE  /\ leader' \in {"none", "running", "silent", "reaped"} /\ UNCHANGED <<exit, member, holder, pipe>>
         /\ (leader' \in Alive <=> leader \in Alive) /\ (leader' = "none" <=> leader = "none")
         /\ Exited' <=> Exited
BY DEF Poll, TransportTypeOK, Alive, Exited

LEMMA KillLeaves ==
  ASSUME TransportTypeOK, Kill
  PROVE  /\ leader' \in {"none", "zombie", "reaped"} /\ (leader' = "none" <=> leader = "none")
         /\ exit' = IF leader \in Alive THEN "nonzero" ELSE exit
         /\ member' = "none" /\ UNCHANGED <<holder, pipe>>
BY DEF Kill, TransportTypeOK, Alive

\* What is read, and why the call is stopped by it.
LEMMA ReadKeeps ==
  ASSUME TransportTypeOK, Read
  PROVE  /\ output' \in Seq(Records) /\ pipe' \in Seq(Records) /\ total' \in 0..MaxOutput
         /\ stop' \in Stops /\ (stop # "none" => stop' # "none" /\ output' = output)
         /\ stop' = "none" => StopOnLimit(output') = "none"
         /\ stop' = "authentication" =>
              (stop = "authentication" /\ output' = output) \/ LoginAsked(output')
<1>1. output' \in Seq(Records) /\ pipe' \in Seq(Records)
  <2>1. Head(pipe) \in Records /\ Tail(pipe) \in Seq(Records)
    BY DEF Read, TransportTypeOK
  <2> QED BY <2>1 DEF Read, TransportTypeOK
<1>2. StopOnLimit(output') \in Stops /\
      (StopOnLimit(output') = "authentication" => LoginAsked(output'))
  BY <1>1, StopOnLimitSays
<1>3. total' \in 0..MaxOutput
  BY Bounds DEF Read, Full, TransportTypeOK
<1>4. "output_limit" \in Stops
  BY DEF Stops
<1> QED BY <1>1, <1>2, <1>3, <1>4 DEF Read, TransportTypeOK

LEMMA TransportTypeStep ==
  ASSUME TransportTypeOK, [TransportNext]_transportVars
  PROVE  TransportTypeOK'
<1> USE DEF processes, reading, control
<1>1. CASE Surroundings
  <2>1. leader' \in {"none", "running", "silent", "zombie", "reaped"}
        /\ exit' \in {"none", "zero", "nonzero"} /\ member' \in {"none", "running", "silent"}
    BY <1>1, SurroundingsLeave DEF TransportTypeOK, Alive
  <2> QED BY <1>1, <2>1, SurroundingsLeave DEF TransportTypeOK
<1>2. CASE RefuseCancelled \/ LaunchFails \/ Launch
  BY <1>2 DEF RefuseCancelled, LaunchFails, Launch, TransportTypeOK, Points, Stops, Reasons
<1>3. CASE LoopEnds \/ WaitForGroup
  <2>1. clock' \in Nat
    BY <1>3 DEF LoopEnds, WaitForGroup, MayPass, TransportTypeOK
  <2>2. leader' \in {"none", "running", "silent", "reaped"} /\ UNCHANGED <<exit, member, holder, pipe>>
    BY <1>3, PollLeaves DEF LoopEnds, WaitForGroup
  <2> QED BY <1>3, <2>1, <2>2 DEF LoopEnds, WaitForGroup, TransportTypeOK, Points
<1>4. CASE Turn
  <2>1. leader' \in {"none", "running", "silent", "zombie", "reaped"}
        /\ exit' \in {"none", "zero", "nonzero"} /\ member' \in {"none", "running", "silent"}
        /\ UNCHANGED <<holder, pipe>>
    BY <1>4, PollLeaves, KillLeaves DEF Turn, TransportTypeOK
  <2>2. cancellation' \in [requested : BOOLEAN, reason : Reasons, term : BOOLEAN, kill : BOOLEAN,
                           reaped : BOOLEAN, gone : {"unknown", "yes", "no"}]
    <3>1. Reason \in Reasons /\ "leader-exited" \in Reasons
      BY ReasonType DEF Reasons
    <3>2. Terminated(Reason, GroupExists).kill \in BOOLEAN
          /\ Terminated("leader-exited", GroupLives).kill \in BOOLEAN
      BY <3>1, TerminatedType DEF GroupExists, GroupLives, TransportTypeOK
    <3>3. GroupExists \in BOOLEAN /\ GroupLives \in BOOLEAN /\ KillIsDue \in BOOLEAN
      BY DEF GroupExists, GroupLives, KillIsDue
    <3>4. CASE Reason # "none"
      BY <1>4, <3>1, <3>2, <3>3, <3>4, TerminatedType DEF Turn
    <3>5. CASE Reason = "none" /\ Exited
      BY <1>4, <3>1, <3>2, <3>3, <3>5, TerminatedType DEF Turn
    <3>6. CASE Reason = "none" /\ ~Exited
      BY <1>4, <3>6 DEF Turn, TransportTypeOK
    <3> QED BY <3>4, <3>5, <3>6
  <2>3. stop' \in Stops
    BY <1>4, ReasonType DEF Turn
  <2>4. termAt' \in Nat \cup {Never} /\ killAt' \in Nat \cup {Never} /\ asked' \in BOOLEAN
    BY <1>4 DEF Turn, TransportTypeOK
  <2> QED BY <1>4, <2>1, <2>2, <2>3, <2>4 DEF Turn, TransportTypeOK, Points
<1>5. CASE Read
  BY <1>5, ReadKeeps DEF Read, MayPass, TransportTypeOK, Points
<1>6. CASE EndOfFile \/ Idle
  <2>1. clock' \in Nat
    BY <1>6 DEF EndOfFile, Idle, MayPass, TransportTypeOK
  <2>2. pc' \in Points /\ watching' \in BOOLEAN
    BY <1>6 DEF EndOfFile, Idle, TransportTypeOK, Points
  <2> QED BY <1>6, <2>1, <2>2 DEF EndOfFile, Idle, TransportTypeOK
<1>7. CASE Interrupt
  <2>1. Terminated("interrupted", GroupExists) \in
          [requested : BOOLEAN, reason : Reasons, term : BOOLEAN, kill : BOOLEAN,
           reaped : BOOLEAN, gone : {"unknown", "yes", "no"}]
    BY TerminatedType DEF Reasons, Stops, GroupExists
  <2> QED BY <1>7, <2>1 DEF Interrupt, TransportTypeOK, Points, Stops
<1>8. CASE Cleanup
  <2>1. Terminated(IF stop # "none" THEN stop ELSE "leader-exited", GroupExists) \in
          [requested : BOOLEAN, reason : Reasons, term : BOOLEAN, kill : BOOLEAN,
           reaped : BOOLEAN, gone : {"unknown", "yes", "no"}]
    BY TerminatedType DEF Reasons, GroupExists, TransportTypeOK
  <2> QED BY <1>8, <2>1, Bounds DEF Cleanup, TransportTypeOK, Points
<1>9. CASE StopWaiting
  <2>1. leader' \in {"none", "running", "silent", "zombie", "reaped"}
        /\ exit' \in {"none", "zero", "nonzero"} /\ member' \in {"none", "running", "silent"}
        /\ UNCHANGED <<holder, pipe>>
    BY <1>9, KillLeaves DEF StopWaiting, TransportTypeOK
  <2> QED BY <1>9, <2>1 DEF StopWaiting, TransportTypeOK, Points
<1>10. CASE Collect
  BY <1>10, PollLeaves DEF Collect, TransportTypeOK, Points
<1>11. CASE UNCHANGED transportVars
  BY <1>11 DEF transportVars, TransportTypeOK
<1> QED BY <1>1, <1>2, <1>3, <1>4, <1>5, <1>6, <1>7, <1>8, <1>9, <1>10, <1>11
        DEF TransportNext, Transport

-----------------------------------------------------------------------------
(* The process group.  Once it was killed, or the transport stopped waiting *)
(* for it, only a leader that is not collected yet may be left.             *)

Over == pc = "collect" \/ pc = "returned" \/ killAt # Never

Family ==
  /\ pc = "launch" => leader = "none"
  /\ leader = "none" => /\ member = "none" /\ pc \in {"launch", "returned"}
                        /\ termAt = Never /\ killAt = Never /\ clock = 0 /\ ~cancellation.kill
  /\ exit = "none" <=> ~Exited
  /\ leader # "none" /\ Over => Exited /\ member = "none"
  /\ Returned => leader = "reaped" /\ cancellation.gone = "yes"

LEMMA FamilyStep ==
  ASSUME TransportTypeOK, Family, [TransportNext]_transportVars
  PROVE  Family'
<1> USE DEF Never
<1>1. CASE pc # "returned" /\ Surroundings
  <2>1. leader # "none" /\ Over => ~GroupLives
    BY DEF Family, GroupLives, Exited, Alive
  <2>2. leader = "none" => leader' = "none" /\ member' = "none"
    BY <1>1, SurroundingsLeave DEF Family, GroupLives, Alive, TransportTypeOK
  <2>3. leader' = "none" => leader = "none"
    BY <1>1, SurroundingsLeave
  <2>4. exit' = "none" <=> ~Exited'
    BY <1>1, SurroundingsLeave DEF Family, Exited, Alive, TransportTypeOK
  <2>5. leader # "none" /\ Over => leader' = leader /\ member' = "none"
    BY <1>1, <2>1, SurroundingsLeave DEF Family, GroupLives
  <2>6. UNCHANGED <<pc, termAt, killAt, clock, cancellation>>
    BY <1>1, SurroundingsLeave
  <2> QED BY <1>1, <2>2, <2>3, <2>4, <2>5, <2>6 DEF Family, Over, Exited, Returned
<1>2. CASE RefuseCancelled \/ LaunchFails \/ Launch
  BY <1>2 DEF RefuseCancelled, LaunchFails, Launch, processes, reading, control,
     Family, Over, Exited, Returned, TransportTypeOK
<1>3. CASE LoopEnds \/ WaitForGroup
  <2>1. UNCHANGED <<termAt, killAt, cancellation>> /\ pc' \in {"cleanup", "dwindle"} /\ Poll
        /\ leader # "none"
    BY <1>3 DEF LoopEnds, WaitForGroup, control, Family, Exited
  <2> QED BY <1>3, <2>1, PollLeaves DEF Family, Over, Exited, Returned, LoopEnds, WaitForGroup
<1>4. CASE Turn
  <2>1. pc' \in {"cleanup", "select"} /\ leader # "none"
    BY <1>4 DEF Turn, Family
  <2>2. CASE KillIsDue
    <3>1. leader' \in {"zombie", "reaped"} /\ member' = "none"
      BY <1>4, <2>1, <2>2, KillLeaves DEF Turn
    <3>2. exit' # "none"
      BY <1>4, <2>1, <2>2, KillLeaves DEF Turn, Family, Exited, Alive, TransportTypeOK
    <3> QED BY <2>1, <3>1, <3>2 DEF Family, Over, Exited, Returned
  <2>3. CASE ~KillIsDue
    <3>1. Poll /\ killAt' = killAt
      BY <1>4, <2>3 DEF Turn
    <3> QED BY <2>1, <3>1, PollLeaves DEF Family, Over, Exited, Returned
  <2> QED BY <2>2, <2>3
<1>5. CASE Read \/ EndOfFile \/ Idle \/ Interrupt \/ Cleanup
  <2>1. UNCHANGED <<leader, exit, member, killAt>> /\ leader # "none"
        /\ pc' \in {"turn", "cleanup", "dwindle"}
    BY <1>5 DEF Read, EndOfFile, Idle, Interrupt, Cleanup, processes, control, Family
  <2> QED BY <2>1 DEF Family, Over, Exited, Returned
<1>6. CASE StopWaiting
  <2>1. pc' = "collect" /\ leader # "none"
    BY <1>6 DEF StopWaiting, Family
  <2>2. CASE GroupExists
    <3>1. leader' \in {"zombie", "reaped"} /\ member' = "none"
      BY <1>6, <2>1, <2>2, KillLeaves DEF StopWaiting
    <3>2. exit' # "none"
      BY <1>6, <2>1, <2>2, KillLeaves DEF StopWaiting, Family, Exited, Alive, TransportTypeOK
    <3> QED BY <2>1, <3>1, <3>2 DEF Family, Over, Exited, Returned
  <2>3. CASE ~GroupExists
    <3>1. UNCHANGED <<leader, exit, member>>
      BY <1>6, <2>3 DEF StopWaiting, processes
    <3>2. leader = "reaped" /\ member = "none"
      BY <2>1, <2>3 DEF GroupExists, GroupLives, Alive, TransportTypeOK
    <3> QED BY <2>1, <3>1, <3>2 DEF Family, Over, Exited, Returned
  <2> QED BY <2>2, <2>3
<1>7. CASE Collect
  <2>1. pc = "collect" /\ pc' = "returned" /\ leader # "none" /\ Poll /\ UNCHANGED <<termAt, killAt, clock>>
    BY <1>7 DEF Collect, Family
  <2>2. Exited /\ member = "none"
    BY <2>1 DEF Family, Over
  <2>3. leader' = "reaped" /\ member' = "none" /\ exit' = exit
    BY <2>1, <2>2 DEF Poll, Exited
  <2>4. cancellation'.gone = "yes"
    BY <1>7, <2>2 DEF Collect, Alive, TransportTypeOK
  <2> QED BY <2>1, <2>2, <2>3, <2>4 DEF Family, Over, Exited, Returned
<1>8. CASE UNCHANGED transportVars
  BY <1>8 DEF transportVars, processes, control, Family, Over, Exited, Returned
<1> QED BY <1>1, <1>2, <1>3, <1>4, <1>5, <1>6, <1>7, <1>8 DEF TransportNext, Transport

-----------------------------------------------------------------------------
(* The deadlines.                                                          *)

\* The longest time between the signals, in ticks of the loop.
Patience == IF Grace = 0 THEN 1 ELSE Grace

\* d is 1 where a tick may have passed since the turn that looked at the clock.
InLoop(d) ==
  /\ termAt = Never => clock < Timeout + d
  /\ termAt # Never /\ killAt = Never => clock - termAt < Grace + d \/ clock <= termAt + d
  /\ killAt # Never => /\ clock <= killAt + Linger + d
                       /\ leader = "zombie" => clock <= killAt + d

InCleanup ==
  /\ termAt # Never /\ termAt + Grace <= until /\ until <= clock + Grace
  /\ killAt = Never => clock <= until /\ until <= Timeout + Patience + Grace
  /\ killAt # Never => /\ leader = "zombie" => clock <= killAt + 1
                       /\ clock <= killAt + Linger + 1 \/ (Grace >= 1 /\ clock <= killAt + 2)

Timely ==
  /\ termAt # Never => termAt <= Timeout /\ termAt <= clock
  /\ killAt # Never => /\ termAt # Never /\ killAt <= clock
                       /\ termAt + Grace <= killAt /\ killAt <= termAt + Patience
  /\ pc = "select" => InLoop(0)
  /\ pc \in {"turn", "cleanup"} => InLoop(1)
  /\ pc = "dwindle" => InCleanup
  /\ clock <= Deadline

LEMMA TimelyStep ==
  ASSUME TransportTypeOK, TransportTypeOK', Family, Timely, [TransportNext]_transportVars
  PROVE  Timely'
<1> USE Bounds DEF Never
<1>1. clock \in Nat /\ clock' \in Nat /\ Patience \in Nat /\ Patience >= 1 /\ Patience >= Grace
      /\ Patience <= Grace + 1 /\ {termAt, killAt, until} \subseteq Nat \cup {-1}
  BY DEF TransportTypeOK, Patience
<1>2. Deadline \in Nat /\ Deadline >= Timeout + Grace + Grace + 2
      /\ Deadline >= Timeout + Grace + Linger + 2
  BY DEF Deadline
<1>3. CASE \/ pc # "returned" /\ Surroundings
           \/ UNCHANGED transportVars
  <2>1. UNCHANGED <<pc, clock, termAt, killAt, until>>
    BY <1>3, SurroundingsLeave DEF transportVars, control
  <2>2. leader' = "zombie" /\ killAt # Never => leader = "zombie"
    <3>1. CASE UNCHANGED transportVars
      BY <3>1 DEF transportVars, processes
    <3>2. CASE pc # "returned" /\ Surroundings
      BY <3>2, SurroundingsLeave DEF Family, Over, Exited, Alive
    <3> QED BY <1>3, <3>1, <3>2
  <2> QED BY <2>1, <2>2 DEF Timely, InLoop, InCleanup
<1>4. CASE RefuseCancelled \/ LaunchFails \/ Launch
  <2>1. termAt' = Never /\ killAt' = Never /\ clock' = 0 /\ pc' \in {"turn", "returned"}
    BY <1>4 DEF RefuseCancelled, LaunchFails, Launch, control, Family
  <2> QED BY <1>2, <2>1 DEF Timely, InLoop
<1>5. CASE LoopEnds
  <2>1. UNCHANGED <<clock, termAt, killAt>> /\ pc = "turn" /\ pc' = "cleanup" /\ leader' # "zombie"
    BY <1>5, PollLeaves DEF LoopEnds, control
  <2> QED BY <2>1 DEF Timely, InLoop
<1>6. CASE Turn
  <2>1. clock' = clock /\ InLoop(1) /\ pc' = IF GiveUp THEN "cleanup" ELSE "select"
    BY <1>6 DEF Turn, Timely
  <2>2. killAt' = IF KillIsDue THEN clock ELSE killAt
    BY <1>6 DEF Turn
  <2>3. termAt # Never => termAt' = termAt
    BY <1>6 DEF Turn
  <2>4. termAt = Never => termAt' = clock \/ (termAt' = Never /\ clock < Timeout)
    <3>1. CASE Reason # "none" \/ Exited
      BY <1>6, <3>1 DEF Turn
    <3>2. CASE ~(Reason # "none" \/ Exited)
      BY <1>6, <3>2, ReasonType DEF Turn
    <3> QED BY <3>1, <3>2
  <2>5. killAt # Never => leader' # "zombie" /\ killAt' = killAt
    BY <1>6, PollLeaves DEF Turn, KillIsDue
  <2>6. CASE GiveUp
    BY <1>1, <2>1, <2>2, <2>3, <2>4, <2>5, <2>6 DEF GiveUp, KillIsDue, Timely, InLoop
  <2>7. CASE ~GiveUp /\ KillIsDue
    <3>1. termAt # Never /\ killAt = Never /\ clock - termAt >= Grace
      BY <2>7 DEF KillIsDue
    <3>2. clock <= termAt + Patience
      BY <1>1, <2>1, <3>1 DEF InLoop, Patience
    <3> QED BY <1>1, <2>1, <2>2, <2>3, <2>7, <3>1, <3>2 DEF Timely, InLoop
  <2>8. CASE ~GiveUp /\ ~KillIsDue
    BY <1>1, <2>1, <2>2, <2>3, <2>4, <2>5, <2>8 DEF GiveUp, KillIsDue, Timely, InLoop
  <2> QED BY <2>6, <2>7, <2>8
<1>7. CASE Read \/ EndOfFile \/ Idle
  <2>1. pc = "select" /\ pc' = "turn" /\ clock' \in {clock, clock + 1}
        /\ UNCHANGED <<termAt, killAt, leader>>
    BY <1>7 DEF Read, EndOfFile, Idle, MayPass, control, processes
  <2>2. InLoop(0)
    BY <2>1 DEF Timely
  <2>3. InLoop(1)'
    BY <1>1, <2>1, <2>2 DEF InLoop
  <2>4. clock' <= Deadline
    BY <1>1, <1>2, <2>1, <2>2 DEF Timely, InLoop, Patience
  <2> QED BY <1>1, <2>1, <2>3, <2>4 DEF Timely
<1>8. CASE Interrupt
  <2>1. pc \in {"turn", "select"} /\ pc' = "cleanup" /\ UNCHANGED <<clock, killAt, leader>>
        /\ termAt' = IF termAt = Never THEN clock ELSE termAt
    BY <1>8 DEF Interrupt, processes
  <2> QED BY <1>1, <2>1 DEF Timely, InLoop
<1>9. CASE Cleanup
  <2>1. pc = "cleanup" /\ pc' = "dwindle" /\ UNCHANGED <<clock, killAt, leader>>
        /\ termAt' = (IF termAt = Never THEN clock ELSE termAt) /\ until' = clock + Grace
    BY <1>9 DEF Cleanup, processes
  <2>2. InLoop(1)
    BY <2>1 DEF Timely
  <2> QED BY <1>1, <2>1, <2>2 DEF Timely, InLoop, InCleanup, Patience
<1>10. CASE WaitForGroup
  <2>1. pc = "dwindle" /\ pc' = "dwindle" /\ clock' \in {clock, clock + 1} /\ clock < until
        /\ UNCHANGED <<termAt, killAt, until>> /\ leader' # "zombie" /\ leader # "none"
    BY <1>10, PollLeaves DEF WaitForGroup, MayPass, control, Family
  <2>2. InCleanup
    BY <2>1 DEF Timely
  <2>3. killAt # Never => leader = "zombie"
    BY <1>10, <2>1 DEF WaitForGroup, GroupExists, GroupLives, Family, Over, Exited, Alive
  <2>4. InCleanup'
    BY <1>1, <2>1, <2>2, <2>3 DEF InCleanup, Timely
  <2>5. clock' <= Deadline
    BY <1>1, <1>2, <2>1, <2>2, <2>3 DEF InCleanup, Timely, Patience
  <2> QED BY <1>1, <2>1, <2>4, <2>5 DEF Timely
<1>11. CASE StopWaiting \/ Collect
  <2>1. pc' \in {"collect", "returned"} /\ UNCHANGED <<clock, termAt, killAt>>
    BY <1>11 DEF StopWaiting, Collect
  <2> QED BY <2>1 DEF Timely
<1> QED BY <1>3, <1>4, <1>5, <1>6, <1>7, <1>8, <1>9, <1>10, <1>11 DEF TransportNext, Transport

-----------------------------------------------------------------------------
(* The record of the cancellation.                                         *)

Granted == cancellation.kill => termAt # Never /\ clock - termAt >= Grace

Told ==
  pc \in {"dwindle", "collect"} \/ Returned =>
    /\ cancellation.requested = (stop # "none")
    /\ cancellation.reason = IF stop # "none" THEN stop ELSE "leader-exited"

LEMMA GrantedStep ==
  ASSUME TransportTypeOK, TransportTypeOK', Timely, Granted, [TransportNext]_transportVars
  PROVE  Granted'
<1> USE Bounds DEF Never
<1>1. clock \in Nat /\ clock' \in Nat /\ {termAt, until} \subseteq Nat \cup {-1}
      /\ cancellation.kill \in BOOLEAN
  BY DEF TransportTypeOK
<1>2. CASE pc # "returned" /\ Surroundings
  BY <1>2, SurroundingsLeave DEF Granted
<1>3. CASE RefuseCancelled \/ LaunchFails \/ Launch
  <2>1. cancellation'.kill = cancellation.kill /\ UNCHANGED <<clock, termAt>>
    BY <1>3 DEF RefuseCancelled, LaunchFails, Launch, control, TransportTypeOK
  <2> QED BY <2>1 DEF Granted
<1>4. CASE LoopEnds \/ Read \/ EndOfFile \/ Idle \/ WaitForGroup
  <2>1. UNCHANGED <<cancellation, termAt>> /\ clock' \in {clock, clock + 1}
    BY <1>4 DEF LoopEnds, Read, EndOfFile, Idle, WaitForGroup, MayPass, control
  <2> QED BY <1>1, <2>1 DEF Granted
<1>5. CASE Turn
  <2>1. clock' = clock /\ (termAt # Never => termAt' = termAt)
    BY <1>5 DEF Turn
  <2>2. cancellation'.kill => cancellation.kill \/ KillIsDue
    <3>1. Reason \in Reasons /\ "leader-exited" \in Reasons
          /\ GroupExists \in BOOLEAN /\ GroupLives \in BOOLEAN
      BY ReasonType DEF Reasons, GroupExists, GroupLives
    <3>2. /\ Terminated(Reason, GroupExists).kill = cancellation.kill
          /\ Terminated("leader-exited", GroupLives).kill = cancellation.kill
      BY <3>1, TerminatedType
    <3>3. /\ "kill" \in DOMAIN Terminated(Reason, GroupExists)
          /\ "kill" \in DOMAIN Terminated("leader-exited", GroupLives)
      BY DEF Terminated, TransportTypeOK
    <3> QED BY <1>5, <3>2, <3>3 DEF Turn
  <2> QED BY <1>1, <2>1, <2>2 DEF Granted, KillIsDue
<1>6. CASE Interrupt \/ Cleanup
  <2>1. cancellation'.kill = cancellation.kill /\ clock' = clock
        /\ (termAt # Never => termAt' = termAt)
    BY <1>6 DEF Interrupt, Cleanup, Terminated, TransportTypeOK
  <2> QED BY <2>1 DEF Granted
<1>7. CASE StopWaiting
  <2>1. UNCHANGED <<clock, termAt>> /\ (cancellation'.kill => cancellation.kill \/ GroupExists)
    BY <1>7 DEF StopWaiting, TransportTypeOK
  <2>2. GroupExists => termAt # Never /\ clock >= until /\ termAt + Grace <= until
    BY <1>7 DEF StopWaiting, Timely, InCleanup
  <2> QED BY <1>1, <2>1, <2>2 DEF Granted
<1>8. CASE Collect
  <2>1. cancellation'.kill = cancellation.kill /\ UNCHANGED <<clock, termAt>>
    BY <1>8 DEF Collect, TransportTypeOK
  <2> QED BY <2>1 DEF Granted
<1>9. CASE UNCHANGED transportVars
  BY <1>9 DEF transportVars, control, Granted
<1> QED BY <1>2, <1>3, <1>4, <1>5, <1>6, <1>7, <1>8, <1>9 DEF TransportNext, Transport

LEMMA ToldStep ==
  ASSUME TransportTypeOK, Family, Told, [TransportNext]_transportVars
  PROVE  Told'
<1>1. CASE pc # "returned" /\ Surroundings
  BY <1>1, SurroundingsLeave DEF Told, Returned
<1>2. CASE RefuseCancelled \/ LaunchFails \/ Launch
  BY <1>2 DEF RefuseCancelled, LaunchFails, Launch, processes, Told, Returned, Family
<1>3. CASE LoopEnds \/ Turn \/ Read \/ EndOfFile \/ Idle \/ Interrupt
  BY <1>3 DEF LoopEnds, Turn, Read, EndOfFile, Idle, Interrupt, Told, Returned
<1>4. CASE Cleanup
  <2> DEFINE reason == IF stop # "none" THEN stop ELSE "leader-exited"
  <2>1. reason \in Reasons /\ GroupExists \in BOOLEAN
    BY DEF Reasons, GroupExists, TransportTypeOK
  <2>2. "leader-exited" \notin Stops
    BY DEF Stops, Alarming
  <2>3. stop' = stop /\ cancellation' = Terminated(reason, GroupExists)
    BY <1>4 DEF Cleanup
  <2>4. cancellation'.reason = reason /\ cancellation'.requested = (reason # "leader-exited")
    BY <2>1, <2>3, TerminatedType
  <2> QED BY <2>2, <2>3, <2>4 DEF Told, TransportTypeOK
<1>5. CASE WaitForGroup \/ StopWaiting \/ Collect
  <2>1. /\ pc \in {"dwindle", "collect"} /\ stop' = stop
        /\ cancellation'.requested = cancellation.requested
        /\ cancellation'.reason = cancellation.reason
    BY <1>5 DEF WaitForGroup, StopWaiting, Collect, control, TransportTypeOK
  <2> QED BY <2>1 DEF Told
<1>6. CASE UNCHANGED transportVars
  BY <1>6 DEF transportVars, processes, control, Told, Returned
<1> QED BY <1>1, <1>2, <1>3, <1>4, <1>5, <1>6 DEF TransportNext, Transport

-----------------------------------------------------------------------------
(* The monitor.                                                            *)

Watched ==
  /\ asked => stop # "none"
  /\ stop = "none" => StopOnLimit(output) = "none"
  /\ stop = "authentication" => LoginAsked(output)

LEMMA WatchedStep ==
  ASSUME TransportTypeOK, Watched, [TransportNext]_transportVars
  PROVE  Watched'
<1> USE DEF LoginAsked
<1>1. CASE pc # "returned" /\ Surroundings
  BY <1>1, SurroundingsLeave DEF Watched
<1>2. CASE RefuseCancelled \/ LaunchFails
  BY <1>2 DEF RefuseCancelled, LaunchFails, reading, Watched
<1>3. CASE Launch \/ LoopEnds \/ EndOfFile \/ Idle \/ WaitForGroup
  BY <1>3 DEF Launch, LoopEnds, EndOfFile, Idle, WaitForGroup, reading, control, Watched
<1>4. CASE Turn
  <2>1. stop' = Reason /\ output' = output
    BY <1>4 DEF Turn, reading
  <2>2. asked' => asked \/ Reason # "none"
    BY <1>4 DEF Turn, Exited, Alive
  <2> QED BY <2>1, <2>2, ReasonType DEF Watched
<1>5. CASE Read
  <2>1. asked' = asked
    BY <1>5 DEF Read
  <2> QED BY <1>5, <2>1, ReadKeeps DEF Watched
<1>6. CASE Interrupt
  BY <1>6 DEF Interrupt, reading, Watched
<1>7. CASE Cleanup \/ StopWaiting \/ Collect
  BY <1>7 DEF Cleanup, StopWaiting, Collect, reading, Watched
<1>8. CASE UNCHANGED transportVars
  BY <1>8 DEF transportVars, reading, control, Watched
<1> QED BY <1>1, <1>2, <1>3, <1>4, <1>5, <1>6, <1>7, <1>8 DEF TransportNext, Transport

-----------------------------------------------------------------------------
(* The result.                                                             *)

LEMMA ParsedSays ==
  ASSUME NEW s \in Seq(Records)
  PROVE  /\ Parsed(s) \in Errors
         /\ Parsed(s) = "none" => /\ Cardinality(OfKind(s, Terminals)) = 1
                                  /\ OfKind(s, {"failed", "garbage", "tool"}) = {}
         /\ Parsed(s) = "authentication" => LoginAsked(s)
<1> DEFINE ends == OfKind(s, Terminals)
           bad  == OfKind(s, {"tool"} \cup IF Engine = "codex" THEN {"error"} ELSE {})
<1>1. DOMAIN s = 1..Len(s) /\ Len(s) \in Nat
  OBVIOUS
<1>2. /\ ends \in SUBSET (1..Len(s)) /\ bad \in SUBSET (1..Len(s))
      /\ IsFiniteSet(ends) /\ Cardinality(ends) \in Nat
  <2>1. ends \in SUBSET (1..Len(s)) /\ bad \in SUBSET (1..Len(s))
    BY <1>1 DEF OfKind
  <2>2. IsFiniteSet(1..Len(s))
    BY <1>1, FS_Interval
  <2> QED BY <2>1, <2>2, FS_Subset, FS_CardinalityType
<1>3. (ends # {} => Last(ends) \in ends) /\ (bad # {} => Last(bad) \in bad)
  BY <1>1, <1>2, LastIsIn
<1>4. /\ \A words : ErrorClass(words) \in Errors /\ ErrorClass(words) # "none"
      /\ \A words : ErrorClass(words) = "authentication" => "authentication" \in words
  BY ErrorClassSays DEF Errors, Categories
<1>5. /\ StreamError(s) \in Errors /\ (StreamError(s) = "none" => bad = {})
      /\ StreamError(s) = "authentication" => LoginAsked(s)
  <2>1. bad # {} => s[Last(bad)].kind \in {"tool", "error"} /\ Last(bad) \in DOMAIN s
    BY <1>3 DEF OfKind
  <2>2. {"none", "unexpected_tools"} \subseteq Errors
    BY DEF Errors, Stops
  <2> QED BY <1>4, <2>1, <2>2 DEF StreamError, LoginAsked, OfKind
<1>6. ends # {} => Last(ends) \in DOMAIN s /\ s[Last(ends)].kind \in Terminals
  BY <1>3 DEF OfKind
<1>7. {"truncated_output", "malformed_output"} \subseteq Errors
  BY DEF Errors
<1>8. CASE Truncated(s) \/ OfKind(s, {"garbage", "partial"}) # {} \/ ends = {} \/ Cardinality(ends) > 1
  BY <1>7, <1>8 DEF Parsed
<1>9. CASE ~Truncated(s) /\ OfKind(s, {"garbage", "partial"}) = {} /\ ends # {} /\ ~(Cardinality(ends) > 1)
  <2>1. Parsed(s) = IF s[Last(ends)].kind = "failed" THEN ErrorClass({s[Last(ends)].says})
                    ELSE StreamError(s)
    BY <1>9 DEF Parsed
  <2>2. Cardinality(ends) = 1
    BY <1>2, <1>9, FS_EmptySet
  <2>3. CASE s[Last(ends)].kind = "failed"
    <3>1. Parsed(s) = ErrorClass({s[Last(ends)].says})
      BY <2>1, <2>3
    <3>2. Parsed(s) = "authentication" => s[Last(ends)].says = "authentication"
      BY <1>4, <3>1
    <3>3. Parsed(s) \in Errors /\ Parsed(s) # "none"
      BY <1>4, <3>1
    <3>4. Last(ends) \in OfKind(s, {"stderr", "error", "failed"})
      BY <1>6, <1>9, <2>3 DEF OfKind
    <3> QED BY <3>2, <3>3, <3>4 DEF LoginAsked
  <2>4. CASE s[Last(ends)].kind # "failed"
    <3>1. PICK e : ends = {e}
      BY <1>2, <2>2, FS_Singleton
    <3>2. OfKind(s, {"failed"}) = {}
      BY <1>3, <2>4, <3>1 DEF OfKind, Terminals
    <3>3. OfKind(s, {"garbage"}) = {}
      BY <1>9 DEF OfKind
    <3>4. StreamError(s) = "none" => OfKind(s, {"tool"}) = {}
      BY <1>5 DEF OfKind
    <3> QED BY <1>5, <2>1, <2>2, <2>4, <3>2, <3>3, <3>4 DEF OfKind
  <2> QED BY <2>3, <2>4
<1> QED BY <1>8, <1>9

LEMMA ResultSays ==
  ASSUME TransportTypeOK, Watched, NEW changed \in BOOLEAN
  PROVE  /\ Result(changed) \in [status : {"succeeded", "failed", "cancelled"}, error : Errors]
         /\ Result(changed).status = "succeeded" =>
              /\ ~asked /\ exit = "zero" /\ stop = "none" /\ StopOnLimit(output) = "none"
              /\ Cardinality(OfKind(output, Terminals)) = 1
              /\ OfKind(output, {"failed", "garbage", "tool"}) = {}
         /\ Result(changed).error = "authentication" /\ (exit = "zero" \/ stop # "none") =>
              LoginAsked(output)
<1>1. CASE Engine = "codex" /\ changed
  <2>1. Result(changed) = [status |-> "failed", error |-> "startup_state_changed"]
    BY <1>1 DEF Result
  <2> QED BY <2>1 DEF Errors
<1>2. CASE ~(Engine = "codex" /\ changed) /\ stop # "none"
  <2>1. Result(changed) =
          [status |-> IF stop \in {"cancelled", "interrupted"} THEN "cancelled" ELSE "failed",
           error  |-> stop]
    BY <1>2 DEF Result, Normalized
  <2>2. stop \in Errors
    BY DEF TransportTypeOK, Errors
  <2> QED BY <1>2, <2>1, <2>2 DEF Watched
<1>3. CASE ~(Engine = "codex" /\ changed) /\ stop = "none"
  <2> DEFINE error == IF exit # "zero" THEN ErrorClass(Said(output, DOMAIN output)) ELSE Parsed(output)
  <2>1. Result(changed) = [status |-> IF error = "none" THEN "succeeded" ELSE "failed", error |-> error]
    BY <1>3 DEF Result, Normalized
  <2>2. ErrorClass(Said(output, DOMAIN output)) \in Errors \ {"none"}
    BY ErrorClassSays DEF Errors, Categories
  <2>3. output \in Seq(Records)
    BY DEF TransportTypeOK
  <2> QED BY <1>3, <2>1, <2>2, <2>3, ParsedSays DEF Watched
<1> QED BY <1>1, <1>2, <1>3

-----------------------------------------------------------------------------
(* The call.                                                               *)

\* What has come of the call: nothing runs before the gates are passed, and
\* nothing changes once it has a result.
Outcome ==
  /\ call \in {"preflight", "transport", "done", "raised"}
  /\ call = "preflight" => pc = "launch"
  /\ call # "done" => result = NoResult
  /\ call = "done" => \/ \E gate \in Gates : result = [status |-> "blocked", error |-> gate]
                      \/ \E changed \in BOOLEAN : result = Result(changed)

CallInv ==
  /\ TransportTypeOK /\ Family /\ Timely /\ Granted /\ Told /\ Watched
  /\ Outcome

LEMMA CallStart == CallInit => CallInv
<1>1. ASSUME CallInit
      PROVE  TransportTypeOK
  <2>1. "none" \in Stops /\ "none" \in Reasons /\ <<>> \in Seq(Records)
    BY DEF Stops, Reasons
  <2>2. 0 \in 0..MaxOutput /\ {Never} \subseteq Nat \cup {Never}
    BY Bounds
  <2>3. cancellation = [requested |-> FALSE, reason |-> "none", term |-> FALSE, kill |-> FALSE,
                        reaped |-> FALSE, gone |-> "unknown"]
    BY <1>1 DEF CallInit, TransportInit
  <2>4. cancellation \in [requested : BOOLEAN, reason : Reasons, term : BOOLEAN, kill : BOOLEAN,
                          reaped : BOOLEAN, gone : {"unknown", "yes", "no"}]
    BY <2>1, <2>3
  <2> QED BY <1>1, <2>1, <2>2, <2>4 DEF CallInit, TransportInit, TransportTypeOK, Points
<1>2. ASSUME CallInit
      PROVE  Family /\ Granted /\ Told
  BY <1>2 DEF CallInit, TransportInit, Family, Granted, Told, Over, Exited, Returned
<1>3. ASSUME CallInit
      PROVE  Timely
  BY <1>3, Bounds DEF CallInit, TransportInit, Timely, Deadline
<1>4. ASSUME CallInit
      PROVE  Watched
  <2>1. output = <<>> /\ stop = "none" /\ ~asked
    BY <1>4 DEF CallInit, TransportInit
  <2>2. Said(<<>>, Stderr(<<>>)) = {} /\ Stdout(<<>>) = {}
    BY DEF Said, Stderr, Stdout, OfKind
  <2>3. ErrorClass({}) = "provider_error"
    BY ErrorClassSays DEF Categories
  <2>4. StopOnLimit(<<>>) = "none"
    BY <2>2, <2>3 DEF StopOnLimit, AlarmOf, Alarming
  <2> QED BY <2>1, <2>4 DEF Watched
<1>5. ASSUME CallInit
      PROVE  Outcome
  BY <1>5 DEF CallInit, TransportInit, Outcome
<1> QED BY <1>1, <1>2, <1>3, <1>4, <1>5 DEF CallInv

LEMMA CallStep ==
  ASSUME CallInv, [CallNext]_callVars
  PROVE  CallInv'
<1>1. [TransportNext]_transportVars
  BY DEF CallNext, callVars, Block, Proceed, Run, Finish, RefusePersistence
<1>2. TransportTypeOK' /\ Family' /\ Granted' /\ Told' /\ Watched'
  <2>1. TransportTypeOK'
    BY <1>1, TransportTypeStep DEF CallInv
  <2> QED BY <1>1, <2>1, FamilyStep, GrantedStep, ToldStep, WatchedStep DEF CallInv
<1>3. Timely'
  BY <1>1, <1>2, TimelyStep DEF CallInv
<1>4. Outcome'
  <2>1. ASSUME UNCHANGED transportVars
        PROVE  pc' = pc /\ \A changed : Result(changed)' = Result(changed)
    BY <2>1 DEF transportVars, processes, reading, control, Result
  <2>2. CASE \E gate \in Gates : Block(gate)
    BY <2>2 DEF Block, Outcome
  <2>3. CASE Proceed \/ Run \/ RefusePersistence
    BY <2>3 DEF Proceed, Run, RefusePersistence, CallInv, Outcome
  <2>4. CASE Finish
    <3>1. PICK changed \in BOOLEAN : result' = Result(changed)
      BY <2>4 DEF Finish
    <3>2. call' = "done" /\ result' = Result(changed)'
      BY <2>1, <2>4, <3>1 DEF Finish
    <3> QED BY <3>2 DEF Outcome
  <2>5. CASE UNCHANGED callVars
    BY <2>1, <2>5 DEF callVars, CallInv, Outcome
  <2> QED BY <2>2, <2>3, <2>4, <2>5 DEF CallNext
<1> QED BY <1>2, <1>3, <1>4 DEF CallInv

LEMMA CallAlways == CallSpec => []CallInv
BY CallStart, CallStep, PTL DEF CallSpec

\* Every call keeps to the types of its state, its result to the known errors.
THEOREM CallTypeCorrect == CallSpec => []CallTypeOK
<1>1. CallInv => CallTypeOK
  <2>1. \A gate \in Gates : gate \in Errors
    BY DEF Errors
  <2>2. "none" \in Errors
    BY DEF Errors, Stops
  <2> QED BY <2>1, <2>2, ResultSays DEF CallInv, Outcome, CallTypeOK, NoResult
<1> QED BY <1>1, CallAlways, PTL

\* Whatever the processes ignore and whoever holds the pipes, a call (process.py,
\* run_process) is over by its deadline, for every timeout and every grace.
THEOREM CallsReturnInTime == CallSpec => []ReturnsInTime
<1>1. CallInv => ReturnsInTime
  BY DEF CallInv, Timely, ReturnsInTime
<1> QED BY <1>1, CallAlways, PTL

\* No call leaves a process of its group behind, and each collects its leader.
THEOREM NobodyIsLeftBehind == CallSpec => []NobodyLeftBehind
<1>1. CallInv => NobodyLeftBehind
  BY DEF CallInv, Family, Over, Returned, NobodyLeftBehind
<1> QED BY <1>1, CallAlways, PTL

\* SIGKILL never comes before the grace that follows SIGTERM has passed.
THEOREM GraceIsAlwaysGranted == CallSpec => []GraceIsGranted
<1>1. CallInv => GraceIsGranted
  BY DEF CallInv, Granted, GraceIsGranted
<1> QED BY <1>1, CallAlways, PTL

\* The record of the cancellation and the outcome give the same reason, in
\* whatever order the reasons came.
THEOREM CancellationsTellStops == CallSpec => []CancellationTellsStop
<1>1. CallInv => CancellationTellsStop
  BY DEF CallInv, Told, CancellationTellsStop
<1> QED BY <1>1, CallAlways, PTL

\* Every success (adapters.py, normalize) was earned by a process that ended by
\* itself and by a stream that says so once.
THEOREM SuccessesAreEarned == CallSpec => []SuccessIsEarned
<1>1. CallInv => SuccessIsEarned
  BY ResultSays DEF CallInv, Outcome, SuccessIsEarned, NoResult
<1> QED BY <1>1, CallAlways, PTL

\* Every failure to log in that is not taken from a bad exit was reported by a
\* diagnostic or by a failure of the stream.
THEOREM LoginFailuresAreReported == CallSpec => []LoginFailureIsReported
<1>1. CallInv => LoginFailureIsReported
  BY ResultSays DEF CallInv, Outcome, LoginFailureIsReported, LoginAsked, NoResult
<1> QED BY <1>1, CallAlways, PTL

=============================================================================
