# Portable Agentkit: TLA+ models and proofs

Portable Agentkit (`src/agentkit`) drives software tasks through a fixed
pipeline - implement, verify, review, package, await approval - by launching
provider command-line tools under a local, trusted controller. Everything it
knows is kept in one SQLite database, the *controller store*
(`controller.py`). Workflows (`orchestration.py`, `delivery.py`), commands
(`__main__.py`) and operators call the store; any of them may be killed between
two calls, and several may run at once. What makes the system correct is
therefore mostly what the store promises under every interleaving of its
operations, and what its callers make of it.

## Inventory

| Component | State | Operations | What is hard | What makes it correct |
|---|---|---|---|---|
| Task store (`controller.py`) | task rows, evidence, approvals, failure signatures, event log | `create_task`, `transition`, `set_contract`, `set_workspace`, `set_head`, `add_evidence`, `record_failure`, `record_user_approval` | a head that moves under evidence; writes of `state` that bypass the transition table; the approval's check outside its transaction | no stage without the evidence of those before it; what is stale stays stale; bounded repairs; repeated failures final; dependencies stay reviewed |
| Execution ledger (`controller.py`) | execution rows, budget counters | `reserve_execution`, `start_execution`, `finish_execution`, `request_cancellation`, `reconcile_active`, `resolve_execution_uncertainty`, `recover_review_format_failure` | restarts with calls outstanding; late and double reports; limits | counters agree with rows; limits and reserves hold; a lost call isolates its task; closed is closed |
| Authentication recovery (`controller.py`, `auth.py`, `__main__.py`) | login sessions, checkpoints, the command and the CLI it started | `checkpoint_authentication`, `claim_authentication_login`, `finish_authentication_login`, `reconcile_authentication_login`, `resume_after_authentication`; `auth-login`, `auth-reconcile` | a CLI that outlives its command; several tasks sharing one login; checkpoints relinked between sessions | one interactive login per account; checkpoints in step with sessions; parked tasks idle; resume restores the interrupted stage on the same candidate |
| Phase 4 workflow (`orchestration.py`, `phase4_state.py`) | plan nodes with attempts, the cancellation flag, the driver's own locals | `submit`, `start`, `resume`, `cancel`, the driver loop; `transition_node`, `request_cancellation` | every store call is a separate transaction: kill, cancel or a second start between any two | what passed its verification is what the worktree holds; no stage outruns its nodes; no node in two hands; at most one call started late; commands end; a parked task can be resumed |
| Phase 3 delivery (`delivery.py`) | locals of the driver, the worktree | `run`, `resume`, `recover_review_format`, the driver loop | commit and store call apart; a login in the middle of any stage; a recovery in two transactions | what is packaged is what was checked, and no finding is overridden; repairs are told of their own candidate's failure; the budget covers every path; evidence names never collide; commands end |
| Process transport (`process.py`) | a process group, its pipes, a selector | `run_process` | timeout, cancellation, output limit, interrupt, the leader's exit and silent or detached children racing each other | bounded time; the group is gone when the call returns; grace before a kill; one reason reported |
| Provider adapters (`adapters.py`) | one call | `execute`, `execute_owned_code`, the stream monitor, `normalize` | a stream cut anywhere; telling words in messages | success is earned; a login is asked for only if a diagnostic asks for it |
| Plan graph and contracts (`phase4_contracts.py`) | none | validation of contracts, routes, plan graph | Kahn's algorithm with repair edges that lead back | cyclic plans refused, acyclic ones never |
| Git broker (`git_broker.py`) | worktrees of a repository: branch, index, files | `apply_worker_changes`, `integrate_contributions`; making of repositories, worktrees and snapshots | calls killed between writing, staging and committing; several assignments at once | only what was granted reaches a commit; what is committed is what was made |
| Runtime contracts, redaction, validation, pack, doctor, sandbox probe, fixtures, smoke, execution check | none, or one-shot I/O | | parsing and I/O | not modelled |

Interaction: drivers and commands *call* the store, whose every operation but
one is a single `BEGIN IMMEDIATE` transaction (`controller.py:342`), so store
operations are atomic and totally ordered; between two calls of one driver
anything else may happen. The store never calls back. `auth-login` shares the
terminal with the provider's own CLI, which it starts in a session of its own.

## Modules

Layering is by `EXTENDS`: each module adds variables and a next-state relation
that contains the previous one with the new variables unchanged.

* **TaskStore** - `task[t]` is a row of `tasks`; `evidence` and `approvals` are
  sets of rows; `failures` is `failure_signatures`; `approving` holds the
  `record_user_approval` calls between their read and their insert. One action
  per operation, `Transition` with every guard of `transition`. The event log
  is kept only as `task[t].moved`, the last `transition` event, because
  `recover_review_format_failure` reads it.
* **ExecutionLedger** - `exec[e]` is a row of `executions`, `budget[t]` the
  counters of a row of `budgets`. `Reports` is what callers may report of a
  finished call: status, measured time, and the part of the result that
  operations tell apart. `ReconcileActive` is one step over all tasks, as in
  the code.
* **AuthRecovery** - `session[s]` and `checkpoint[t]` are the two tables
  (`checkpoint[t]` the task's latest row: no query selects an earlier one);
  `login[s]` is the `auth-login` command that claimed `s` and the CLI it
  started, which may outlive it. A context is a provider with an account
  context. `claim_authentication_login` is two actions, its two outcomes.
* **Phase4State** - `node[t][n]` is a row of `phase4_nodes`, `cancelRequested`
  the flag of `phase4_controls`. `Nodes`, `Predecessors` and `MaxAttempts` are
  the plan `build_plan` writes for one or two subtasks; `MoveNode` is
  `transition_node` with all its guards.
* **Phase4Workflow** - `process[p]` is one run of `task start`, `task resume`
  or `task cancel`: `pc` names its next store or broker call, the other fields
  are the locals that survive from one call to the next (`from` the state it
  read, `seen` the node rows it read, `todo` the nodes its stage still has,
  `exec` and `verdict` the call in hand and what came of it). `worktree[t]` is
  the revision of the task's worktree. One action per store or broker call:
  `start` is `BeginStart` to `ReconcileFound`, `resume` is `BeginResume` to
  `RestoreNode`, `cancel` is `BeginCancel` to `CancelTask`; `_drive` is `Look`
  and the stages after it; `_execute_implementation` is `RunNode`, `Engine`
  (that is `_run_engine`), `EngineRefused` to `FailAssignment` for its handler,
  and `ParkNode` to `Adopt` for what follows the call. `Fail` is a kill at any
  point, or a call the store refuses where nothing catches it.
* **DeliveryWorkflow** - `process[p]` is one run of `run`, `resume` or
  `recover_review_format`, with the locals that survive a call as above
  (`attempt` is the repair count, `feedback` the revision a repair is told
  about). `run` is `Run` and `RecordWorkspace`, `resume` is `Resume`,
  `recover_review_format` is `BeginRecovery` to `Recover`; `_drive` is `Look` and
  what follows, `_run_engine` is `Reserve` to `CallRaises`.
* **ProviderRecords** - what a provider writes, as records of a kind with one
  telling word, and what `error_class`, the monitor, the two parsers and
  `normalize` make of a sequence of them: operators, no state.
* **ProcessTransport** - one call of `run_process` (`pc`, the deadlines
  `termAt` and `killAt`, the reason `stop`, the record `cancellation`) among a
  leader, a child in its group and a descendant outside of it that holds the
  pipes. These act by themselves; the transport launches, selects, reads,
  signals, cleans up and reaps.
* **ProviderCall** - `execute` around the transport: the gates before the
  launch, the result after it.
* **CallLedger** - abstract: calls that are out, lost or spent.
* **CandidatePipeline** - abstract: a candidate built, endorsed, checked,
  reviewed, packaged.
* **PlanGraph** - the validation of an execution plan as a search, one visit a
  step, and the edges `build_plan` writes.
* **GitBroker** - `log[w]` is the branch of a worktree, `index[w]` and `disk[w]`
  its index and files, `call[c]` a call as far as it has come.
  `ApplyWorkerChanges` and `Integrate` are the two operations up to their first
  write, with every refusal; then both are `WriteFile` for each file, `Stage`
  and `Commit`. `Raise` and `TearFile` end a call anywhere. `granted[w]` is a
  history variable for the scope property.
* **MCExecutionLedger**, **MCAuthRecovery**, **MCPhase4**, **MCDelivery**,
  **MCProviderCall**, **MCGitBroker** - instances for TLC.
* **ExecutionLedgerProofs** - theorems about `StoreSpec`;
  **AuthRecoveryProofs** about `AuthSpec`; **WorkflowProofs** about Phase 4's
  `WorkflowSpec`, **OneDriverProofs** about its `OneDriverSpec`;
  **DeliveryProofs** about the delivery's `OneDriverSpec`;
  **ProviderCallProofs** about `CallSpec`; **PlanGraphProofs** about the search;
  **GitBrokerProofs** about the broker.

Abstractions. Objectives, timestamps, versions, `next_action` and hashes are
left out. Reads (`task`, `snapshot`, `validate_approval`) are left out.
Evidence that `failed`, is `blocked` or `unverified` is one status, as no
operation tells them apart; likewise a login that failed, was cancelled or
timed out. The comparison of repository, worktree, branch, cleanliness and
manifest at checkpoint and resume only refuses calls and is assumed passed in
a call that happens; the comparison of heads and evidence is modelled. Ids
drawn by `uuid4` are never reused; evidence ids are chosen by callers and may
collide, store-wide. Event ids only refuse a repeated call. `still_running`
changes nothing and is no action. `ReconcileEnded` assumes the operator's
record is true: command and CLI are both gone. `auth-login` without
`--workflow` touches no store and is outside every property.

Of the workflow: reads that follow each other without a write between them are
one step, so are a read and the write it is for when the write checks the row
again, and submission, whose root is fresh. `CallOff` goes to the cancellation
of the task and ends there, where the code takes one more turn of its loop that
only finds the task at rest. Evidence that a verification was blocked is
`failed` evidence. The assignment worktrees of a decomposed plan, their
persisted identity and the plan row are left out: comparing them only refuses
a call, which a process may always meet (`Fail`). Of the Git broker
the workflows see what it promises: a commit or an integration yields the next
revision number, or is refused. A
verifier reports success only on the revision it was asked about; a reviewer
works on an exported snapshot and may report anything.

Of the delivery: the same, and there is no graph, no cancellation and no
restart. A process that is killed leaves the task where it is, for good unless
it was parked for a login or blocked by a malformed review, since no command
goes on with it. Packages on disk and the comparisons of files that only refuse
a recovery are left out.

Of a provider call: time is counted in ticks and passes while the transport
waits or reads, at most one at a time; output is read a record at a time; one
child of the leader is alive at a time. Processes may fall silent (alive with
their pipes closed). Writing to stdin, building arguments, usage figures and
the artifacts are left out: nothing is decided by them. A line of output is its
kind and the first category its text would be classified as.

Of the plan graph: nodes ready to be visited are taken in any order.

Of the Git broker: all trees have the same files, since a worker's copy with
others is refused and nothing else adds or removes one. A worker may have made
anything of its copy. A tree stands for its manifest (hashes do not collide) and
for the revision that commits it.

Mutated operators (each under a comment `Mutant: ...`) stand beside the
definition they are a wrong version of: substituting one for the other breaks
the property listed for it in `PROJECT.json`, which shows that the property
depends on that line of the code.

## Runs

| Run | Shows | Instance |
|---|---|---|
| `ledger` | counters agree with rows; reserves, concurrency and elapsed limit; uncertainty isolates; closed is closed; stale stays stale; the store implements CallLedger | 1 task, 3 calls, 2 at once, 4 calls and 5 seconds of budget, reports within and beyond the allocation; 2 revisions, 3 evidence ids, 1 approval; starts at `workspace_ready` with a passing check, or at `awaiting_pr_approval` with all evidence |
| `repairs` | evidence of every stage; repeated failures final; repairs bounded and paid for; dependencies stay reviewed | 2 tasks, the second waiting for the first, which starts under review with a passing check and goes to approval; 2 signatures, 1 repair, 3 evidence ids, 1 call |
| `auth` | one interactive login, one open session, checkpoints agree, parked tasks idle, a parked task resumes what was interrupted | 2 tasks being implemented, 1 account, 3 sessions, 2 calls, 2 revisions; restricted by the constraint `AtInterruptedStage` to the stages around the interruption |
| `stages` | what passed its verification is what is packaged (Phase 4 implements CandidatePipeline); stages follow nodes; a parked task's checkpoint names one node; types | 1 task with a single subtask, from submission; 3 commands one after the other, killed anywhere, cancellation at any time; 6 calls, 2 logins, 1 repair, 3 revisions |
| `drivers` | no node in two hands, at most one late start per command, every command ends | 1 decomposed task; 2 commands at once, killed anywhere; 3 calls, 1 login |
| `delivery` | Phase 3 implements CandidatePipeline; repairs are told of their own candidate; budget and names suffice; no finding is overridden; every step of a command nears its end, and every command ends | 1 task with Phase 3's own budget of 9 calls and 2 repairs, reports within the allocation and beyond it; 4 commands one after the other, killed anywhere; 2 logins, 4 revisions, 3 signatures |
| `calls` | a provider call returns in time, leaves nobody behind, grants the grace, says why it stopped, succeeds only if earned, asks for a login only if told to, ends | Codex; 4 records (a completed and a failed turn, an error event, a message that mentions a login); timeout and grace 1 tick, 2 records of output, pipes of 1 record |
| `git` | no commit leaves its scope; what is committed is what was made, or shows that it is not | 1 task's worktree and those of 2 assignments with overlapping scopes; 3 files, one protected, 2 contents; 4 calls one after the other, killed anywhere, in the middle of a file too |
| `terminal` (violation) | `reconcile_active` takes a cancelled task to blocked | 1 task, 1 call |
| `login_shared` (violation) | a login leaves a task of its account waiting | 2 tasks, 1 account, 2 sessions |
| `unverified_package` (violation) | a task is packaged at a head without a check | 1 task with a single subtask, 2 commands at once, 4 calls |
| `stale_approval` (violation) | an approval of an older head that is not stale | 1 task that waits for approval, 2 revisions |

Bounds. The id pools (`Executions`, `EvidenceIds`, `ApprovalIds`, `Sessions`,
`Signatures`) are the only bounds on histories; no counter is cut off. Three
calls are one more than may be outstanding at once, so slots are exhausted,
freed and taken again; the fourth call of the budget is the one the reserves
protect. Two signatures with one repair reach both the repeated failure and
the exhausted repair. Three evidence ids are what one pass to approval needs.
Three sessions let both tasks fail, be abandoned and claim again. Runs that do
not start at `StoreInit` start in a state the operations reach, to spend their
steps on what they are about. `CHECK_DEADLOCK FALSE` because a task ends in a
state with nothing left to do once the id pools are used up. Symmetry is
declared only for sets whose members no definition tells apart.

The workflow's instances take executions, sessions and processes in the order
of their numbers (`InOrder`), which stands for the symmetry that liveness
checking forbids. Six calls are a whole passage with one repair: assignment,
verification, review, repair, verification, review. Three commands are one that
is killed or parked, one that goes on and is killed in turn, and one that finds
what both left. Three calls are what two parts and one verification of a
decomposed plan take, or a part that is run again by the second command.

In `delivery`, nine calls are the longest path: implementation, verification
and review three times, and two repairs between them. Four commands are `run`,
two resumptions and a recovery. A call that fails may take three times what it
was given, so that reservations are refused for their time too, which is all that
`BudgetCoversPath` leaves to them. In `calls`, one record fits a pipe and two the
limit, so that output overflows while a pipe is full; pipes are not read any
longer once a kill was sent (`Linger` is 0), so that the cleanup is all that
follows; `Horizon` stops the clock one tick after the latest moment at which
`ReturnsInTime` lets a call end, so that a later end would be seen. Claude's
parser is in the module and in no run.

In `git`, four calls are the two assignments, one of them cut short, and their
integration. Calls are taken one after the other because `CommitsAreWhole` is
stated of that; that `CommitsAreScoped` holds of any number at once is proved.

`CandidateIsDelivered`, `StagesFollowNodes` and `CheckpointNamesNode` are
checked with one driver at a time (`SequentialSpec`, which is `OneDriverSpec`
with ids taken in order), cancellations apart: with
two at once none of them holds, since the second may run again a node the
first has just finished; `unverified_package` shows what that can come to. What
is checked of any number of drivers is in `drivers`.

Fairness. The store does nothing by itself: the store specifications have no
fairness. A command that is not killed goes on, so `FairWorkflowSpec` (and
`OrderedSpec`) has weak fairness of each process's `Step`, and of `Fail` where
its next call is refused (`RefusedFail`). That holds of the code because every
provider and verifier call has a timeout and every refused call raises.
The delivery's
`OrderedSpec` has the same. `CallSpec` has weak fairness of the transport's
steps and of `Finish`, and strong fairness of the passing of time where the
transport waits (`Waits`): the processes around it owe nothing, so that the call
must end whatever they do or omit.
Nothing is assumed of beginning a command, of cancelling, of operators or of
logins; killing is allowed and not required.

Refinements. `CallsAreAccounted` (*ExecutionLedger*) maps the rows to `out`,
`lost` and `spent` and is `CallLedger`'s specification: a call is launched once,
closed once and spent for ever, within its task's limits, and a restart loses
exactly the calls that are out. `CandidateIsDelivered`, in both workflows, maps
the task's state to a stage of `CandidatePipeline`, its worktree to `candidate`
and its head to `endorsed`: it is the one promise the two drivers share.

## Findings

* `controller-contracts.md:11` calls `blocked` and `cancelled` terminal.
  `reconcile_active` writes `blocked` over any state, and the review-format
  recovery leaves `blocked`. The recovery is deliberate, and the theorems
  below show it harmless to repeated failures and to evidence; the write over
  `cancelled` (and over `awaiting_pr_approval`) is a consequence of its not
  looking at the state.
* `controller-contracts.md:27` calls a login shared by the waiting tasks. Once
  a first login has failed, the next claim relinks only the caller's
  checkpoint, yet charges an attempt to all: another waiting task pays for a
  login that does not help it.
* `controller-contracts.md:43` says that `set_head` invalidates approvals of
  older heads. It marks the rows that are there; `record_user_approval` looks at
  the task before its transaction (`controller.py:1048`), so one that was under
  way inserts a fresh approval of the older head afterwards, which
  `validate_approval` accepts for that head. Nothing in the repository uses an
  approval to publish.
* `controller-contracts.md:43` also says that packaging checks current passing
  evidence. It adds evidence and checks none; that the head was verified rests
  on nobody moving it after the verification, which a second `task start` may
  do.

Observed, and left without a run:

* The driver looks at the cancellation flag before it moves a node and reserves
  its call, and the store does not look when the call is started: a cancellation
  in between lets one execution row go to `running` (`AtMostOneLateStart`). That
  is no launch: a live callback hands the flag to `run_process`, which reads it
  again and returns `cancelled-before-launch` (`process.py:45-49`), as
  `phase4-graph-routing.md:9` promises. Simulated callbacks do not look.
* After a bad exit status without a stop, `error_class` is given the whole
  stream, messages included (`adapters.py:247`), although
  `runtime-contracts.md:30` says that benign metadata must not trigger
  classification. `LoginFailureIsReported` is therefore stated for the other
  calls.
* A Phase 4 command killed while a node is `running` and no call is outstanding
  leaves a task that no command can drive further: a running node has no way
  back to running, every later `start` is refused, and only `task cancel`
  settles the task.
* Phase 4 gives a single-subtask plan eight calls by default, one less than the
  longest path with two repairs takes: the reserves refuse the last repair and
  the task is blocked. Phase 3's nine suffice (`BudgetCoversPath`).
* A call of the Git broker that is killed between `git add` and `git commit`
  leaves its files staged. `apply_worker_changes` does not look at cleanliness,
  so a later call with a narrower scope commits them as well, and a change that
  was written and not staged is left out because the files already agree with
  the worker's copy. `CommitsAreScoped` and `CommitsAreWhole` say what does
  hold. No workflow goes on with such a worktree: in Phase 4 the node stays
  `running`, in Phase 3 nothing goes on with the task.
* Phase 3's recovery of a review, killed between its two transactions, cannot
  be repeated: its evidence id is taken.

## Proofs

For every value of the constants that satisfies the modules' assumptions
(any number of tasks, any finite set of executions, any valid budget), checked
by TLAPS, as theorems of `StoreSpec`:

* *ExecutionLedgerProofs*: `StoreTypeCorrect`, `LedgerAgrees`. Typing alone is
  not inductive: that `reserved - 1` stays a natural number rests on the
  agreement with the rows, so the invariant is
  `Ledger == LedgerTypeOK /\ LedgerMatchesExecutions`. Every operation moves
  one execution between `Outstanding` and `Closed`, and the lemmas about `In`
  say how the cardinalities follow. With it `UncertaintyIsolated`,
  `ClosedCallsAreFinal`, `ConcurrencyIsBounded` and `ReservesAreKept`: the
  counters a guard looks at are equated with the rows by `Ledger`; the reserve
  invariant is carried along as `ReserveKept`, the isolation as `Isolates`.
  `TimeIsAccounted`: the sums of `ElapsedMatchesExecutions` are folds of the
  library, a recursion over sets. `SumIsUnits` equates such a fold with the
  cardinality of a set that has one unit for each that is summed, from the least
  counterexample in the order of finite sets, and from there on a row that comes
  in or goes out changes a sum as it changes a count (`TotalSame`, `TotalIn`).
  The invariant needs `Untimed`, that a call that is out has no time yet: a
  resolved uncertainty charges none and leaves the row's time as it is.
  `StoreAccountsForCalls`: every step of the store is a `Launch`, a `Close`, a
  `Restart` or a stutter of `CallLedger`; that a launch is within the limits
  rests on `LedgerAgrees`, that it follows no loss on `UncertaintyIsolated`.
  Of the tasks: `RepeatedFailuresAreFinal`, `DependenciesAreSettled`,
  `StagesAreEvidenced`. None is inductive because `blocked` can be left: the
  strengthenings (`FailureHistory`, `DependencyHistory`, `EvidenceHistory`)
  say what a task's last transition event tells of its past, which is exactly
  what the recovery checks before it leaves `blocked`. For `RepairsArePaidFor`
  the number of a task's repairs is set against the number of its signatures;
  `StaleIsForever` is an action property that every operation keeps.

Of `AuthSpec`, which contains the store:

* *AuthRecoveryProofs*: `AuthTypeCorrect`, `CheckpointsMatch`,
  `SessionsAreSingle`, `LoginsAreSingle`, `ParkedTasksAreIdle`,
  `ResumptionIsExact`. `InStep` says how a checkpoint's status follows its
  session's and is inductive by itself; with it `OneOpenSession` is. `Guarded`
  says that a command or a CLI is there only while its session is open, which
  with one open session gives one login. That a parked task is idle rests on
  the store alone, and that it resumes what was interrupted on all of this and
  on evidence ids being unique.

Of `WorkflowSpec`, any number of Phase 4 commands at once, each killed anywhere:

* *WorkflowProofs*: `WorkflowTypeCorrect`, `NodesAreLocked`,
  `LateStartsAreBounded`, `WorkflowKeepsStore`, `WorkflowResumesExactly`.
  First, a step of the workflow is to the store an operation of `AuthNext` or one
  of three the workflow adds (`Beyond`: submitting a task with its plan at once,
  asking all running calls of a task to stop, reporting a callback that raised),
  and these keep the store's invariant too. Types alone are not inductive:
  `InPlace` says what a process has in hand at each point (a task, a stage of
  ordinary nodes, a call, a verdict), and that it has a revision where it commits
  or records evidence rests on `HeadsKnown`, which says that a task past its
  workspace has a head. With that every step does one of four things to the
  nodes: it leaves them alone and holds none afterwards (`StandsBy`), leaves them
  alone and keeps the one in hand (`WorksOn`), starts one (`Takes`), or moves the
  one in hand, one back to pending or the integration, and holds none afterwards
  (`LetsGo`). The lock (`Locked`: a held node is running, and held once) is
  inductive over these four, since a running node can neither be started nor sent
  back to pending. For calls started late, `InTime` says that a process that started
  one stands at a point from which no other start can be reached while the flag is
  set, and the flag is never taken back (`FlagsStep`).

Of `OneDriverSpec`, the same with one start or resume at a time, each killed
anywhere, and cancellations at any time:

* *OneDriverProofs*: `StagesAreEarned`, `CheckpointsNameNodes`,
  `WorkflowDeliversCandidate`. `AllFit` relates
  the nodes of a task to the state it stands in (a parked task stands in the
  stage its checkpoint recorded), which `StagesFollowNodes` follows from at once.
  It is not inductive: a driver moves nodes and tasks by what it read some
  calls ago. `AllInStage` says what of that is still true at each of its points:
  the nodes before it belong to the stage its task is in, or the task was
  cancelled meanwhile; where it moves the task on, the nodes are as the next
  stage has them. A node of the task's own stage may be moved without disturbing
  `Fits` (`StageMayMove`), and what others do at the same time (submit, cancel,
  log in, kill) leaves a driver's knowledge true (`Meanwhile`). For the
  checkpoint, `AllNameCalls` follows a call from its reservation, when no node
  can have its number because every number in use has a row (`NodesUsed`,
  `CallsUsed`), to the checkpoint that names it.
  `WorkflowDeliversCandidate`: every step maps to a step of `CandidatePipeline` or
  to none. `AllWork` says what a driver knows of the candidate (from a commit to
  the record of it, `head` is the worktree's revision; from there to the verdict,
  the task's head; a verification that passed found the two equal) and of its
  calls: none is out when a driver moves its task on, unless a kill left one, and
  then the first thing a restarted driver does is to block the task. With
  `AllInStage` it shows every step to be of a kind (`Kinds`): the candidate is
  built or endorsed while nobody was promised it, a row of the transition table
  is taken with the candidate untouched, a task is parked, or tasks are blocked by
  a restart. Three facts about the past are carried along: a verification that
  succeeded was of the present head (`Checked`, with `VerifyIsEarned` for the step
  that settles it), a task whose last event blocked its review is still blocked
  (`HeldLast`), and a packaged task has no call out (`PackagedIdle`), which is why
  a restart never takes a package back. That a restart stops the candidates of
  several tasks in one step (`Stop`) shows in the proof only: the run has one task.

Of the delivery's `OneDriverSpec`, any number of commands and executions, one
command at a time, each killed anywhere, and logins at any time:

* *DeliveryProofs*: `DeliveryTypeCorrect`, `EvidenceNamesAreFresh`,
  `RepairsAddressHead`, `FindingsAreHeeded`, `BudgetSuffices`, `DrivesDescend`,
  `DeliveryDeliversCandidate`. The
  store's invariant carries over: all but two of the delivery's steps are
  operations of `AuthNext` (`StepMovesTask`, `StepWritesEvidence`,
  `StepHandlesCall`), and the two, `run`'s task that is contracted at once and a
  callback that raises, are shown to keep it (`BeyondTheStore`). What is added is
  in two halves. `Sound` says what the state of a task tells of its evidence and
  its worktree with nobody at work: what the candidate of that state has behind
  it (`Fits`), that evidence is named by its kind and by an attempt not above the
  present one (`Evidences`), and that the stage a parked task was interrupted in
  is still open (`Open`: the worktree is at the head, the evidence the stage will
  add is not there yet, and the failure a repair starts from is the latest one and
  is of this candidate). `Driving` says what the process at work may rely on
  at each of its points: in a turn (`InTurn`), that its stage is open and that its
  locals agree with the task; in a recovery (`InRecovery`), that the call it
  recovers is the last review. A kill leaves `Sound` and no more, which suffices
  because only a resumption and a recovery go on with such a task. That
  evidence names are fresh and that a repair is told of its own candidate are
  then `Open`; that no finding is overridden is the part of `Fits` for a reviewed
  candidate (`Excused`: no review of this head has failed, or the last review
  was rejected for its presentation and recovered). For `DeliveryDeliversCandidate` every
  step is mapped to a step of `CandidatePipeline` or to none; that a candidate is
  checked only where it is the head is `Open` again, and that a task blocked by its
  rejections is not taken for a held one is the last part of `Sound`.

  For `BudgetSuffices` the invariant bounds what a task that was never parked has
  spent (`Frugal`): three calls for every repair, and one for every stage of
  the present attempt that is behind it, so that at a reservation at most eight of
  the nine are gone and none of them to a reserve. Time goes the same way (`Timed`):
  no call is allotted more than `max_timeout`, and what was charged is at most what
  was allotted and what calls ran over.

  For `DrivesDescend`, `Rank` counts the repairs a command may still grant, then the
  stages ahead of its task, then the points left of its turn; each step is shown to
  lower the first of the three that it changes, within a stage (`WithinStage`)
  and between two (`BetweenStages`). That `DrivesEnd` follows takes the fairness
  of the steps, which is all of it the prover cannot reach.

  The assumptions are `DeliveryAssumption`, `OneTaskAssumption` (`run` makes its
  own workflow root, which gets one task, so that evidence named by attempts
  belongs to it) and `DeliveryBudgetAssumption`, the budget `run` gives its task
  (`delivery.py:418-422`).

Of `CallSpec`, for every timeout, grace and limit, and streams of every length:

* *ProviderCallProofs*: `CallTypeCorrect`, `CallsReturnInTime`,
  `NobodyIsLeftBehind`, `GraceIsAlwaysGranted`, `CancellationsTellStops`,
  `SuccessesAreEarned`, `LoginFailuresAreReported`. The invariant has a part for
  each: `Family` follows the leader, its group and its pipes to the end of the
  cleanup; `Timely` bounds the clock at each point by the deadlines set so far;
  `Granted` ties each kill to the moment of the first signal; `Told` and
  `Watched` tie the record of the cancellation and the monitor's verdict to the
  reason to stop; `Outcome` says what the result was made of. `Deadline` is what the
  proof of `CallsReturnInTime` takes: after the timeout and its grace, either the
  pipes are read on after a kill (`Linger`), or the loop ends without one and the
  cleanup grants the grace again, never both.

Of the plan graph's `Spec`, for every set of plans:

* *PlanGraphProofs*: `SearchDecides`, `SearchIsOrdered`, `BuiltPlansPass`. The
  invariant says that `normal` is what remains of the sources, that `ready` is
  what has none left, and that the visited nodes are untangled (every set of
  them has a member that depends on none of the set). If nothing is ready and
  nodes are left, the rest is the knot that refutes `Acyclic`.

Of the Git broker's `Spec`, for all trees, scopes and worktrees and any number
of calls at once:

* *GitBrokerProofs*: `BrokerTypeCorrect`, `CommitsKeepScope`. The invariant
  `Staged` says that where a worktree's index differs from its branch, whoever
  staged it was allowed to. `CommitsStayWhole` is of `OneCallSpec`, one call at
  a time: `Whole` follows a call from its first write to its commit. `Writing`
  says that what is still to be read is what was compared, `Complete` that the
  files are what was made, `Merging` that an integration found nothing staged
  besides. With two at once it is not so, because an
  integration reads the contributions' files after it compared them
  (`git_broker.py:212`).

Only model-checked: all liveness (`CommandsEnd`, `DrivesEnd`, `CallEnds`), as the
prover has neither ENABLED nor fairness; and the properties of the violations,
which the runs show false. Only proved: the plan graph, which is in no run;
`StoreTypeOK`, which no run checks but as a part of `WorkflowTypeOK`; `DeliveryTypeOK`
and `CallTypeOK`, which are in no run either.

## Not modelled

* *Git broker*: the making of repositories, worktrees and snapshots, the checks
  of names and paths, modes of files; the worktrees' files in the workflows'
  models, which see a revision or a refusal.
* *Phase 4 graph state*: the rows of the plan, its edges and skills, written
  once; the persisted identity of an assignment's worktree, whose comparison
  only refuses a resumption.
* *Contracts*: the validation of single contracts, routes, models and skills,
  and all of `runtime_contracts.py`: predicates on one record.
* *Several drivers of one Phase 3 task*: of two `resume` commands the store lets
  one through, but a driver that was parked and then reads the task again after
  another process resumed it would drive as well. The model has one command at
  a time.
* *Validation, pack, redaction, doctor, sandbox probe, fixtures, smoke,
  execution check*: one-shot functions of files and of the host; no state that
  a later step depends on.

## Plan

Two commands at once on one Phase 3 task; Claude's stream in a run.
