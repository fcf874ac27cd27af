------------------------------- MODULE GitBroker -------------------------------
(***************************************************************************)
(* The Git broker (agentkit/git_broker.py): how the changes of a worker    *)
(* reach the branch of a worktree, and how the branches of several         *)
(* assignments become one candidate.                                       *)
(*                                                                         *)
(* A call of the broker writes files one at a time, stages them and        *)
(* commits.  It may be killed, or time out, between any two of these and   *)
(* in the middle of a file, and undoes nothing: the next call finds what   *)
(* it left.  The calls of several commands may be at work at once.         *)
(*                                                                         *)
(* All trees have the files of the repository's seed: the broker refuses a *)
(* worker's copy with others, and adds and removes none itself.            *)
(***************************************************************************)
EXTENDS Naturals, Sequences, FiniteSets

CONSTANTS
  Paths,      \* the tracked files
  Contents,   \* what a file may contain
  Worktrees,  \* worktrees of one repository, all made at its base
  Base,       \* the tree of the base revision
  Scopes,     \* Scopes[w]: sets of paths an assignment may change in w
  Calls       \* calls of the broker that may be made

Tree == [Paths -> Contents]

Worker == "worker"  \* where a file comes from that no worktree is the source of

ASSUME BrokerAssumption ==
  /\ Base \in Tree
  /\ Worker \notin Worktrees
  /\ Scopes \in [Worktrees -> SUBSET SUBSET Paths]

VARIABLES
  log,     \* log[w]: the trees committed on w's branch, the base first
  index,   \* index[w]: the tree that is staged in w
  disk,    \* disk[w]: the files of w
  call,    \* call[c]: the call c, as far as it has come
  granted  \* history: paths that whoever staged in w since its last commit was allowed

vars == <<log, index, disk, call, granted>>

-----------------------------------------------------------------------------
CallRow ==
  [pc       : {"ready", "write", "stage", "commit", "returned", "raised"},
   worktree : Worktrees \cup {Worker},
   allowed  : SUBSET Paths,
   changed  : SUBSET Paths,
   todo     : SUBSET Paths,                      \* of these, still to be written
   source   : [Paths -> Worktrees \cup {Worker}],
   made     : Tree]                              \* the tree to come of it

BrokerTypeOK ==
  /\ log \in [Worktrees -> Seq(Tree)]
  /\ \A w \in Worktrees : log[w] # <<>>
  /\ index \in [Worktrees -> Tree] /\ disk \in [Worktrees -> Tree]
  /\ call \in [Calls -> CallRow]
  /\ granted \in [Worktrees -> SUBSET Paths]

Unmade == [pc |-> "ready", worktree |-> Worker, allowed |-> {}, changed |-> {}, todo |-> {},
           source |-> [p \in Paths |-> Worker], made |-> Base]

Init ==
  /\ log = [w \in Worktrees |-> <<Base>>]
  /\ index = [w \in Worktrees |-> Base] /\ disk = [w \in Worktrees |-> Base]
  /\ call = [c \in Calls |-> Unmade]
  /\ granted = [w \in Worktrees |-> {}]

Tip(w) == log[w][Len(log[w])]
Differ(a, b) == {p \in Paths : a[p] # b[p]}
Clean(w) == index[w] = Tip(w) /\ disk[w] = Tip(w)

Working(c) == call[c].pc \in {"write", "stage", "commit"}
Own(c) == call[c].worktree

\* A call that ends forgets its locals.
Ends(c, pc) == call' = [call EXCEPT ![c] = [Unmade EXCEPT !.pc = pc]]

-----------------------------------------------------------------------------
\* The worker's copy is compared with the files, whatever is committed.
ChangedBy(w, copy) == Differ(disk[w], copy)

\* Mutant: protected paths are not looked at.
AnyChange(changed, allowed) == changed # {}

WithinAllowed(changed, allowed) == changed # {} /\ changed \subseteq allowed

\* apply_worker_changes: a worker may have made anything of its copy.
ApplyWorkerChanges(c, w, copy, allowed) ==
  LET changed == ChangedBy(w, copy)
  IN /\ call[c].pc = "ready"
     /\ WithinAllowed(changed, allowed)
     /\ call' = [call EXCEPT ![c] =
          [pc |-> "write", worktree |-> w, allowed |-> allowed, changed |-> changed,
           todo |-> changed, source |-> [p \in Paths |-> Worker], made |-> copy]]
     /\ UNCHANGED <<log, index, disk, granted>>

Contributed(s) == Differ(Base, Tip(s))

\* Mutant: only the revision of a contribution is compared.
IsCommitted(s) == TRUE

\* A contribution declares the head of its branch, and its files are just that.
IsAsDeclared(s) == Clean(s)

\* integrate_contributions: parts[s] is what the assignment of s was allowed.
Integrate(c, w, parts) ==
  LET sources  == DOMAIN parts
      selected == UNION {Contributed(s) : s \in sources}
      source   == [p \in Paths |-> IF p \in selected
                     THEN CHOOSE s \in sources : p \in Contributed(s) ELSE Worker]
  IN /\ call[c].pc = "ready" /\ w \notin sources
     /\ Len(log[w]) = 1 /\ Clean(w)
     /\ \A s \in sources : IsAsDeclared(s) /\ WithinAllowed(Contributed(s), parts[s])
     /\ \A s, u \in sources : s # u => Contributed(s) \cap Contributed(u) = {}
     /\ selected # {}
     /\ call' = [call EXCEPT ![c] =
          [pc |-> "write", worktree |-> w, allowed |-> UNION {parts[s] : s \in sources},
           changed |-> selected, todo |-> selected, source |-> source,
           made |-> [p \in Paths |-> IF p \in selected THEN Tip(source[p])[p] ELSE Base[p]]]]
     /\ UNCHANGED <<log, index, disk, granted>>

\* A worker's files are fixed by now; a contribution's are read as they are.
Written(c, p) ==
  IF call[c].source[p] = Worker THEN call[c].made[p] ELSE disk[call[c].source[p]][p]

WriteFile(c, p) ==
  /\ call[c].pc = "write" /\ p \in call[c].todo
  /\ disk' = [disk EXCEPT ![Own(c)][p] = Written(c, p)]
  /\ call' = [call EXCEPT ![c].todo = @ \ {p},
                          ![c].pc = IF call[c].todo = {p} THEN "stage" ELSE "write"]
  /\ UNCHANGED <<log, index, granted>>

\* git add
Stage(c) ==
  LET w == Own(c)
  IN /\ call[c].pc = "stage"
     /\ index' = [index EXCEPT ![w] =
          [p \in Paths |-> IF p \in call[c].changed THEN disk[w][p] ELSE index[w][p]]]
     /\ granted' = [granted EXCEPT ![w] = @ \cup call[c].allowed]
     /\ call' = [call EXCEPT ![c].pc = "commit"]
     /\ UNCHANGED <<log, disk>>

\* git commit, which refuses when nothing is staged.
Commit(c) ==
  LET w == Own(c)
  IN /\ call[c].pc = "commit" /\ index[w] # Tip(w)
     /\ log' = [log EXCEPT ![w] = Append(@, index[w])]
     /\ granted' = [granted EXCEPT ![w] = {}]
     /\ Ends(c, "returned")
     /\ UNCHANGED <<index, disk>>

\* The call is killed, or a command of it is refused or times out.
Raise(c) ==
  /\ Working(c)
  /\ Ends(c, "raised")
  /\ UNCHANGED <<log, index, disk, granted>>

\* It is killed in the middle of a file.
TearFile(c, p, x) ==
  /\ call[c].pc = "write" /\ p \in call[c].todo
  /\ disk' = [disk EXCEPT ![Own(c)][p] = x]
  /\ Ends(c, "raised")
  /\ UNCHANGED <<log, index, granted>>

\* Some assignments, each with what it was allowed.
Parts ==
  UNION {{parts \in [S -> UNION {Scopes[s] : s \in S}] : \A s \in S : parts[s] \in Scopes[s]} :
           S \in SUBSET Worktrees}

Next ==
  \E c \in Calls :
    \/ \E w \in Worktrees, copy \in Tree :
         \E allowed \in Scopes[w] : ApplyWorkerChanges(c, w, copy, allowed)
    \/ \E w \in Worktrees, parts \in Parts : Integrate(c, w, parts)
    \/ \E p \in Paths : WriteFile(c, p) \/ \E x \in Contents : TearFile(c, p, x)
    \/ Stage(c) \/ Commit(c) \/ Raise(c)

Spec == Init /\ [][Next]_vars

\* One call at a time: those of one command.
OneCall == \A c, d \in Calls : Working(c) /\ Working(d) => c = d

OneCallSpec == Init /\ [][Next /\ OneCall']_vars

-----------------------------------------------------------------------------
(* Properties                                                              *)

\* A commit changes no path but those its own call, or calls that were cut
\* short before it and had staged their files, were allowed to change: what is
\* protected in an assignment stays as it was, whatever its worker made of it
\* and whatever other calls left half done.
CommitsAreScoped ==
  [][\A w \in Worktrees :
       log'[w] # log[w] => Differ(log[w][Len(log[w])], log'[w][Len(log'[w])]) \subseteq granted[w]]_vars

\* With one call at a time, an integration commits exactly the revisions it was
\* given, and what is committed for a worker is exactly what the worker made,
\* unless the worktree is visibly dirty afterwards (a call cut short had
\* written the same content without staging it).
CommitsAreWhole ==
  [][\A c \in Calls, w \in Worktrees :
       call[c].pc = "commit" /\ Own(c) = w /\ log'[w] # log[w] =>
         \/ Tip(w)' = call[c].made
         \/ (\A p \in Paths : call[c].source[p] = Worker) /\ ~Clean(w)']_vars
=============================================================================
