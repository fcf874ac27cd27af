---------------------------- MODULE GitBrokerProofs ----------------------------
(***************************************************************************)
(* The Git broker, for any files, worktrees and scopes.  That commits are  *)
(* scoped holds of any number of calls at once: what is staged and not yet *)
(* committed was granted (Staged), whatever became of the files since.     *)
(* That they are whole holds of one call at a time: the files already      *)
(* written are those of the tree to be made, and an integration finds its  *)
(* sources and its own worktree as it checked them (Writing, Merging).     *)
(***************************************************************************)
EXTENDS GitBroker, SequenceTheorems, TLAPS

-----------------------------------------------------------------------------
(* Types. *)

\* A worktree's branch has a tip.
LEMMA TipIsTree ==
  ASSUME BrokerTypeOK, NEW w \in Worktrees
  PROVE  Len(log[w]) \in Nat \ {0} /\ Tip(w) \in Tree /\ log[w] \in Seq(Tree)
<1>1. log[w] \in Seq(Tree) /\ log[w] # <<>>
  BY DEF BrokerTypeOK
<1>2. Len(log[w]) \in Nat \ {0} /\ Len(log[w]) \in DOMAIN log[w]
  BY <1>1, EmptySeq, LenProperties
<1> QED
  BY <1>1, <1>2, ElementOfSeq DEF Tip

\* A branch begins at the base; a call at work has its worktree and changes
\* what it was allowed.
Rooted == \A w \in Worktrees : log[w][1] = Base

Fitting(c) ==
  Working(c) =>
    /\ Own(c) \in Worktrees
    /\ call[c].todo \subseteq call[c].changed
    /\ call[c].changed \subseteq call[c].allowed

Types == BrokerTypeOK /\ Rooted /\ \A c \in Calls : Fitting(c)

\* A call that ends has forgotten everything, its row is one of the table.
LEMMA EndedRow ==
  ASSUME BrokerTypeOK, NEW c \in Calls, NEW pc \in {"returned", "raised"}, Ends(c, pc)
  PROVE  /\ call' \in [Calls -> CallRow]
         /\ call'[c].pc = pc
         /\ \A d \in Calls \ {c} : call'[d] = call[d]
<1>1. Base \in Tree
  BY BrokerAssumption
<1>2. [Unmade EXCEPT !.pc = pc] \in CallRow
  BY <1>1 DEF Unmade, CallRow
<1>3. ([Unmade EXCEPT !.pc = pc]).pc = pc
  BY DEF Unmade
<1> QED
  BY <1>2, <1>3 DEF Ends, BrokerTypeOK

\* What each kind of call begins with.
LEMMA ApplyRow ==
  ASSUME BrokerTypeOK, NEW c \in Calls, NEW w \in Worktrees, NEW copy \in Tree,
         NEW allowed \in Scopes[w], ApplyWorkerChanges(c, w, copy, allowed)
  PROVE  /\ call' \in [Calls -> CallRow]
         /\ call'[c].pc = "write" /\ call'[c].worktree = w
         /\ call'[c].allowed = allowed
         /\ call'[c].changed = Differ(disk[w], copy) /\ call'[c].todo = Differ(disk[w], copy)
         /\ call'[c].changed \subseteq allowed
         /\ call'[c].source = [p \in Paths |-> Worker] /\ call'[c].made = copy
         /\ \A d \in Calls \ {c} : call'[d] = call[d]
         /\ UNCHANGED <<log, index, disk, granted>>
<1> DEFINE row == [pc |-> "write", worktree |-> w, allowed |-> allowed,
                   changed |-> Differ(disk[w], copy), todo |-> Differ(disk[w], copy),
                   source |-> [p \in Paths |-> Worker], made |-> copy]
<1>1. allowed \subseteq Paths
  BY BrokerAssumption
<1>2. Differ(disk[w], copy) \subseteq Paths
  BY DEF Differ
<1>3. row \in CallRow
  BY <1>1, <1>2 DEF CallRow
<1>4. call' = [call EXCEPT ![c] = row] /\ Differ(disk[w], copy) \subseteq allowed
      /\ UNCHANGED <<log, index, disk, granted>>
  BY DEF ApplyWorkerChanges, ChangedBy, WithinAllowed
<1>5. call \in [Calls -> CallRow]
  BY DEF BrokerTypeOK
<1>6. call'[c] = row /\ \A d \in Calls \ {c} : call'[d] = call[d]
  BY <1>4, <1>5
<1> QED
  BY <1>3, <1>4, <1>5, <1>6

LEMMA IntegrateRow ==
  ASSUME BrokerTypeOK, Rooted, NEW c \in Calls, NEW w \in Worktrees, NEW parts \in Parts,
         Integrate(c, w, parts)
  PROVE  /\ call' \in [Calls -> CallRow]
         /\ call'[c].pc = "write" /\ call'[c].worktree = w
         /\ call'[c].changed \subseteq call'[c].allowed
         /\ call'[c].todo = call'[c].changed
         /\ \A p \in call'[c].changed :
              LET s == call'[c].source[p]
              IN s \in Worktrees \ {w} /\ Clean(s) /\ call'[c].made[p] = Tip(s)[p]
         /\ \A p \in Paths \ call'[c].changed : call'[c].made[p] = Base[p]
         /\ \A d \in Calls \ {c} : call'[d] = call[d]
         /\ Tip(w) = Base /\ Clean(w)
         /\ UNCHANGED <<log, index, disk, granted>>
<1> DEFINE sources == DOMAIN parts
           selected == UNION {Contributed(s) : s \in sources}
           given == UNION {parts[s] : s \in sources}
           source == [p \in Paths |-> IF p \in selected
                        THEN CHOOSE s \in sources : p \in Contributed(s) ELSE Worker]
           made == [p \in Paths |-> IF p \in selected THEN Tip(source[p])[p] ELSE Base[p]]
           row == [pc |-> "write", worktree |-> w, allowed |-> given, changed |-> selected,
                   todo |-> selected, source |-> source, made |-> made]
<1>1. sources \subseteq Worktrees /\ \A s \in sources : parts[s] \subseteq Paths
  <2>1. PICK S \in SUBSET Worktrees :
          /\ parts \in [S -> UNION {Scopes[s] : s \in S}]
          /\ \A s \in S : parts[s] \in Scopes[s]
    BY DEF Parts
  <2> QED
    BY <2>1, BrokerAssumption
<1>2. /\ w \notin sources /\ Len(log[w]) = 1 /\ Clean(w)
      /\ \A s \in sources : Clean(s) /\ Contributed(s) \subseteq parts[s]
      /\ call' = [call EXCEPT ![c] = row]
      /\ UNCHANGED <<log, index, disk, granted>>
  BY DEF Integrate, IsAsDeclared, WithinAllowed
<1>3. selected \subseteq given /\ given \subseteq Paths
  BY <1>1, <1>2
<1>4. ASSUME NEW p \in selected
      PROVE  source[p] \in sources
  <2>1. \E s \in sources : p \in Contributed(s)
    OBVIOUS
  <2>2. p \in Paths
    BY <1>3
  <2> HIDE DEF sources
  <2>3. (CHOOSE s \in sources : p \in Contributed(s)) \in sources
    BY <2>1
  <2> QED
    BY <2>2, <2>3
<1>5. source \in [Paths -> Worktrees \cup {Worker}]
  <2>1. ASSUME NEW p \in Paths PROVE source[p] \in Worktrees \cup {Worker}
    <3>1. CASE p \in selected
      BY <3>1, <1>4, <1>1
    <3>2. CASE p \notin selected
      BY <3>2
    <3> QED
      BY <3>1, <3>2
  <2> QED
    BY <2>1
<1>6. made \in Tree
  <2>1. ASSUME NEW p \in Paths PROVE made[p] \in Contents
    <3>1. CASE p \in selected
      <4>1. source[p] \in Worktrees
        BY <3>1, <1>4, <1>1
      <4>2. Tip(source[p]) \in Tree
        BY <4>1, TipIsTree
      <4> HIDE DEF source, selected
      <4> QED
        BY <3>1, <4>2 DEF Tree
    <3>2. CASE p \notin selected
      <4> HIDE DEF source, selected
      <4> QED
        BY <3>2, BrokerAssumption DEF Tree
    <3> QED
      BY <3>1, <3>2
  <2> HIDE DEF source, selected
  <2> QED
    BY <2>1 DEF Tree
<1>7. \A p \in selected : made[p] = Tip(source[p])[p]
  <2> HIDE DEF source
  <2> QED
    BY <1>3
<1>8. \A p \in Paths \ selected : made[p] = Base[p]
  <2> HIDE DEF source, selected
  <2> QED
    OBVIOUS
<1>9. Tip(w) = Base
  BY <1>2 DEF Tip, Rooted
<1> HIDE DEF sources, selected, given, source, made
<1>10. row \in CallRow
  BY <1>3, <1>5, <1>6 DEF CallRow
<1>11. call \in [Calls -> CallRow]
  BY DEF BrokerTypeOK
<1>12. /\ call' \in [Calls -> CallRow] /\ call'[c] = row
       /\ \A d \in Calls \ {c} : call'[d] = call[d]
  BY <1>2, <1>10, <1>11
<1>13. \A p \in selected :
         /\ source[p] \in Worktrees \ {w} /\ Clean(source[p])
         /\ made[p] = Tip(source[p])[p]
  BY <1>1, <1>2, <1>4, <1>7
<1> QED
  BY <1>2, <1>3, <1>8, <1>9, <1>12, <1>13

\* Every operation keeps the types.
LEMMA TypesStep == Types /\ [Next]_vars => Types'
<1> SUFFICES ASSUME Types, [Next]_vars PROVE Types'
  OBVIOUS
<1>1. BrokerTypeOK /\ Rooted /\ \A c \in Calls : Fitting(c)
  BY DEF Types
<1>2. call \in [Calls -> CallRow]
  BY <1>1 DEF BrokerTypeOK
\* What remains to be shown of a call that only moves on.
<1> DEFINE OthersStay(c) == \A d \in Calls \ {c} : call'[d] = call[d]
<1>3. ASSUME NEW c \in Calls, OthersStay(c), Fitting(c)'
      PROVE  \A d \in Calls : Fitting(d)'
  <2>1. ASSUME NEW d \in Calls, d # c PROVE Fitting(d)'
    <3>1. call'[d] = call[d] /\ Fitting(d)
      BY <1>1, <1>3, <2>1
    <3> QED
      BY <3>1 DEF Fitting, Working, Own
  <2> QED
    BY <1>3, <2>1
<1>4. ASSUME NEW c \in Calls, NEW w \in Worktrees, NEW copy \in Tree, NEW allowed \in Scopes[w],
             ApplyWorkerChanges(c, w, copy, allowed)
      PROVE  Types'
  <2>1. Fitting(c)'
    BY <1>1, <1>4, ApplyRow DEF Fitting, Own
  <2>2. BrokerTypeOK' /\ Rooted' /\ OthersStay(c)
    BY <1>1, <1>4, ApplyRow DEF BrokerTypeOK, Rooted
  <2> QED
    BY <1>3, <2>1, <2>2 DEF Types
<1>5. ASSUME NEW c \in Calls, NEW w \in Worktrees, NEW parts \in Parts, Integrate(c, w, parts)
      PROVE  Types'
  <2>1. Fitting(c)'
    BY <1>1, <1>5, IntegrateRow DEF Fitting, Own
  <2>2. BrokerTypeOK' /\ Rooted' /\ OthersStay(c)
    BY <1>1, <1>5, IntegrateRow DEF BrokerTypeOK, Rooted
  <2> QED
    BY <1>3, <2>1, <2>2 DEF Types
<1>6. ASSUME NEW c \in Calls, NEW p \in Paths, WriteFile(c, p)
      PROVE  Types'
  <2>1. Fitting(c) /\ Own(c) \in Worktrees /\ call[c] \in CallRow
    BY <1>1, <1>2, <1>6 DEF Fitting, Working, WriteFile
  <2>2. Written(c, p) \in Contents
    BY <1>1, <2>1, BrokerAssumption DEF Written, CallRow, Tree, BrokerTypeOK
  <2>3. disk' \in [Worktrees -> Tree]
    BY <1>1, <1>6, <2>1, <2>2 DEF WriteFile, BrokerTypeOK, Tree
  <2>4. /\ call' \in [Calls -> CallRow] /\ OthersStay(c)
        /\ call'[c].worktree = call[c].worktree /\ call'[c].changed = call[c].changed
        /\ call'[c].allowed = call[c].allowed /\ call'[c].todo \subseteq call[c].todo
    BY <1>2, <1>6, <2>1 DEF WriteFile, CallRow
  <2>5. Fitting(c)'
    BY <1>6, <2>1, <2>4 DEF Fitting, Own, Working, WriteFile
  <2>6. BrokerTypeOK' /\ Rooted'
    BY <1>1, <1>6, <2>3, <2>4 DEF BrokerTypeOK, Rooted, WriteFile
  <2> QED
    BY <1>3, <2>4, <2>5, <2>6 DEF Types
<1>7. ASSUME NEW c \in Calls, NEW p \in Paths, NEW x \in Contents, TearFile(c, p, x)
      PROVE  Types'
  <2>1. Own(c) \in Worktrees /\ Ends(c, "raised")
    BY <1>1, <1>7 DEF Fitting, Working, TearFile
  <2>2. disk' \in [Worktrees -> Tree]
    BY <1>1, <1>7, <2>1 DEF TearFile, BrokerTypeOK, Tree
  <2>3. call' \in [Calls -> CallRow] /\ call'[c].pc = "raised" /\ OthersStay(c)
    BY <1>1, <2>1, EndedRow
  <2>4. Fitting(c)'
    BY <2>3 DEF Fitting, Working
  <2>5. BrokerTypeOK' /\ Rooted'
    BY <1>1, <1>7, <2>2, <2>3 DEF BrokerTypeOK, Rooted, TearFile
  <2> QED
    BY <1>3, <2>3, <2>4, <2>5 DEF Types
<1>8. ASSUME NEW c \in Calls, Stage(c)
      PROVE  Types'
  <2>1. Fitting(c) /\ Own(c) \in Worktrees /\ call[c] \in CallRow
    BY <1>1, <1>2, <1>8 DEF Fitting, Working, Stage
  <2>2. index' \in [Worktrees -> Tree]
    BY <1>1, <1>8, <2>1 DEF Stage, BrokerTypeOK, Tree
  <2>3. granted' \in [Worktrees -> SUBSET Paths]
    BY <1>1, <1>8, <2>1 DEF Stage, BrokerTypeOK, CallRow
  <2>4. /\ call' \in [Calls -> CallRow] /\ OthersStay(c)
        /\ call'[c] = [call[c] EXCEPT !.pc = "commit"]
    BY <1>2, <1>8, <2>1 DEF Stage, CallRow
  <2>5. Fitting(c)'
    BY <1>8, <2>1, <2>4 DEF Fitting, Own, Working, Stage, CallRow
  <2>6. BrokerTypeOK' /\ Rooted'
    BY <1>1, <1>8, <2>2, <2>3, <2>4 DEF BrokerTypeOK, Rooted, Stage
  <2> QED
    BY <1>3, <2>4, <2>5, <2>6 DEF Types
<1>9. ASSUME NEW c \in Calls, Commit(c)
      PROVE  Types'
  <2>1. Own(c) \in Worktrees /\ Ends(c, "returned")
    BY <1>1, <1>9 DEF Fitting, Working, Commit
  <2>2. /\ log[Own(c)] \in Seq(Tree) /\ Len(log[Own(c)]) \in Nat \ {0}
        /\ index[Own(c)] \in Tree
    BY <1>1, <2>1, TipIsTree DEF BrokerTypeOK
  <2>3. /\ Append(log[Own(c)], index[Own(c)]) \in Seq(Tree)
        /\ Append(log[Own(c)], index[Own(c)]) # <<>>
        /\ Append(log[Own(c)], index[Own(c)])[1] = log[Own(c)][1]
    BY <2>2, AppendProperties, EmptySeq, LenProperties
  <2>4. /\ log' \in [Worktrees -> Seq(Tree)]
        /\ \A w \in Worktrees : log'[w] # <<>> /\ log'[w][1] = log[w][1]
    BY <1>1, <1>9, <2>1, <2>3 DEF Commit, BrokerTypeOK
  <2>5. granted' \in [Worktrees -> SUBSET Paths]
    BY <1>1, <1>9, <2>1 DEF Commit, BrokerTypeOK
  <2>6. call' \in [Calls -> CallRow] /\ call'[c].pc = "returned" /\ OthersStay(c)
    BY <1>1, <2>1, EndedRow
  <2>7. Fitting(c)'
    BY <2>6 DEF Fitting, Working
  <2>8. BrokerTypeOK' /\ Rooted'
    BY <1>1, <1>9, <2>4, <2>5, <2>6 DEF BrokerTypeOK, Rooted, Commit
  <2> QED
    BY <1>3, <2>6, <2>7, <2>8 DEF Types
<1>10. ASSUME NEW c \in Calls, Raise(c)
       PROVE  Types'
  <2>1. call' \in [Calls -> CallRow] /\ call'[c].pc = "raised" /\ OthersStay(c)
    BY <1>1, <1>10, EndedRow DEF Raise
  <2>2. Fitting(c)'
    BY <2>1 DEF Fitting, Working
  <2>3. BrokerTypeOK' /\ Rooted'
    BY <1>1, <1>10, <2>1 DEF BrokerTypeOK, Rooted, Raise
  <2> QED
    BY <1>3, <2>1, <2>2, <2>3 DEF Types
<1>11. CASE UNCHANGED vars
  BY <1>1, <1>11 DEF Types, vars, BrokerTypeOK, Rooted, Fitting, Working, Own
<1> QED
  BY <1>4, <1>5, <1>6, <1>7, <1>8, <1>9, <1>10, <1>11 DEF Next

LEMMA TypesInit == Init => Types
<1> SUFFICES ASSUME Init PROVE Types
  OBVIOUS
<1>1. Unmade \in CallRow /\ Unmade.pc = "ready"
  BY BrokerAssumption DEF Unmade, CallRow
<1>2. <<Base>> \in Seq(Tree) /\ <<Base>> # <<>> /\ <<Base>>[1] = Base
  BY BrokerAssumption
<1> QED
  BY <1>1, <1>2, BrokerAssumption DEF Init, Types, BrokerTypeOK, Rooted, Fitting, Working

\* The broker's worktrees, branches and calls are well-formed whatever is
\* killed: a branch is never empty, a row never names what is not there.
THEOREM BrokerTypeCorrect == Spec => []BrokerTypeOK
<1>1. Types => BrokerTypeOK
  BY DEF Types
<1> QED
  BY <1>1, TypesInit, TypesStep, PTL DEF Spec

-----------------------------------------------------------------------------
(* Scope, with any number of calls at once. *)

Staged == \A w \in Worktrees : Differ(Tip(w), index[w]) \subseteq granted[w]

\* A commit's tip is what was staged; other branches stay.
LEMMA CommitTip ==
  ASSUME Types, NEW c \in Calls, Commit(c), NEW w \in Worktrees
  PROVE  /\ w = Own(c) => Tip(w)' = index[w]
         /\ w # Own(c) => log'[w] = log[w]
<1>1. BrokerTypeOK /\ Own(c) \in Worktrees
  BY DEF Types, Fitting, Working, Commit
<1>2. log' = [log EXCEPT ![Own(c)] = Append(@, index[Own(c)])] /\ log \in [Worktrees -> Seq(Tree)]
  BY <1>1 DEF Commit, BrokerTypeOK
<1>3. ASSUME w = Own(c) PROVE Tip(w)' = index[w]
  <2>1. log'[w] = Append(log[w], index[w]) /\ log[w] \in Seq(Tree) /\ index[w] \in Tree
    BY <1>1, <1>2, <1>3 DEF BrokerTypeOK
  <2>2. Len(log'[w]) = Len(log[w]) + 1 /\ log'[w][Len(log[w]) + 1] = index[w]
    BY <2>1, AppendProperties
  <2> QED
    BY <2>2 DEF Tip
<1> QED
  BY <1>2, <1>3

LEMMA StagedStep == Types /\ Staged /\ [Next]_vars => Staged'
<1> SUFFICES ASSUME Types, Staged, [Next]_vars, NEW w \in Worktrees
             PROVE  Differ(Tip(w), index[w])' \subseteq granted'[w]
  BY DEF Staged
<1>1. BrokerTypeOK /\ Differ(Tip(w), index[w]) \subseteq granted[w]
  BY DEF Types, Staged
<1>2. CASE UNCHANGED <<log, index, granted>>
  BY <1>1, <1>2 DEF Tip, Differ
<1>3. ASSUME NEW c \in Calls, Stage(c)
      PROVE  Differ(Tip(w), index[w])' \subseteq granted'[w]
  <2>1. Own(c) \in Worktrees /\ call[c].changed \subseteq call[c].allowed
    BY <1>3 DEF Types, Fitting, Working, Stage
  <2>2. log' = log /\ Tip(w)' = Tip(w)
    BY <1>3 DEF Stage, Tip
  <2>3. CASE w = Own(c)
    <3>1. granted'[w] = granted[w] \cup call[c].allowed
      BY <1>1, <1>3, <2>1, <2>3 DEF Stage, BrokerTypeOK
    <3>2. \A p \in Paths : p \notin call[c].changed => index'[w][p] = index[w][p]
      BY <1>1, <1>3, <2>1, <2>3 DEF Stage, BrokerTypeOK
    <3> QED
      BY <1>1, <2>1, <2>2, <3>1, <3>2 DEF Differ
  <2>4. CASE w # Own(c)
    BY <1>1, <1>3, <2>1, <2>2, <2>4 DEF Stage, BrokerTypeOK, Differ
  <2> QED
    BY <2>3, <2>4
<1>4. ASSUME NEW c \in Calls, Commit(c)
      PROVE  Differ(Tip(w), index[w])' \subseteq granted'[w]
  <2>1. CASE w = Own(c)
    <3>1. Tip(w)' = index[w] /\ index' = index
      BY <1>4, <2>1, CommitTip DEF Commit
    <3> QED
      BY <3>1 DEF Differ
  <2>2. CASE w # Own(c)
    <3>1. log'[w] = log[w] /\ index' = index /\ granted'[w] = granted[w]
      BY <1>1, <1>4, <2>2, CommitTip DEF Commit, BrokerTypeOK
    <3> QED
      BY <1>1, <3>1 DEF Differ, Tip
  <2> QED
    BY <2>1, <2>2
<1>5. ASSUME NEW c \in Calls, ~Stage(c), ~Commit(c),
             \/ \E v \in Worktrees, copy \in Tree :
                  \E allowed \in Scopes[v] : ApplyWorkerChanges(c, v, copy, allowed)
             \/ \E v \in Worktrees, parts \in Parts : Integrate(c, v, parts)
             \/ \E p \in Paths : WriteFile(c, p) \/ \E x \in Contents : TearFile(c, p, x)
             \/ Raise(c)
      PROVE  UNCHANGED <<log, index, granted>>
  BY <1>5 DEF ApplyWorkerChanges, Integrate, WriteFile, TearFile, Raise
<1> QED
  BY <1>2, <1>3, <1>4, <1>5 DEF Next, vars

\* Only a commit moves a branch, and what it commits was staged.
LEMMA ScopedStep ==
  ASSUME Types, Staged, [Next]_vars, NEW w \in Worktrees, log'[w] # log[w]
  PROVE  Differ(log[w][Len(log[w])], log'[w][Len(log'[w])]) \subseteq granted[w]
<1>1. PICK c \in Calls : Commit(c)
  BY DEF Next, vars, ApplyWorkerChanges, Integrate, WriteFile, TearFile, Raise, Stage
<1>2. w = Own(c) /\ Tip(w)' = index[w]
  BY <1>1, CommitTip
<1>3. log'[w][Len(log'[w])] = index[w]
  BY <1>2 DEF Tip
<1> QED
  BY <1>3 DEF Staged, Tip

\* Whatever calls are at work at once and wherever they are killed, no commit
\* changes a path nobody who staged for it was allowed to change.
THEOREM CommitsKeepScope == Spec => CommitsAreScoped
<1>1. Init => Staged
  <2> SUFFICES ASSUME Init, NEW w \in Worktrees PROVE Differ(Tip(w), index[w]) = {}
    BY DEF Staged
  <2> QED
    BY DEF Init, Tip, Differ
<1>2. Types /\ Staged /\ [Next]_vars =>
        [\A w \in Worktrees : log'[w] # log[w] =>
           Differ(log[w][Len(log[w])], log'[w][Len(log'[w])]) \subseteq granted[w]]_vars
  BY ScopedStep
<1> QED
  BY <1>1, <1>2, TypesInit, TypesStep, StagedStep, PTL DEF Spec, CommitsAreScoped

-----------------------------------------------------------------------------
(* Wholeness, with one call at a time. *)

\* What is written is as it shall be, what is still to be written will be.
Writing(c) ==
  call[c].pc = "write" =>
    /\ \A p \in call[c].todo : Written(c, p) = call[c].made[p] /\ call[c].source[p] # Own(c)
    /\ \A p \in Paths \ call[c].todo : disk[Own(c)][p] = call[c].made[p]

Complete(c) == call[c].pc \in {"stage", "commit"} => disk[Own(c)] = call[c].made

\* An integration found nothing staged.
Merging(c) ==
  (\E p \in Paths : call[c].source[p] # Worker) =>
    /\ call[c].pc \in {"write", "stage"} =>
         \A p \in Paths \ call[c].changed : index[Own(c)][p] = call[c].made[p]
    /\ call[c].pc = "commit" => index[Own(c)] = call[c].made

Whole(c) == Working(c) => Writing(c) /\ Complete(c) /\ Merging(c)

\* After a step of c nobody else is at work.
LEMMA OneAtWork ==
  ASSUME OneCall, OneCall', NEW c \in Calls, Working(c) \/ Working(c)',
         \A d \in Calls \ {c} : call'[d] = call[d], Whole(c)'
  PROVE  \A d \in Calls : Whole(d)'
<1>1. ASSUME NEW d \in Calls, d # c PROVE ~Working(d)'
  BY <1>1 DEF OneCall, Working
<1> QED
  BY <1>1 DEF Whole

\* Two trees that differ nowhere are the same.
LEMMA SameTree ==
  ASSUME NEW a \in Tree, NEW b \in Tree, \A p \in Paths : a[p] = b[p]
  PROVE  a = b
BY DEF Tree

LEMMA ApplyIsWhole ==
  ASSUME Types, NEW c \in Calls, NEW w \in Worktrees, NEW copy \in Tree,
         NEW allowed \in Scopes[w], ApplyWorkerChanges(c, w, copy, allowed)
  PROVE  Whole(c)'
<1>1. BrokerTypeOK
  BY DEF Types
<1>2. /\ call'[c].pc = "write" /\ call'[c].worktree = w
      /\ call'[c].todo = Differ(disk[w], copy)
      /\ call'[c].source = [p \in Paths |-> Worker] /\ call'[c].made = copy
      /\ disk' = disk
  BY <1>1, ApplyRow
<1>3. call'[c].todo \subseteq Paths /\ w # Worker
  BY <1>2, BrokerAssumption DEF Differ
<1>4. Writing(c)'
  BY <1>2, <1>3 DEF Writing, Written, Differ, Own
<1>5. Complete(c)' /\ Merging(c)'
  BY <1>2 DEF Complete, Merging
<1> QED
  BY <1>4, <1>5 DEF Whole

LEMMA IntegrationIsWhole ==
  ASSUME Types, NEW c \in Calls, NEW w \in Worktrees, NEW parts \in Parts,
         Integrate(c, w, parts)
  PROVE  Whole(c)'
<1>1. BrokerTypeOK /\ Rooted
  BY DEF Types
<1>2. /\ call' \in [Calls -> CallRow]
      /\ call'[c].pc = "write" /\ call'[c].worktree = w
      /\ call'[c].todo = call'[c].changed
      /\ \A p \in call'[c].changed :
           /\ call'[c].source[p] \in Worktrees \ {w} /\ Clean(call'[c].source[p])
           /\ call'[c].made[p] = Tip(call'[c].source[p])[p]
      /\ \A p \in Paths \ call'[c].changed : call'[c].made[p] = Base[p]
      /\ Tip(w) = Base /\ Clean(w)
      /\ UNCHANGED <<log, index, disk, granted>>
  BY <1>1, IntegrateRow
<1>3. ASSUME NEW p \in call'[c].todo
      PROVE  Written(c, p)' = call'[c].made[p] /\ call'[c].source[p] # w
  <2> DEFINE s == call'[c].source[p]
  <2>1. s \in Worktrees /\ s # w /\ disk[s] = Tip(s) /\ call'[c].made[p] = Tip(s)[p]
    BY <1>2, <1>3 DEF Clean
  <2>2. s # Worker
    BY <2>1, BrokerAssumption
  <2>3. Written(c, p)' = disk[s][p]
    BY <1>2, <2>2 DEF Written
  <2> QED
    BY <2>1, <2>3
<1>4. Writing(c)'
  BY <1>2, <1>3 DEF Writing, Own, Clean
<1>5. Complete(c)' /\ Merging(c)'
  BY <1>2 DEF Complete, Merging, Own, Clean
<1> QED
  BY <1>4, <1>5 DEF Whole

LEMMA WriteKeepsWhole ==
  ASSUME Types, NEW c \in Calls, Whole(c), NEW p \in Paths, WriteFile(c, p)
  PROVE  Whole(c)'
<1>1. /\ BrokerTypeOK /\ Own(c) \in Worktrees /\ call[c] \in CallRow
      /\ call[c].pc = "write" /\ p \in call[c].todo
  BY DEF Types, Fitting, Working, WriteFile, BrokerTypeOK
<1>2. Writing(c) /\ Merging(c)
  BY <1>1 DEF Whole, Working
<1> DEFINE w == Own(c)
           made == call[c].made
<1>3. /\ call'[c] = [call[c] EXCEPT !.todo = @ \ {p},
                       !.pc = IF call[c].todo = {p} THEN "stage" ELSE "write"]
      /\ index' = index
  BY <1>1 DEF WriteFile, BrokerTypeOK
<1>4. /\ call'[c].worktree = w /\ call'[c].made = made /\ call'[c].changed = call[c].changed
      /\ call'[c].source = call[c].source /\ call'[c].todo = call[c].todo \ {p}
      /\ call'[c].pc = IF call[c].todo = {p} THEN "stage" ELSE "write"
  BY <1>1, <1>3 DEF CallRow, Own
<1>5. /\ \A q \in Paths : disk'[w][q] = IF q = p THEN Written(c, p) ELSE disk[w][q]
      /\ \A s \in Worktrees \ {w} : disk'[s] = disk[s]
      /\ Written(c, p) = made[p]
  BY <1>1, <1>2 DEF WriteFile, BrokerTypeOK, Tree, Writing
<1>6. \A q \in Paths \ call'[c].todo : disk'[w][q] = made[q]
  BY <1>1, <1>2, <1>4, <1>5 DEF Writing
<1>7. ASSUME NEW q \in call'[c].todo
      PROVE  Written(c, q)' = made[q] /\ call'[c].source[q] # w
  <2>1. q \in call[c].todo /\ q \in Paths
    BY <1>1, <1>4, <1>7 DEF CallRow
  <2>2. Written(c, q) = made[q] /\ call[c].source[q] # w
    BY <1>1, <1>2, <2>1 DEF Writing
  <2>3. call[c].source[q] \in Worktrees \cup {Worker}
    BY <1>1, <2>1 DEF CallRow
  <2>4. Written(c, q)' = Written(c, q)
    BY <1>4, <1>5, <2>2, <2>3 DEF Written
  <2> QED
    BY <1>4, <2>2, <2>4
<1>8. Writing(c)'
  BY <1>4, <1>6, <1>7 DEF Writing, Own
<1>9. Complete(c)'
  <2>1. ASSUME call'[c].pc \in {"stage", "commit"} PROVE disk'[w] = made
    <3>1. call'[c].todo = {}
      BY <1>4, <2>1
    <3>2. \A q \in Paths : disk'[w][q] = made[q]
      BY <1>6, <3>1
    <3>3. disk'[w] \in Tree /\ made \in Tree
      BY <1>1, TypesStep DEF Types, BrokerTypeOK, Next, CallRow
    <3> QED
      BY <3>2, <3>3, SameTree
  <2> QED
    BY <1>4, <2>1 DEF Complete, Own
<1>10. Merging(c)'
  BY <1>1, <1>2, <1>3, <1>4 DEF Merging, Own
<1> QED
  BY <1>8, <1>9, <1>10 DEF Whole

LEMMA StageKeepsWhole ==
  ASSUME Types, NEW c \in Calls, Whole(c), Stage(c)
  PROVE  Whole(c)'
<1>1. /\ BrokerTypeOK /\ Own(c) \in Worktrees /\ call[c] \in CallRow
      /\ call[c].pc = "stage"
  BY DEF Types, Fitting, Working, Stage, BrokerTypeOK
<1>2. Complete(c) /\ Merging(c)
  BY <1>1 DEF Whole, Working
<1>3. call'[c] = [call[c] EXCEPT !.pc = "commit"] /\ disk' = disk
  BY <1>1 DEF Stage, BrokerTypeOK
<1>4. /\ call'[c].pc = "commit" /\ call'[c].worktree = call[c].worktree
      /\ call'[c].made = call[c].made /\ call'[c].source = call[c].source
  BY <1>1, <1>3 DEF CallRow
<1>5. Writing(c)' /\ Complete(c)'
  BY <1>1, <1>2, <1>3, <1>4 DEF Writing, Complete, Own
<1>6. ASSUME \E p \in Paths : call[c].source[p] # Worker
      PROVE  index'[Own(c)] = call[c].made
  <2>1. \A p \in Paths :
          index'[Own(c)][p] = IF p \in call[c].changed THEN disk[Own(c)][p] ELSE index[Own(c)][p]
    BY <1>1 DEF Stage, BrokerTypeOK
  <2>2. \A p \in Paths : index'[Own(c)][p] = call[c].made[p]
    BY <1>1, <1>2, <1>6, <2>1 DEF Complete, Merging
  <2>3. index'[Own(c)] \in Tree /\ call[c].made \in Tree
    BY <1>1, TypesStep DEF Types, BrokerTypeOK, Next, CallRow
  <2> QED
    BY <2>2, <2>3, SameTree
<1>7. Merging(c)'
  BY <1>4, <1>6 DEF Merging, Own
<1> QED
  BY <1>5, <1>7 DEF Whole

AllWhole == OneCall /\ \A c \in Calls : Whole(c)

LEMMA WholeStep == Types /\ AllWhole /\ [Next /\ OneCall']_vars => AllWhole'
<1> SUFFICES ASSUME Types, AllWhole, [Next /\ OneCall']_vars PROVE AllWhole'
  OBVIOUS
<1>1. BrokerTypeOK /\ OneCall /\ \A c \in Calls : Whole(c)
  BY DEF Types, AllWhole
<1> DEFINE OthersStay(c) == \A d \in Calls \ {c} : call'[d] = call[d]
<1>2. ASSUME OneCall', NEW c \in Calls, Working(c) \/ Working(c)', OthersStay(c), Whole(c)'
      PROVE  AllWhole'
  BY <1>1, <1>2, OneAtWork DEF AllWhole
\* A call that ends is whole: it is not at work any more.
<1>3. ASSUME OneCall', NEW c \in Calls, Working(c), NEW pc \in {"returned", "raised"}, Ends(c, pc)
      PROVE  AllWhole'
  <2>1. call'[c].pc = pc /\ OthersStay(c)
    BY <1>1, <1>3, EndedRow
  <2>2. Whole(c)'
    BY <2>1 DEF Whole, Working
  <2> QED
    BY <1>2, <1>3, <2>1, <2>2
<1>4. ASSUME OneCall', NEW c \in Calls, NEW w \in Worktrees, NEW copy \in Tree,
             NEW allowed \in Scopes[w], ApplyWorkerChanges(c, w, copy, allowed)
      PROVE  AllWhole'
  <2>1. Working(c)' /\ OthersStay(c)
    BY <1>1, <1>4, ApplyRow DEF Working
  <2> QED
    BY <1>2, <1>4, <2>1, ApplyIsWhole
<1>5. ASSUME OneCall', NEW c \in Calls, NEW w \in Worktrees, NEW parts \in Parts,
             Integrate(c, w, parts)
      PROVE  AllWhole'
  <2>1. Working(c)' /\ OthersStay(c)
    BY <1>1, <1>5, IntegrateRow DEF Types, Working
  <2> QED
    BY <1>2, <1>5, <2>1, IntegrationIsWhole
<1>6. ASSUME OneCall', NEW c \in Calls, NEW p \in Paths, WriteFile(c, p)
      PROVE  AllWhole'
  <2>1. Working(c) /\ OthersStay(c)
    BY <1>1, <1>6 DEF Working, WriteFile, BrokerTypeOK
  <2> QED
    BY <1>1, <1>2, <1>6, <2>1, WriteKeepsWhole
<1>7. ASSUME OneCall', NEW c \in Calls, Stage(c)
      PROVE  AllWhole'
  <2>1. Working(c) /\ OthersStay(c)
    BY <1>1, <1>7 DEF Working, Stage, BrokerTypeOK
  <2> QED
    BY <1>1, <1>2, <1>7, <2>1, StageKeepsWhole
<1>8. ASSUME OneCall', NEW c \in Calls, NEW p \in Paths, NEW x \in Contents, TearFile(c, p, x)
      PROVE  AllWhole'
  BY <1>3, <1>8 DEF TearFile, Working
<1>9. ASSUME OneCall', NEW c \in Calls, Commit(c) PROVE AllWhole'
  BY <1>3, <1>9 DEF Commit, Working
<1>10. ASSUME OneCall', NEW c \in Calls, Raise(c) PROVE AllWhole'
  BY <1>3, <1>10 DEF Raise
<1>11. CASE UNCHANGED vars
  BY <1>1, <1>11 DEF vars, AllWhole, OneCall, Whole, Working, Writing, Complete, Merging, Written, Own
<1> QED
  BY <1>4, <1>5, <1>6, <1>7, <1>8, <1>9, <1>10, <1>11 DEF Next

\* What is committed is what was to be made, or the files show that it is not.
LEMMA CommitIsWhole ==
  ASSUME Types, AllWhole, [Next /\ OneCall']_vars, NEW c \in Calls, NEW w \in Worktrees,
         call[c].pc = "commit", Own(c) = w, log'[w] # log[w]
  PROVE  \/ Tip(w)' = call[c].made
         \/ (\A p \in Paths : call[c].source[p] = Worker) /\ ~Clean(w)'
<1>1. PICK d \in Calls : Commit(d)
  BY DEF Next, vars, ApplyWorkerChanges, Integrate, WriteFile, TearFile, Raise, Stage
<1>2. d = c
  BY <1>1 DEF AllWhole, OneCall, Working, Commit
<1>3. Tip(w)' = index[w] /\ disk' = disk
  BY <1>1, <1>2, CommitTip DEF Commit
<1>4. Complete(c) /\ Merging(c)
  BY DEF AllWhole, Whole, Working
<1>5. CASE \E p \in Paths : call[c].source[p] # Worker
  BY <1>3, <1>4, <1>5 DEF Merging
<1>6. CASE \A p \in Paths : call[c].source[p] = Worker
  <2>1. disk'[w] = call[c].made
    BY <1>3, <1>4 DEF Complete
  <2>2. Clean(w)' => disk'[w] = Tip(w)'
    BY DEF Clean
  <2> QED
    BY <1>6, <2>1, <2>2
<1> QED
  BY <1>5, <1>6

\* One call at a time, killed anywhere: an integration commits the revisions it
\* was given, and a worker's commit is the worker's copy unless the worktree is
\* dirty afterwards.
THEOREM CommitsStayWhole == OneCallSpec => CommitsAreWhole
<1>1. Init => AllWhole
  BY DEF Init, AllWhole, OneCall, Whole, Working, Unmade
<1>2. Types /\ [Next /\ OneCall']_vars => Types'
  BY TypesStep
<1>3. Types /\ AllWhole /\ [Next /\ OneCall']_vars =>
        [\A c \in Calls, w \in Worktrees :
           call[c].pc = "commit" /\ Own(c) = w /\ log'[w] # log[w] =>
             \/ Tip(w)' = call[c].made
             \/ (\A p \in Paths : call[c].source[p] = Worker) /\ ~Clean(w)']_vars
  BY CommitIsWhole
<1> QED
  BY <1>1, <1>2, <1>3, TypesInit, WholeStep, PTL DEF OneCallSpec, CommitsAreWhole
=============================================================================
