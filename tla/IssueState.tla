----------------------------- MODULE IssueState -----------------------------
(***************************************************************************)
(* What the parts of one issue's dispatch share: the issue and its pull    *)
(* request on GitHub, the issue's worktree and branch on the daemon's      *)
(* machine, and the daemon's place in the dispatch.  LaunchGate,           *)
(* WorkerRun and AfterRun each add the steps of one part; IssueRun puts    *)
(* them together.                                                          *)
(*                                                                         *)
(* A commit is the number of the moment it was made.  `head' is the tip of *)
(* the local issue branch, `pushed' the remote-tracking ref (what          *)
(* @{upstream} names: it moves when this machine pushes), `prHead' the tip *)
(* on GitHub.  0 is the feature branch, nothing ahead of it.               *)
(***************************************************************************)
EXTENDS Labels, Naturals, FiniteSets

CONSTANTS
  MaxCommits,     \* commits that may ever be made
  Possible,       \* the troubles that may happen: calls that fail, a crash, a human
  MaxTroubles     \* how many of them do

ASSUME SharedConstantsOK ==
  /\ MaxCommits \in Nat /\ MaxTroubles \in Nat /\ IsFiniteSet(Possible)

VARIABLES
  labels,         \* the issue's labels
  issueOpen,      \* nobody has closed it
  prOpen, prHead, \* the pull request of the issue's branch
  head, pushed,   \* the issue's branch here
  newest,         \* commits made so far
  wt,             \* the worktree .symphony/worktrees/<n>
  pc,             \* what the daemon is doing
  troubles,       \* how many troubles there have been
  happened        \* and which

github   == <<labels, issueOpen, prOpen, prHead>>
branch   == <<head, pushed, newest>>
trouble  == <<troubles, happened>>
shared   == <<github, branch, wt, pc, trouble>>

NoWorktree == [exists |-> FALSE, deps |-> FALSE, tripwire |-> FALSE,
               dirty |-> FALSE, sentinel |-> FALSE, rebasing |-> FALSE]
Worktrees  == [exists : BOOLEAN, deps : BOOLEAN, tripwire : BOOLEAN,
               dirty : BOOLEAN, sentinel : BOOLEAN, rebasing : BOOLEAN]
Commits    == 0..MaxCommits

Strikes(t) ==
  /\ t \in Possible /\ troubles < MaxTroubles
  /\ troubles' = troubles + 1 /\ happened' = happened \cup {t}

\* A call to the outside is answered, or fails.
Succeeds    == UNCHANGED trouble
Fails(call) == Strikes(call)

\* One gh issue edit: False, and nothing changed, when GitHub refuses.
LabelEdit(call, add, remove) ==
  \/ Succeeds /\ labels' = Edit(labels, add, remove)
  \/ Fails(call) /\ UNCHANGED labels

\* fetch_daemon_labels: the labels as they are, or None when gh fails or its
\* answer cannot be read.
ReadLabels(readable) == IF readable THEN Succeeds ELSE Fails("labels")

Goto(p) == pc' = p

SharedTypeOK ==
  /\ labels \subseteq AllLabels
  /\ issueOpen \in BOOLEAN /\ prOpen \in BOOLEAN /\ prHead \in Commits
  /\ head \in Commits /\ pushed \in Commits /\ newest \in Commits
  /\ wt \in Worktrees
  /\ troubles \in 0..MaxTroubles /\ happened \subseteq Possible
=============================================================================
