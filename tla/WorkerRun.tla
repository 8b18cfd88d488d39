----------------------------- MODULE WorkerRun ------------------------------
(***************************************************************************)
(* Orchestrator._run_worker (vendor/symphony/orchestrator.py): the         *)
(* worktree and its one-time set-up, the rebase before the run, the turns  *)
(* with the probes between them, the after_run hook, and the result.  The  *)
(* worktree outlives the run, and so does whatever an earlier run left in  *)
(* it.  External: the worker itself, any of whose turns may commit, push,  *)
(* open a pull request, edit files, label the issue blocked or try to      *)
(* merge, in any combination the earlier state allows.                     *)
(***************************************************************************)
EXTENDS AfterRun

CONSTANT MaxTurns        \* agent.max_turns

ASSUME TurnsOK == MaxTurns \in Nat \ {0}

VARIABLES
  turn,       \* the turn under way, or 0
  latched,    \* pr_detected
  raised,     \* the last turn failed: the run raises once the hook is through
  behind,     \* the feature branch has moved since the issue branch's base
  mentioned   \* another open pull request mentions #<n>

run == <<turn, latched, raised>>
world == <<behind, mentioned>>
runVars == <<run, world>>

RunEnds == turn' = 0 /\ latched' = FALSE /\ raised' = FALSE

\* An exception of _run_worker: the daemon charges the attempt.
Raise == Goto("charged") /\ RunEnds

RunGoes(p) == Goto(p) /\ UNCHANGED run

\* A directory that is there is reused as it is.  Otherwise git adds one, on a
\* new branch at the feature branch's tip, or on the issue's branch if it
\* exists; creating it, and only that, runs after_create.
EnsureWorktree ==
  /\ pc = "worktree"
  /\ \/ wt.exists /\ Succeeds /\ UNCHANGED wt /\ RunGoes("rebase")
     \/ ~ wt.exists /\ Succeeds /\ wt' = [NoWorktree EXCEPT !.exists = TRUE]
          /\ RunGoes("install")
     \/ ~ wt.exists /\ Fails("worktree") /\ UNCHANGED wt /\ Raise
  /\ UNCHANGED <<github, branch, world>>

\* bh-after-create: dependencies first, then the settings with the
\* force-pr-not-merge hook; the first failure ends it and the run.
Install ==
  /\ pc = "install"
  /\ \/ Succeeds /\ wt' = [wt EXCEPT !.deps = TRUE] /\ RunGoes("settings")
     \/ Fails("create") /\ UNCHANGED wt /\ Raise
  /\ UNCHANGED <<github, branch, world>>

WriteSettings ==
  /\ pc = "settings"
  /\ \/ Succeeds /\ wt' = [wt EXCEPT !.tripwire = TRUE] /\ RunGoes("rebase")
     \/ Fails("create") /\ UNCHANGED wt /\ Raise
  /\ UNCHANGED <<github, branch, world>>

\* bh-before-run onto the cut point.  git refuses with tracked changes or a
\* rebase under way; a branch that is behind gets new commits or conflicts.
CanRebase == ~ wt.dirty /\ ~ wt.rebasing

Rebase ==
  /\ pc = "rebase"
  /\ \/ /\ CanRebase /\ Succeeds
        /\ IF behind /\ head # 0 /\ newest < MaxCommits
             THEN head' = newest + 1 /\ newest' = newest + 1
             ELSE UNCHANGED <<head, newest>>
        /\ behind' = FALSE
        /\ Goto("turn") /\ turn' = 1 /\ UNCHANGED <<latched, raised, wt, pushed>>
     \/ /\ CanRebase /\ behind /\ head # 0 /\ Fails("conflict")
        /\ wt' = [wt EXCEPT !.rebasing = TRUE] /\ RunGoes("abort")
        /\ UNCHANGED <<branch, behind>>
     \/ /\ ~ CanRebase /\ Succeeds /\ RunGoes("abort") /\ UNCHANGED <<branch, behind, wt>>
     \/ /\ CanRebase /\ Fails("beforerun") /\ Raise
        /\ wt' \in IF behind /\ head # 0 THEN {wt, [wt EXCEPT !.rebasing = TRUE]} ELSE {wt}
        /\ UNCHANGED <<branch, behind>>
  /\ UNCHANGED <<github, mentioned>>

\* The abort restores the branch; its own failure is not looked at.
AbortRebase ==
  /\ pc = "abort"
  /\ \/ Succeeds /\ wt' = [wt EXCEPT !.rebasing = FALSE]
     \/ wt.rebasing /\ Fails("abort") /\ UNCHANGED wt
  /\ Raise
  /\ UNCHANGED <<github, branch, world>>

\* What the worker may do in a turn, in this order: label the issue, edit and
\* commit, push what it has or had, open a pull request for what is pushed, and
\* run into the force-pr-not-merge hook, where that is installed.
WorkerActs ==
  \E commits, dirty, opens, blocks, merges \in BOOLEAN :
    /\ (commits => newest < MaxCommits) /\ (merges => wt.tripwire)
    /\ head'   = IF commits THEN newest + 1 ELSE head
    /\ newest' = IF commits THEN newest + 1 ELSE newest
    /\ pushed' \in {pushed, head, head'}
    /\ prHead' = IF pushed' = pushed THEN prHead ELSE pushed'
    /\ opens => pushed' # 0
    /\ prOpen' = (prOpen \/ opens)
    /\ labels' = IF blocks THEN labels \cup {Blocked} ELSE labels
    /\ wt' = [wt EXCEPT !.dirty = dirty, !.sentinel = @ \/ merges]

\* run_turn without success: the claude command was killed at the turn's timeout,
\* said that it failed, or left with a non-zero status.
TurnFails == Goto("after") /\ raised' = TRUE

Turn ==
  /\ pc = "turn"
  /\ WorkerActs
  /\ (Goto("state") /\ UNCHANGED raised) \/ TurnFails
  /\ UNCHANGED <<turn, latched, issueOpen, world, trouble>>

\* Mutant of NextTurn: one turn too many.
NextTurnOneMore ==
  IF turn <= MaxTurns THEN Goto("turn") /\ turn' = turn + 1 /\ UNCHANGED <<latched, raised>>
                      ELSE RunGoes("after")

\* max_turns ends the loop, with whatever the worker has done by then.
NextTurn ==
  IF turn < MaxTurns THEN Goto("turn") /\ turn' = turn + 1 /\ UNCHANGED <<latched, raised>>
                     ELSE RunGoes("after")

\* fetch_issue_state: unreadable or closed ends the loop.
CheckState ==
  /\ pc = "state"
  /\ \/ Succeeds /\ RunGoes(IF issueOpen THEN "labels" ELSE "after")
     \/ Fails("state") /\ RunGoes("after")
  /\ UNCHANGED <<github, branch, wt, world>>

\* The exclude-label check: unreadable labels do not end the loop.
CheckLabels ==
  /\ pc = "labels"
  /\ \/ Succeeds /\ RunGoes(IF Blocked \in labels THEN "after" ELSE "prprobe")
     \/ Fails("runlabels") /\ RunGoes("prprobe")
  /\ UNCHANGED <<github, branch, wt, world>>

\* check_pr_exists: any open pull request of the issue's branch or with #<n> in
\* its text; False when GitHub cannot be asked.
SeesPR == prOpen \/ mentioned

ProbePR ==
  /\ pc = "prprobe"
  /\ \/ SeesPR /\ Succeeds /\ RunGoes("clean")
     \/ ~ SeesPR /\ Succeeds /\ NextTurn
     \/ SeesPR /\ Fails("runprs") /\ NextTurn
  /\ UNCHANGED <<github, branch, wt, world>>

\* The early exit takes a clean worktree with nothing ahead of its upstream; a
\* branch without upstream makes git fail, and the loop goes on.
CheckClean ==
  /\ pc = "clean"
  /\ IF wt.dirty \/ pushed = 0 \/ head # pushed THEN NextTurn
     ELSE Goto("after") /\ latched' = TRUE /\ UNCHANGED <<turn, raised>>
  /\ UNCHANGED <<github, branch, wt, world, trouble>>

\* run_hook(after_run): at most one hook at a time, see the README.
After ==
  /\ pc = "after" /\ hook = "off"
  /\ StartHook
  /\ RunGoes("waiting")
  /\ UNCHANGED <<github, branch, wt, world, trouble>>

\* Whatever the hook returns, and whether it returned in time, the result does
\* not depend on it.
HookReturns ==
  /\ pc = "waiting"
  /\ \/ hook = "off" /\ Succeeds /\ UNCHANGED hookVars
     \/ hook # "off" /\ Fails("hooktimeout") /\ stray' = TRUE
          /\ UNCHANGED <<hook, outcome, lookups, seen>>
  /\ IF raised THEN Raise
     ELSE IF latched THEN Goto("pr_created") /\ RunEnds
     ELSE RunGoes("postprobe")
  /\ UNCHANGED <<github, branch, wt, world>>

PostProbe ==
  /\ pc = "postprobe"
  /\ \/ Succeeds /\ Goto(IF SeesPR THEN "pr_created" ELSE "no_pr")
     \/ SeesPR /\ Fails("runprs") /\ Goto("no_pr")
  /\ RunEnds
  /\ UNCHANGED <<github, branch, wt, world>>

RunInit ==
  /\ turn = 0 /\ latched = FALSE /\ raised = FALSE
  /\ behind = FALSE /\ mentioned = FALSE

\* The steps that leave the hook alone, and those that do not.
RunStep == EnsureWorktree \/ Install \/ WriteSettings \/ Rebase \/ AbortRebase \/ Turn
           \/ CheckState \/ CheckLabels \/ ProbePR \/ CheckClean \/ PostProbe
HookCall == After \/ HookReturns

RunTypeOK ==
  /\ turn \in 0..MaxTurns
  /\ latched \in BOOLEAN /\ raised \in BOOLEAN
  /\ behind \in BOOLEAN /\ mentioned \in BOOLEAN
=============================================================================
