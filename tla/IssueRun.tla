------------------------------ MODULE IssueRun ------------------------------
(***************************************************************************)
(* The whole life of one issue, from its greenlight to its merge: the      *)
(* daemon's claim, the launch gate, the worker's run and its hook, what    *)
(* the daemon makes of the result (chain/daemon/work_unit.py), the CI gate *)
(* and the park (chain/daemon/park.py).  WorkUnit treats one dispatch as a *)
(* handful of steps and other issues in full; here one issue has no        *)
(* neighbours and every call of its dispatch is a step.                    *)
(*                                                                         *)
(* The hook runs beside the daemon, so the steps of a hook that outlived   *)
(* its timeout or its daemon interleave with those of the daemon.          *)
(***************************************************************************)
EXTENDS LaunchGate, WorkerRun

CONSTANTS
  MaxFailures,          \* BH_MAX_ISSUE_FAILURES
  MaxDispatches         \* bound: ticks that come to the issue

Acts == {"requeue", "block", "push", "close", "closepr", "mention"}

ASSUME IssueRunOK ==
  /\ MaxFailures \in Nat \ {0} /\ MaxDispatches \in Nat \ {0}

VARIABLES
  failures,      \* FailureTally of the issue, in memory
  saved,         \* and in its file
  sha,           \* pr_head_sha, what the CI gate is asked about
  merged,        \* the commit of the issue branch on the feature branch, or 0
  tested,        \* the commit CI was green for when it was merged
  edit,          \* the label edit park_issue has prepared
  dispatches     \* bookkeeping of the model

verdict == <<failures, saved, sha, merged, tested, edit>>
vars == <<shared, gate, hookVars, runVars, verdict, dispatches>>

NoEdit == [add |-> {}, remove |-> {}, exhausted |-> FALSE]

Idle == Goto("idle") /\ edit' = NoEdit

\* Steps of the daemon proper touch neither the launch gate's state nor the
\* worker's, and no commit.
DaemonOnly == UNCHANGED <<gate, hookVars, runVars, issueOpen, prOpen, prHead, branch, wt>>

-----------------------------------------------------------------------------
(* The failure tally.                                                      *)

\* FailureTally._persist: a write that fails is passed over.
Persisted == (Succeeds /\ saved' = failures') \/ (Fails("tally") /\ UNCHANGED saved)
KeepCount == UNCHANGED <<failures, saved>>

\* FailureTally._load at the next start: a file that cannot be read is empty.
Load == failures' \in {saved, 0} /\ UNCHANGED saved

-----------------------------------------------------------------------------
(* Selection and claim.                                                    *)

\* A tick comes to the issue: greenlit, or found in one of the states recovery
\* acts on, in the order of its rules.  A merge that agent-merged does not
\* confirm is put before the CI gate again, whatever the labels say.
Select ==
  /\ pc = "idle" /\ issueOpen /\ dispatches < MaxDispatches
  /\ \/ merged # 0 /\ Merged \notin labels /\ Goto("refind")
     \/ /\ merged = 0
        /\ \/ Blocked \in labels /\ Progress \in labels /\ Goto("intact")
           \/ Blocked \notin labels /\ Done \in labels /\ prOpen /\ Goto("refind")
           \/ Blocked \notin labels /\ ~ (Done \in labels /\ prOpen) /\ Progress \in labels
                /\ Goto("clear")
           \/ labels \cap {Blocked, Failed, Progress} = {} /\ ~ (Done \in labels /\ prOpen)
                /\ Ready \in labels /\ Goto("predispatch")
  /\ dispatches' = dispatches + 1
  /\ UNCHANGED <<labels, verdict, trouble>> /\ DaemonOnly

ClearOrphan ==
  /\ pc = "clear"
  /\ LabelEdit("edit", {}, {Progress})
  /\ Goto("predispatch")
  /\ UNCHANGED <<verdict, dispatches>> /\ DaemonOnly

PreDispatch ==
  /\ pc = "predispatch"
  /\ \/ ReadLabels(TRUE) /\ Goto(IF Ready \in labels /\ labels \cap Excluded # {} THEN "intact" ELSE "claim")
     \/ ReadLabels(FALSE) /\ Goto("uncharged")
  /\ UNCHANGED <<labels, verdict, dispatches>> /\ DaemonOnly

\* The claim, whatever became of its edit; then the issue itself is fetched.
Claim ==
  /\ pc = "claim"
  /\ LabelEdit("edit", {Progress}, {Ready})
  /\ Goto("fetch")
  /\ UNCHANGED <<verdict, dispatches>> /\ DaemonOnly

Fetch ==
  /\ pc = "fetch"
  /\ \/ Succeeds /\ Goto("preflight")
     \/ Fails("issue") /\ Goto("uncharged")
  /\ UNCHANGED <<labels, verdict, dispatches>> /\ DaemonOnly

-----------------------------------------------------------------------------
(* The result of a run.                                                    *)

\* Mutant of Outcome: a blocked issue with a pull request goes to the gate.
OutcomeGatesBlocked ==
  /\ pc \in {"pr_created", "no_pr"}
  /\ Succeeds /\ UNCHANGED sha
  /\ Goto(IF ~ SingleState(labels) THEN "unknown"
          ELSE IF pc = "pr_created" THEN "find" ELSE "charged")
  /\ UNCHANGED <<labels, failures, saved, merged, tested, edit, dispatches>> /\ DaemonOnly

\* The labels are read again: no state label and an open pull request converge
\* to agent-done; any other set that is not a single state parks as it is.
Outcome ==
  /\ pc \in {"pr_created", "no_pr"}
  /\ \/ ReadLabels(FALSE) /\ Goto("unknown") /\ UNCHANGED sha
     \/ /\ SingleState(labels) /\ ReadLabels(TRUE) /\ UNCHANGED sha
        /\ Goto(IF Blocked \in labels THEN "intact"
                ELSE IF pc = "pr_created" THEN "find" ELSE "charged")
     \/ /\ ~ SingleState(labels) /\ ReadLabels(TRUE)
        /\ IF labels \cap StateLabels = {} /\ prOpen
             THEN Goto("converge") /\ sha' = prHead
             ELSE Goto("unknown") /\ UNCHANGED sha
     \/ labels \cap StateLabels = {} /\ Fails("prs") /\ Goto("unknown") /\ UNCHANGED sha
  /\ UNCHANGED <<labels, failures, saved, merged, tested, edit, dispatches>> /\ DaemonOnly

Converge ==
  /\ pc = "converge"
  /\ LabelEdit("edit", {TargetState(FALSE, TRUE)}, {Progress})
  /\ Goto("gate")
  /\ UNCHANGED <<verdict, dispatches>> /\ DaemonOnly

\* _find_issue_pr: the branch and the head to test, after a run or, on
\* recovery's behalf, without one.
FindPR ==
  /\ pc \in {"find", "refind"}
  /\ LET lost == IF pc = "find" THEN "charged" ELSE "uncharged" IN
       \/ prOpen /\ Succeeds /\ Goto(IF pc = "find" THEN "gate" ELSE "regate") /\ sha' = prHead
       \/ ~ prOpen /\ Succeeds /\ Goto(lost) /\ UNCHANGED sha
       \/ Fails("prs") /\ Goto(lost) /\ UNCHANGED sha
  /\ UNCHANGED <<labels, failures, saved, merged, tested, edit, dispatches>> /\ DaemonOnly

\* Mutant of Gate: recovery's re-entry merges without asking CI again.
GateTrustsReentry ==
  /\ pc \in {"gate", "regate"}
  /\ \/ merged' = head /\ tested' = (IF pc = "gate" THEN sha ELSE tested) /\ Goto("persist")
     \/ UNCHANGED <<merged, tested>> /\ Goto(IF pc = "gate" THEN "intact" ELSE "uncharged")
  /\ UNCHANGED <<labels, failures, saved, sha, edit, dispatches, trouble>> /\ DaemonOnly

\* CiGate's verdict on sha, and the merge of the local issue branch.
Gate ==
  /\ pc \in {"gate", "regate"}
  /\ \/ merged' = head /\ tested' = sha /\ Goto("persist")
     \/ UNCHANGED <<merged, tested>> /\ Goto(IF pc = "gate" THEN "intact" ELSE "uncharged")
  /\ UNCHANGED <<labels, failures, saved, sha, edit, dispatches, trouble>> /\ DaemonOnly

Persist ==
  /\ pc = "persist"
  /\ LabelEdit("persist", {Merged}, {})
  /\ Goto("merged")
  /\ UNCHANGED <<verdict, dispatches>> /\ DaemonOnly

MarkMerged ==
  /\ pc = "merged"
  /\ LabelEdit("edit", {}, {Progress, Done})
  /\ Goto("reset") /\ KeepCount
  /\ UNCHANGED <<sha, merged, tested, edit, dispatches>> /\ DaemonOnly

Reset ==
  /\ pc = "reset"
  /\ failures' = 0 /\ Persisted
  /\ Idle
  /\ UNCHANGED <<labels, sha, merged, tested, dispatches>> /\ DaemonOnly

-----------------------------------------------------------------------------
(* park_issue.                                                             *)

ParkClass == [charged   |-> "CHARGED",      uncharged |-> "UNCHARGED",
              intact    |-> "STATE_INTACT", unknown   |-> "UNKNOWN_STATE"]

ParkDecide ==
  /\ pc \in DOMAIN ParkClass
  /\ \E readable \in BOOLEAN :
       LET exhausted == pc = "charged" /\ failures + 1 >= MaxFailures IN
       /\ ReadLabels(readable)
       /\ edit' = [add       |-> ParkAdd(ParkClass[pc], readable, labels, exhausted),
                   remove    |-> ParkRemove(ParkClass[pc], readable, labels, exhausted),
                   exhausted |-> exhausted]
  /\ Goto(IF pc = "charged" THEN "count" ELSE "parkedit")
  /\ KeepCount /\ UNCHANGED <<labels, sha, merged, tested, dispatches>> /\ DaemonOnly

\* record_and_check, after the labels are read and before they are edited.
Count ==
  /\ pc = "count"
  /\ failures' = IF failures < MaxFailures THEN failures + 1 ELSE failures
  /\ Persisted
  /\ Goto("parkedit")
  /\ UNCHANGED <<labels, sha, merged, tested, edit, dispatches>> /\ DaemonOnly

ParkEdit ==
  /\ pc = "parkedit"
  /\ LabelEdit("edit", edit.add, edit.remove)
  /\ IF edit.exhausted /\ Succeeds THEN Goto("verify") /\ UNCHANGED edit ELSE Idle
  /\ KeepCount /\ UNCHANGED <<sha, merged, tested, dispatches>> /\ DaemonOnly

ParkVerify ==
  /\ pc = "verify"
  /\ \/ labels \cap StateLabels = {Failed} /\ failures' = 0 /\ Persisted
     \/ labels \cap StateLabels # {Failed} /\ ReadLabels(TRUE) /\ KeepCount
     \/ ReadLabels(FALSE) /\ KeepCount
  /\ Idle
  /\ UNCHANGED <<labels, sha, merged, tested, dispatches>> /\ DaemonOnly

Daemon ==
  \/ Select \/ ClearOrphan \/ PreDispatch \/ Claim \/ Fetch \/ Outcome \/ Converge \/ FindPR
  \/ Gate \/ Persist \/ MarkMerged \/ Reset \/ ParkDecide \/ Count \/ ParkEdit \/ ParkVerify
  \/ GateStep /\ UNCHANGED <<hookVars, runVars, verdict, dispatches>>
  \/ RunStep /\ UNCHANGED <<gate, hookVars, verdict, dispatches>>
  \/ HookCall /\ UNCHANGED <<gate, verdict, dispatches>>

Hook == HookStep /\ UNCHANGED <<gate, runVars, verdict, dispatches>>

-----------------------------------------------------------------------------
(* The environment.                                                        *)

\* The daemon dies; a hook it was waiting for may go on.
Crash ==
  /\ pc # "idle" /\ Strikes("crash")
  /\ Idle /\ RunEnds
  /\ IF hook # "off" THEN stray' = TRUE /\ UNCHANGED <<hook, outcome, lookups, seen>>
                     ELSE UNCHANGED hookVars
  /\ Load
  /\ UNCHANGED <<github, branch, wt, gate, world, sha, merged, tested, dispatches>>

\* Other issues were merged while this one was not running.
FeatureMoves ==
  /\ pc = "idle" /\ ~ behind /\ head # 0 /\ newest < MaxCommits /\ merged = 0
  /\ behind' = TRUE
  /\ UNCHANGED <<shared, gate, hookVars, run, mentioned, verdict, dispatches>>

\* The work unit's branch is pushed, before its next issue or at its end, and GitHub
\* closes a pull request whose commits are all on it.
Publish ==
  /\ pc = "idle" /\ merged # 0 /\ prOpen /\ prHead <= merged
  /\ prOpen' = FALSE
  /\ UNCHANGED <<labels, issueOpen, prHead, branch, wt, pc, trouble, gate, hookVars, runVars>>
  /\ UNCHANGED <<verdict, dispatches>>

\* requeue: answer a blocked or triage a failed issue.  block: ask for a pause.
\* push: commit to the pull request's branch.  close: close the issue.  closepr:
\* close the pull request.
Human ==
  /\ \/ /\ Strikes("requeue") /\ labels \cap Excluded # {}
        /\ labels' = Edit(labels, {Ready}, Excluded)
        /\ UNCHANGED <<issueOpen, prOpen, prHead, newest>>
     \/ /\ Strikes("block") /\ Blocked \notin labels
        /\ labels' = labels \cup {Blocked}
        /\ UNCHANGED <<issueOpen, prOpen, prHead, newest>>
     \/ /\ Strikes("push") /\ prOpen /\ ~ behind /\ newest < MaxCommits
        /\ newest' = newest + 1 /\ prHead' = newest + 1
        /\ UNCHANGED <<labels, issueOpen, prOpen>>
     \/ /\ Strikes("close") /\ issueOpen
        /\ issueOpen' = FALSE
        /\ UNCHANGED <<labels, prOpen, prHead, newest>>
     \/ /\ Strikes("closepr") /\ prOpen
        /\ prOpen' = FALSE
        /\ UNCHANGED <<labels, issueOpen, prHead, newest>>
  /\ UNCHANGED <<head, pushed, wt, pc, gate, hookVars, runVars, verdict, dispatches>>

\* mention: another issue's pull request has #<n> in its text.
Mention ==
  /\ Strikes("mention") /\ ~ mentioned
  /\ mentioned' = TRUE
  /\ UNCHANGED <<github, branch, wt, pc, gate, hookVars, run, behind, verdict, dispatches>>

Environment ==
  \/ Crash \/ FeatureMoves \/ Publish \/ Human \/ Mention
  \/ ProbeLands /\ UNCHANGED <<hookVars, runVars, verdict, dispatches>>
  \/ StrayEnds /\ UNCHANGED <<gate, runVars, verdict, dispatches>>

Init ==
  /\ labels = {Ready} /\ issueOpen = TRUE /\ prOpen = FALSE /\ prHead = 0
  /\ head = 0 /\ pushed = 0 /\ newest = 0 /\ wt = NoWorktree
  /\ pc = "idle" /\ troubles = 0 /\ happened = {}
  /\ GateInit /\ HookInit /\ RunInit
  /\ failures = 0 /\ saved = 0 /\ sha = 0 /\ merged = 0 /\ tested = 0 /\ edit = NoEdit
  /\ dispatches = 0

Next == Daemon \/ Hook \/ Environment

Spec == Init /\ [][Next]_vars

-----------------------------------------------------------------------------
TypeOK ==
  /\ SharedTypeOK /\ GateTypeOK /\ HookTypeOK /\ RunTypeOK
  /\ failures \in 0..MaxFailures /\ saved \in 0..MaxFailures
  /\ sha \in Commits /\ merged \in Commits /\ tested \in Commits
  /\ edit \in [add : SUBSET AllLabels, remove : SUBSET AllLabels, exhausted : BOOLEAN]
  /\ dispatches \in 0..MaxDispatches

\* The stage of the contract for each place of the daemon.
StageOf(p) ==
  CASE p \in {"clear", "predispatch", "claim"}           -> "claiming"
    [] p \in {"fetch", "preflight", "probe", "cleanup"}  -> "claimed"
    [] p \in {"worktree", "install", "settings", "rebase", "abort", "turn", "state",
              "labels", "prprobe", "clean", "after", "waiting", "postprobe"} -> "worker"
    [] p \in {"pr_created", "no_pr"}                     -> "judging"
    [] p = "find"                                        -> "finding"
    [] p \in {"converge", "gate"}                        -> "testing"
    [] p = "refind"                                      -> "refinding"
    [] p = "regate"                                      -> "retesting"
    [] p \in {"persist", "merged", "reset"}              -> "recording"
    [] p \in {"intact", "uncharged", "unknown", "parkedit", "verify"} -> "parking"
    [] p \in {"charged", "count"} -> "charging"
    [] p = "refuse"  -> "refused"
    [] p = "idle"    -> "idle"
Stage == StageOf(pc)

Contract == INSTANCE IssueContract WITH
  FailureLimit <- MaxFailures, stage <- Stage, labels <- labels, prOpen <- prOpen,
  hookAlive <- hook # "off", hookSawPR <- outcome = "pr-opened", onBranch <- merged # 0,
  failures <- failures, stored <- saved

\* The dispatch, call by call, keeps the contract: who may relabel the issue at
\* which stage, when an attempt is charged and counted, and what is put before the CI gate.
KeepsContract == Contract!Spec

\* A worker runs only after the remote has denied its push, seen from a
\* checkout: nothing else the probe or the comparator says launches one.
LaunchIsProven == Stage = "worker" => gitRoot /\ protected

\* A probe's ref that is on the remote when its probe is over has been reported
\* to the operators, unless the remote carried the push out after the delete.
NoSilentRef == pc = "refuse" /\ ref = "on origin" => reported

\* When the worker has pushed all it has and nobody else pushes to its branch,
\* the commit that is merged is the one CI was green for.
PushedIsTested == merged # 0 /\ merged = pushed /\ "push" \notin happened => tested = merged

\* agent-done means a pull request that is open, whichever of hook, stray hook,
\* convergence and park wrote the label and whatever else failed meanwhile, unless a
\* human closes the pull request.  It outlives the pull request of a merged issue
\* only after a crash, a refused edit or a hook that outlived its timeout.
Late == {"crash", "edit", "hooktimeout"}
DoneHasPR ==
  Done \in labels => \/ prOpen \/ "closepr" \in happened
                     \/ merged # 0 /\ happened \cap Late # {}

\* Without a refused edit, a hook cut short or a human's block, an issue that
\* is not merged rests in one state when a dispatch is over.  Two unanswered
\* calls of one dispatch are too many when the second is the park's own read.
Clean ==
  /\ happened \cap {"crash", "block", "requeue", "edit", "hookedit", "hooktimeout",
                    "cherry", "lookup", "hooklabels"} = {}
  /\ "labels" \in happened => troubles = 1
RestsInOneState == pc = "idle" /\ merged = 0 /\ Clean => SingleState(labels)

-----------------------------------------------------------------------------
\* "Running a worker without the PreToolUse tripwire is worse than refusing
\* startup": no turn runs in a worktree whose set-up did not succeed.
TurnsAreGuarded == pc = "turn" => wt.tripwire
=============================================================================
