------------------------------ MODULE WorkUnit ------------------------------
(***************************************************************************)
(* One milestone of issues driven by the daemon: the poll tick that selects*)
(* the work unit (chain/daemon/poll.py), recovery (chain/recovery.py), the *)
(* serial loop over the scheduler's frontier (chain/daemon/work_unit.py),  *)
(* parking (park.py), the CI gate and the merge (gh_api_helpers.py,        *)
(* merge.py), and what of the worker and of its after_run hook the loop    *)
(* sees.                                                                   *)
(*                                                                         *)
(* State is split by what a crash leaves behind.  GitHub (labels, pull     *)
(* requests), the local feature branch and the two tally files survive;    *)
(* the program counter and every local of _run_work_unit do not, and the   *)
(* next tick rebuilds them from what survived.  A step of the daemon is    *)
(* the code between two calls to the outside, so that a crash, a human     *)
(* edit or a failed call may come between any two of them.                 *)
(***************************************************************************)
EXTENDS Labels, Integers, Sequences, FiniteSets

CONSTANTS
  Issues,         \* the open issues of the milestone
  BlockerGraphs,  \* the blocked_by relations it may have
  MaxFailures,    \* BH_MAX_ISSUE_FAILURES
  MaxRedispatch,  \* BH_REDISPATCH_MAX, all attempts within one window
  Faulty,         \* the calls that may fail
  HumanActs,      \* the edits a human may make
  MaxFaults, MaxCrashes, MaxActs,   \* bounds on what the environment does
  NoIssue

Calls == {"edit", "labels", "recovery", "prs", "provenance", "push", "create", "members",
          "blockers", "branch", "checkout", "issue", "preflight", "hook", "persist"}
Acts == {"greenlight", "requeue", "unblock", "triage", "block", "swap"}

ASSUME ConstantsOK ==
  /\ IsFiniteSet(Issues) /\ NoIssue \notin Issues
  /\ BlockerGraphs \subseteq [Issues -> SUBSET Issues]
  /\ MaxFailures \in Nat \ {0} /\ MaxRedispatch \in Nat
  /\ Faulty \subseteq Calls /\ HumanActs \subseteq Acts
  /\ MaxFaults \in Nat /\ MaxCrashes \in Nat /\ MaxActs \in Nat

VARIABLES
  \* GitHub
  blockedBy,      \* issue dependencies; nobody edits them here
  labels,         \* the labels of each issue
  pr,             \* the issue's pull request into the feature branch
  unitPR,         \* issues the unit's pull request into main closes
  \* the local checkout and the tally files
  trailers,       \* issues with a provenance merge on the feature branch
  failures,       \* FailureTally
  redispatches,   \* RedispatchTally
  \* the process
  pc,
  greenlit,       \* agent_ready_issues
  class,          \* recovery_result, as the rule that matched each issue
  pending,        \* pending; the order within a frontier is arbitrary
  cur,            \* n, the issue in hand
  park,           \* the ParkClass park_issue was called with
  edit,           \* the label edit park_issue has prepared
  graph, phase, consumed, handed, done, parked,   \* the IssueScheduler
  \* bookkeeping of the model
  launches,       \* workers launched since a human last asked for one
  crashes,
  faults, acts    \* the calls that failed and what humans did, in order

github    == <<blockedBy, labels, pr, unitPR>>
disk      == <<trailers, failures, redispatches>>
scheduler == <<graph, phase, consumed, handed, done, parked>>
unit      == <<greenlit, class>>
task      == <<cur, park, edit>>
history   == <<launches, crashes, acts>>
vars == <<github, disk, pc, unit, pending, task, scheduler, history, faults>>

Sched == INSTANCE IssueScheduler

NoPark == "none"
NoEdit == [add |-> {}, remove |-> {}, exhausted |-> FALSE]
Edits  == [add : SUBSET AllLabels, remove : SUBSET AllLabels, exhausted : BOOLEAN]
Fresh  == [i \in Issues |-> "fresh"]
NoUnitPR == [open |-> FALSE, closes |-> {}]

-----------------------------------------------------------------------------
(* Calls to the outside, and what is common to several steps.              *)

Succeeds == UNCHANGED faults

Fails(call) ==
  /\ call \in Faulty /\ Len(faults) < MaxFaults
  /\ faults' = Append(faults, call)

CallFailed(call) == \E k \in DOMAIN faults : faults[k] = call

\* _label_edit: False, and nothing changed, when GitHub refuses.
LabelEdit(i, add, remove) ==
  \/ Succeeds /\ labels' = [labels EXCEPT ![i] = Edit(@, add, remove)]
  \/ Fails("edit") /\ UNCHANGED labels

\* GitHub marks a pull request merged once its commits are on the remote base.
Published == [i \in Issues |-> IF pr[i] = "open" /\ i \in trailers THEN "merged" ELSE pr[i]]

NextIssue == pc' = "frontier" /\ cur' = NoIssue /\ park' = NoPark /\ edit' = NoEdit

Park(c) == pc' = "park" /\ park' = c /\ UNCHANGED <<cur, edit>>

Goto(p) == pc' = p /\ UNCHANGED task

\* The locals of _run_work_unit are gone: it returned, raised or was killed.
Leave ==
  /\ pc' = "idle" /\ greenlit' = {} /\ class' = Fresh /\ pending' = {}
  /\ cur' = NoIssue /\ park' = NoPark /\ edit' = NoEdit
  /\ graph' = <<>> /\ phase' = "new"
  /\ consumed' = {} /\ handed' = {} /\ done' = {} /\ parked' = {}

\* Calls whose failure raises through _run_work_unit and out of the tick:
\* a query for blockers, the creation of the feature branch, its checkout.
BlockersFail == Fails("blockers") /\ Leave
BranchFails == Fails("branch") /\ Leave
CheckoutFails == Fails("checkout") /\ Leave

\* Mutant of MarkParked: the dependents are not parked with the issue.
MarkParkedAlone(i) ==
  /\ parked' = parked \cup {i}
  /\ UNCHANGED <<graph, phase, consumed, handed, done>>

\* The daemon reports to the scheduler; nothing here checks that it may.
MarkDone(i) ==
  /\ done' = done \cup {i}
  /\ UNCHANGED <<graph, phase, consumed, handed, parked>>
MarkParked(i) ==
  /\ parked' = parked \cup Sched!Subtree(i)
  /\ UNCHANGED <<graph, phase, consumed, handed, done>>

-----------------------------------------------------------------------------
(* The poll tick: _poll_and_run.                                           *)

Orphans == {i \in Issues : Progress \in labels[i]}

\* Issues listed under agent-ready, without those an exclude label disqualifies.
Snapshot == {i \in Issues : Ready \in labels[i] /\ labels[i] \cap Excluded = {}}

\* Mutant of Tick: an orphan without greenlit work does not start a work unit.
TickOnSnapshot ==
  /\ pc = "idle"
  /\ Snapshot # {}
  /\ greenlit' = Snapshot
  /\ Goto("recheck")
  /\ UNCHANGED <<github, disk, class, pending, scheduler, history, faults>>

Tick ==
  /\ pc = "idle"
  /\ Snapshot \cup Orphans # {}
  /\ greenlit' = Snapshot
  /\ Goto(IF Snapshot # {} THEN "recheck" ELSE "begin")
  /\ UNCHANGED <<github, disk, class, pending, scheduler, history, faults>>

\* The live re-check: an issue that is ready and excluded at once is dropped,
\* an unreadable one is kept.  With nobody left, phase 2 looks for orphans.
Recheck ==
  /\ pc = "recheck"
  /\ LET torn == {i \in greenlit : Ready \in labels[i] /\ labels[i] \cap Excluded # {}} IN
       \/ /\ Fails("labels")
          /\ UNCHANGED <<labels, greenlit>>
       \/ /\ \/ Succeeds /\ labels' = [i \in Issues |-> IF i \in torn THEN labels[i] \ {Progress} ELSE labels[i]]
             \/ torn # {} /\ Fails("edit") /\ UNCHANGED labels
          /\ greenlit' = greenlit \ torn
  /\ Goto(IF greenlit' # {} \/ \E i \in Issues : Progress \in labels'[i] THEN "begin" ELSE "idle")
  /\ UNCHANGED <<blockedBy, pr, unitPR, disk, class, pending, scheduler, history>>

\* Mutant of StartUnit: the graph spans the ready issues, not the milestone.
StartGreenlit(members) ==
  LET g == Sched!BuildDag(greenlit, blockedBy) IN
  /\ graph' = g /\ phase' = "prepared" /\ pc' = "setup"
  /\ UNCHANGED <<unit, pending, task, consumed, handed, done, parked>>

\* _run_work_unit, step 0, on a membership: build_dag and prepare.  A cycle
\* is escalated and the unit abandoned.
StartUnit(members) ==
  LET g == Sched!BuildDag(members, blockedBy) IN
  IF Sched!Acyclic(g)
    THEN /\ graph' = g /\ phase' = "prepared" /\ pc' = "setup"
         /\ UNCHANGED <<unit, pending, task, consumed, handed, done, parked>>
    ELSE Leave

\* The members are all open issues of the milestone.  When they cannot be
\* listed the unit is what selected it: the ready issues, or the orphan.
Begin ==
  /\ pc = "begin"
  /\ \/ Succeeds /\ StartUnit(Issues)
     \/ Fails("members") /\ (IF greenlit # {} THEN StartUnit(greenlit)
                                              ELSE \E i \in Orphans : StartUnit({i}))
     \/ BlockersFail
  /\ UNCHANGED <<github, disk, history>>

-----------------------------------------------------------------------------
(* Recovery: _setup_feature_branch and reconstruct.                        *)

Open(prs) == {i \in Issues : prs[i] = "open"}

\* Mutants of Rule: an open pull request under agent-done counts as merged; a
\* merge without agent-merged is not recognised.
RuleTrustsDone(i, merged, open, seen) ==
  IF i \in merged \/ (Done \in seen /\ i \in open) THEN "done"
  ELSE IF Blocked \in seen THEN "parked"
  ELSE IF Progress \in seen THEN "redispatch"
  ELSE "fresh"
RuleNeedsLabel(i, merged, open, seen) ==
  IF i \in merged /\ Merged \in seen THEN "done"
  ELSE IF Blocked \in seen THEN "parked"
  ELSE IF Done \in seen /\ i \in open THEN "gate"
  ELSE IF Progress \in seen THEN "redispatch"
  ELSE "fresh"

\* The rule that matches i, first match first, given the provenance merges,
\* the issues with an open pull request and the labels that could be read.
Rule(i, merged, open, seen) ==
  IF i \in merged THEN IF Merged \in seen THEN "done" ELSE "gate"
  ELSE IF Blocked \in seen THEN "parked"
  ELSE IF Done \in seen /\ i \in open THEN "gate"
  ELSE IF Progress \in seen THEN "redispatch"
  ELSE "fresh"

\* fetch_recovery_labels: unreadable labels are an empty set.
Seen(i, unreadable) == IF i \in unreadable THEN {} ELSE labels[i]

Reconstruct(merged, open, unreadable) ==
  class' = [i \in Issues |->
              IF i \in DOMAIN graph
                THEN Rule(i, merged, open, Seen(i, unreadable))
                ELSE "fresh"]

\* The early push publishes local merges; each signal recovery cannot read
\* counts as absent.
SetUp ==
  /\ pc = "setup"
  /\ \/ /\ \/ Succeeds /\ pr' = Published /\ Reconstruct(trailers, Open(pr'), {})
           \/ Fails("push") /\ pr' = pr /\ Reconstruct(trailers, Open(pr'), {})
           \/ Fails("provenance") /\ pr' = Published /\ Reconstruct({}, Open(pr'), {})
           \/ Fails("prs") /\ pr' = Published /\ Reconstruct(trailers, {}, {})
           \/ Fails("recovery") /\ pr' = Published
                /\ \E i \in Issues : Reconstruct(trailers, Open(pr'), {i})
        /\ Goto("frontier")
        /\ UNCHANGED <<greenlit, pending, scheduler>>
     \/ BranchFails /\ UNCHANGED pr
  /\ UNCHANGED <<blockedBy, labels, unitPR, disk, history>>

-----------------------------------------------------------------------------
(* The serial loop: which issue, and which of recovery's routes it takes.  *)

Actionable(i) == class[i] # "fresh" \/ i \in greenlit

\* Mutant of Frontier: a frontier that nobody may work on is polled again.
FrontierSpins ==
  /\ pc = "frontier"
  /\ IF Sched!IsActive
       THEN /\ Sched!GetReady
            /\ pending' = (pending \cup (handed' \ handed)) \ parked
            /\ Goto(IF \E i \in pending' : Actionable(i) THEN "pick" ELSE "frontier")
       ELSE /\ Goto("complete")
            /\ UNCHANGED <<pending, scheduler>>
  /\ UNCHANGED <<github, disk, unit, history, faults>>

Frontier ==
  /\ pc = "frontier"
  /\ IF Sched!IsActive
       THEN /\ Sched!GetReady
            /\ pending' = (pending \cup (handed' \ handed)) \ parked
            /\ Goto(IF \E i \in pending' : Actionable(i) THEN "pick" ELSE "complete")
       ELSE /\ Goto("complete")
            /\ UNCHANGED <<pending, scheduler>>
  /\ UNCHANGED <<github, disk, unit, history, faults>>

\* A member without a greenlight is dropped; a later tick will see it again.
Pick ==
  /\ pc = "pick"
  /\ \E i \in pending :
       /\ pending' = pending \ {i}
       /\ \/ /\ ~ Actionable(i)
             /\ NextIssue
             /\ UNCHANGED scheduler
          \/ /\ class[i] = "done"
             /\ MarkDone(i)
             /\ NextIssue
          \/ /\ Actionable(i) /\ class[i] # "done"
             /\ cur' = i /\ UNCHANGED edit
             /\ pc' = CASE class[i] = "parked"     -> "park"
                        [] class[i] = "gate"       -> "reentry"
                        [] class[i] = "redispatch" -> "redispatch"
                        [] OTHER                   -> "predispatch"
             /\ park' = IF class[i] = "parked" THEN "STATE_INTACT" ELSE NoPark
             /\ UNCHANGED scheduler
  /\ UNCHANGED <<github, disk, unit, history, faults>>

\* Rule 3a: back into the CI gate, for which the open pull request is needed.
Reentry ==
  /\ pc = "reentry"
  /\ \/ Succeeds /\ pr[cur] = "open" /\ Goto("regate")
     \/ Succeeds /\ pr[cur] # "open" /\ Park("UNCHARGED")
     \/ Fails("prs") /\ Park("UNCHARGED")
  /\ UNCHANGED <<github, disk, unit, pending, scheduler, history>>

\* Mutant of Redispatch: the limit is compared with the count before this one.
RedispatchOffByOne ==
  /\ pc = "redispatch"
  /\ LET breach == redispatches[cur] > MaxRedispatch IN
       /\ redispatches' = [redispatches EXCEPT ![cur] = IF breach THEN @ ELSE @ + 1]
       /\ IF breach THEN Park("TERMINAL") ELSE Goto("clear")
  /\ UNCHANGED <<github, trailers, failures, unit, pending, scheduler, history, faults>>

\* Rule 3b: every attempt counts, the one over the limit parks for good.
Redispatch ==
  /\ pc = "redispatch"
  /\ LET breach == redispatches[cur] >= MaxRedispatch IN
       /\ redispatches' = [redispatches EXCEPT ![cur] = IF breach THEN @ ELSE @ + 1]
       /\ IF breach THEN Park("TERMINAL") ELSE Goto("clear")
  /\ UNCHANGED <<github, trailers, failures, unit, pending, scheduler, history, faults>>

ClearOrphan ==
  /\ pc = "clear"
  /\ LabelEdit(cur, {}, {Progress})
  /\ Goto("predispatch")
  /\ UNCHANGED <<blockedBy, pr, unitPR, disk, unit, pending, scheduler, history>>

-----------------------------------------------------------------------------
(* Dispatch of a worker.                                                   *)

PreDispatch ==
  /\ pc = "predispatch"
  /\ \/ Fails("labels") /\ Park("UNCHARGED")
     \/ /\ Succeeds
        /\ IF labels[cur] \cap Excluded # {} /\ Ready \in labels[cur]
             THEN Park("STATE_INTACT")
             ELSE Goto("claim")
  /\ UNCHANGED <<github, disk, unit, pending, scheduler, history>>

Claim ==
  /\ pc = "claim"
  /\ \/ /\ LabelEdit(cur, {Progress}, {Ready})
        /\ Goto("launch")
        /\ UNCHANGED <<unit, pending, scheduler>>
     \/ CheckoutFails /\ UNCHANGED labels
  /\ UNCHANGED <<blockedBy, pr, unitPR, disk, history>>

Launch ==
  /\ pc = "launch"
  /\ \/ /\ Succeeds /\ Goto("worker")
        /\ launches' = [launches EXCEPT ![cur] = @ + 1]
     \/ /\ \/ Fails("issue") /\ Park("UNCHARGED")
           \/ Fails("preflight") /\ Goto("refused")
        /\ UNCHANGED launches
  /\ UNCHANGED <<github, disk, unit, pending, scheduler, crashes, acts>>

\* The preflight refused: _launch_one_issue gives the label back itself.
Refused ==
  /\ pc = "refused"
  /\ LabelEdit(cur, {Ready}, {Progress})
  /\ Park("STATE_INTACT")
  /\ UNCHANGED <<blockedBy, pr, unitPR, disk, unit, pending, scheduler, history>>

\* The worker fails before its first turn, and the hook does not run; or it
\* takes its turns, which may open a pull request and may label the issue
\* blocked, and the last turn succeeds or fails.
Worker ==
  /\ pc = "worker"
  /\ \/ Park("CHARGED") /\ UNCHANGED <<labels, pr>>
     \/ /\ pr' \in {pr, [pr EXCEPT ![cur] = "open"]}
        /\ labels' \in {labels, [labels EXCEPT ![cur] = @ \cup {Blocked}]}
        /\ \E p \in {"hook", "failedhook"} : Goto(p)
  /\ UNCHANGED <<blockedBy, unitPR, disk, unit, pending, scheduler, history, faults>>

\* What a complete run of the after_run hook makes of label set L.  An open
\* pull request does not settle it: the hook looks for uncommitted files first.
HookOutcomes(L, prOpen) ==
  IF Blocked \in L
    THEN {L \ {Ready}}
    ELSE {Edit(L, {s}, {Ready}) : s \in IF prOpen THEN {Done, Blocked} ELSE {Blocked}}

\* A hook that cannot read GitHub changes nothing, and one that is killed or
\* refused between its two edits leaves no state label.
HookRemnants(L) == {L, L \ {Ready}}

\* The worker's result follows from a probe for the pull request; a turn that
\* failed raises after the hook instead.
Hook ==
  /\ pc \in {"hook", "failedhook"}
  /\ \/ /\ Succeeds
        /\ \E L \in HookOutcomes(labels[cur], pr[cur] = "open") :
             labels' = [labels EXCEPT ![cur] = L]
     \/ /\ Fails("hook")
        /\ \E L \in HookRemnants(labels[cur]) : labels' = [labels EXCEPT ![cur] = L]
  /\ IF pc = "failedhook" THEN Park("CHARGED")
     ELSE Goto(IF pr[cur] = "open" THEN "pr_created" ELSE "no_pr")
  /\ UNCHANGED <<blockedBy, pr, unitPR, disk, unit, pending, scheduler, history>>

-----------------------------------------------------------------------------
(* The outcome of a worker.                                                *)

\* The labels are read again.  With no state label and an open pull request
\* the issue is converged to agent-done and gated; any other set that is not
\* a single state is parked as it is.
Outcome ==
  /\ pc \in {"pr_created", "no_pr"}
  /\ LET L == labels[cur]
         open == pr[cur] = "open"
     IN
     \/ Fails("labels") /\ Park("UNKNOWN_STATE")
     \/ /\ L \cap StateLabels = {}
        /\ \/ open /\ Succeeds /\ Goto("converge")
           \/ ~ open /\ Succeeds /\ Park("UNKNOWN_STATE")
           \/ open /\ Fails("prs") /\ Park("UNKNOWN_STATE")
     \/ /\ L \cap StateLabels # {} /\ ~ SingleState(L)
        /\ Succeeds /\ Park("UNKNOWN_STATE")
     \/ /\ SingleState(L)
        /\ IF Blocked \in L THEN Succeeds /\ Park("STATE_INTACT")
           ELSE \/ pc = "pr_created" /\ open /\ Succeeds /\ Goto("gate")
                \/ pc = "pr_created" /\ open /\ Fails("prs") /\ Park("CHARGED")
                \/ (pc = "no_pr" \/ ~ open) /\ Succeeds /\ Park("CHARGED")
  /\ UNCHANGED <<github, disk, unit, pending, scheduler, history>>

Converge ==
  /\ pc = "converge"
  /\ LabelEdit(cur, {TargetState(FALSE, TRUE)}, {Progress})
  /\ Goto("gate")
  /\ UNCHANGED <<blockedBy, pr, unitPR, disk, unit, pending, scheduler, history>>

\* merge_issue_branch up to its merge: red, timed out, conflicting or raising,
\* or a --no-ff merge commit with the provenance trailer.
Gate ==
  /\ pc \in {"gate", "regate"}
  /\ \/ trailers' = trailers \cup {cur} /\ Goto("persist")
     \/ /\ UNCHANGED trailers
        /\ Park(IF pc = "regate" THEN "UNCHARGED" ELSE "STATE_INTACT")
  /\ UNCHANGED <<github, failures, redispatches, unit, pending, scheduler, history, faults>>

\* _persist_ci_green; its failure is logged and the merge still reported.
Persist ==
  /\ pc = "persist"
  /\ \/ Succeeds /\ labels' = [labels EXCEPT ![cur] = @ \cup {Merged}]
     \/ Fails("persist") /\ UNCHANGED labels
  /\ Goto("merged")
  /\ UNCHANGED <<blockedBy, pr, unitPR, disk, unit, pending, scheduler, history>>

MarkMerged ==
  /\ pc = "merged"
  /\ LabelEdit(cur, {}, {Progress, Done})
  /\ MarkDone(cur)
  /\ failures' = [failures EXCEPT ![cur] = 0]
  /\ NextIssue
  /\ UNCHANGED <<blockedBy, pr, unitPR, trailers, redispatches, unit, pending, history>>

-----------------------------------------------------------------------------
(* park_issue: read, decide and charge; edit and park; verify.             *)

\* Mutant of ParkDecide: a failure is not counted.
ParkUncounted ==
  /\ pc = "park" /\ Succeeds
  /\ edit' = [add       |-> ParkAdd(park, TRUE, labels[cur], FALSE),
              remove    |-> ParkRemove(park, TRUE, labels[cur], FALSE),
              exhausted |-> FALSE]
  /\ pc' = "edit" /\ UNCHANGED <<cur, park>>
  /\ UNCHANGED <<github, disk, unit, pending, scheduler, history>>

ParkDecide ==
  /\ pc = "park"
  /\ \E readable \in BOOLEAN :
       LET charged   == park = "CHARGED"
           count     == failures[cur] + 1
           exhausted == charged /\ count >= MaxFailures
       IN
       /\ IF readable THEN Succeeds ELSE Fails("labels")
       /\ failures' = [failures EXCEPT ![cur] = IF charged /\ @ < MaxFailures THEN count ELSE @]
       /\ edit' = [add       |-> ParkAdd(park, readable, labels[cur], exhausted),
                   remove    |-> ParkRemove(park, readable, labels[cur], exhausted),
                   exhausted |-> exhausted]
  /\ pc' = "edit" /\ UNCHANGED <<cur, park>>
  /\ UNCHANGED <<github, trailers, redispatches, unit, pending, scheduler, history>>

\* Only an exhausted park whose edit was accepted has something to verify
\* that changes state.
ParkEdit ==
  /\ pc = "edit"
  /\ LabelEdit(cur, edit.add, edit.remove)
  /\ MarkParked(cur)
  /\ IF edit.exhausted /\ Succeeds THEN Goto("verify") ELSE NextIssue
  /\ UNCHANGED <<blockedBy, pr, unitPR, disk, unit, pending, history>>

\* The tally starts over once the issue is seen to be agent-failed and only that.
ParkVerify ==
  /\ pc = "verify"
  /\ \/ /\ Succeeds
        /\ failures' = [failures EXCEPT ![cur] =
                          IF labels[cur] \cap StateLabels = {Failed} THEN 0 ELSE @]
     \/ Fails("labels") /\ UNCHANGED failures
  /\ NextIssue
  /\ UNCHANGED <<github, trailers, redispatches, unit, pending, scheduler, history>>

-----------------------------------------------------------------------------
\* _open_pr, for a remote branch with the merges of these issues: nothing to
\* open without any, and a pull request that exists already is left as it is.
UnitPullRequest(merges) ==
  IF unitPR.open \/ merges = {} THEN unitPR ELSE [open |-> TRUE, closes |-> done]

\* _complete_work_unit: push, then open the unit's pull request.  A failed push
\* is logged, and the pull request still opened on what was published before.
Complete ==
  /\ pc = "complete"
  /\ \/ Succeeds /\ pr' = Published /\ unitPR' = UnitPullRequest(trailers)
     \/ Fails("push") /\ pr' = pr /\ unitPR' = UnitPullRequest({i \in Issues : pr[i] = "merged"})
     \/ Fails("create") /\ pr' = Published /\ UNCHANGED unitPR
  /\ Leave
  /\ UNCHANGED <<blockedBy, labels, disk, history>>

Daemon ==
  \/ Tick \/ Recheck \/ Begin \/ SetUp \/ Frontier \/ Pick
  \/ Reentry \/ Redispatch \/ ClearOrphan
  \/ PreDispatch \/ Claim \/ Launch \/ Refused \/ Worker \/ Hook
  \/ Outcome \/ Converge \/ Gate \/ Persist \/ MarkMerged
  \/ ParkDecide \/ ParkEdit \/ ParkVerify \/ Complete

-----------------------------------------------------------------------------
(* The environment.                                                        *)

Crash ==
  /\ pc # "idle" /\ crashes < MaxCrashes
  /\ crashes' = crashes + 1
  /\ Leave
  /\ UNCHANGED <<github, disk, launches, acts, faults>>

\* greenlight: label a stateless issue agent-ready.  requeue: answer a blocked
\* or triage a failed issue and make it ready again.  unblock, triage: take
\* the excluding label away and no more.  block: label it blocked; swap: the
\* same, taking agent-ready away as well.
HumanEdit(act, L) ==
  CASE act = "greenlight" /\ L \cap AllLabels = {} -> {Ready}
    [] act = "requeue" /\ L \cap Excluded # {}     -> Edit(L, {Ready}, Excluded)
    [] act = "unblock"                             -> L \ {Blocked}
    [] act = "triage"                              -> L \ {Failed}
    [] act = "block"                               -> L \cup {Blocked}
    [] act = "swap" /\ Ready \in L                 -> Edit(L, {Blocked}, {Ready})
    [] OTHER                                       -> L

Human(i) ==
  /\ Len(acts) < MaxActs
  /\ \E act \in HumanActs :
       /\ HumanEdit(act, labels[i]) # labels[i]
       /\ labels' = [labels EXCEPT ![i] = HumanEdit(act, @)]
       /\ launches' = IF act \in {"greenlight", "requeue"}
                        THEN [launches EXCEPT ![i] = 0] ELSE launches
       /\ acts' = Append(acts, act)
  /\ UNCHANGED <<blockedBy, pr, unitPR, disk, pc, unit, pending, task, scheduler, crashes, faults>>

\* Each issue starts untouched, greenlit or not.
Init ==
  /\ blockedBy \in BlockerGraphs
  /\ labels \in [Issues -> {{}, {Ready}}]
  /\ pr = [i \in Issues |-> "none"]
  /\ unitPR = NoUnitPR
  /\ trailers = {}
  /\ failures = [i \in Issues |-> 0]
  /\ redispatches = [i \in Issues |-> 0]
  /\ pc = "idle" /\ greenlit = {} /\ class = Fresh /\ pending = {}
  /\ cur = NoIssue /\ park = NoPark /\ edit = NoEdit
  /\ graph = <<>> /\ phase = "new"
  /\ consumed = {} /\ handed = {} /\ done = {} /\ parked = {}
  /\ launches = [i \in Issues |-> 0]
  /\ crashes = 0 /\ faults = <<>> /\ acts = <<>>

Next == Daemon \/ Crash \/ \E i \in Issues : Human(i)

Spec == Init /\ [][Next]_vars

\* The process keeps running.  Worker turns and the CI poll have time limits, and
\* a killed daemon is restarted; that the calls of gh and git return is assumed
\* (chain/subproc.py:30 sets no limit).
FairSpec == Spec /\ WF_vars(Daemon)

-----------------------------------------------------------------------------
Pcs == {"idle", "recheck", "begin", "setup", "frontier", "pick", "reentry",
        "redispatch", "clear", "predispatch", "claim", "launch", "refused",
        "worker", "hook", "failedhook", "pr_created", "no_pr", "converge", "gate", "regate",
        "persist", "merged", "park", "edit", "verify", "complete"}

\* A worker is being started, or is running, on the issue in hand.
Dispatching == pc \in {"claim", "launch", "worker", "hook", "failedhook"}

TypeOK ==
  /\ blockedBy \in BlockerGraphs
  /\ labels \in [Issues -> SUBSET AllLabels]
  /\ pr \in [Issues -> {"none", "open", "merged"}]
  /\ unitPR \in [open : BOOLEAN, closes : SUBSET Issues]
  /\ trailers \subseteq Issues
  /\ failures \in [Issues -> 0..MaxFailures]
  /\ redispatches \in [Issues -> 0..MaxRedispatch]
  /\ pc \in Pcs
  /\ greenlit \subseteq Issues
  /\ class \in [Issues -> {"fresh", "done", "gate", "parked", "redispatch"}]
  /\ pending \subseteq Issues
  /\ cur \in Issues \cup {NoIssue}
  /\ (cur = NoIssue) = (pc \in {"idle", "recheck", "begin", "setup", "frontier", "pick", "complete"})
  /\ park \in ParkClasses \cup {NoPark}
  /\ edit \in Edits
  /\ launches \in [Issues -> Nat]
  /\ crashes \in 0..MaxCrashes
  /\ faults \in Seq(Calls) /\ Len(faults) <= MaxFaults
  /\ acts \in Seq(Acts) /\ Len(acts) <= MaxActs

\* "Merge-commit order follows the topological ready queue": whatever crashes,
\* fails or is relabelled, an issue is on the feature branch only with all of
\* its blockers, as long as the members of the milestone could be listed.
MergeOrder ==
  ~ CallFailed("members") => \A i \in trailers : blockedBy[i] \subseteq trailers

\* No worker starts on an issue before everything that blocks it is merged,
\* as long as the members could be listed, and none starts on an issue that is
\* merged already, as long as the branch's history could be read.
DispatchOrder ==
  Dispatching =>
    /\ CallFailed("members") \/ blockedBy[cur] \subseteq trailers
    /\ CallFailed("provenance") \/ cur \notin trailers

\* What the scheduler counts as done is on the branch, so that a dependent is
\* never released, nor an issue closed with the unit's pull request, on a verdict
\* the branch does not bear out.
DoneIsMerged == done \cup unitPR.closes \subseteq trailers

\* C-I4 and the serial contract B-I3: agent-in-progress is carried by the
\* issue in hand and by no other, so that every terminal path cleared it,
\* whatever else fails but the edit that clears it.
InProgressIsCurrent == crashes = 0 /\ ~ CallFailed("edit") => Orphans \subseteq {cur}

\* Bounded rework: between two human requests an issue gets a worker at most
\* once per charged failure, and once more per crash or failed call.
LaunchBound ==
  \A i \in Issues : launches[i] <= MaxFailures + crashes + Len(faults)

\* The loop drives the scheduler by its contract: each step of the daemon is
\* a step of IssueScheduler, a fresh prepared scheduler, or its disposal.
FreshScheduler == phase' = "prepared" /\ Sched!Acyclic(graph') /\ consumed' = {}
                  /\ handed' = {} /\ done' = {} /\ parked' = {}
UsesScheduler ==
  [][Sched!Next \/ FreshScheduler \/ phase' = "new"]_scheduler

\* A tick ends: the loop over the frontier terminates on every graph.
TickEnds == pc # "idle" ~> pc = "idle"

\* An issue and all that blocks it, directly or through others.
Upstream(i) ==
  {j \in Issues : \A S \in SUBSET Issues :
     i \in S /\ (\A m \in S : blockedBy[m] \subseteq S) => j \in S}

\* Merges that are on the branch and on the issue's labels: recovery's rule 1.
Recorded == {j \in trailers : Merged \in labels[j]}

\* An issue that is not merged does not stay in progress: whatever a crash or
\* one failed call left, a later tick parks it, dispatches it or gates it, once
\* all it rests on is recorded as merged.  Below an issue that is not recorded
\* it does stay: an unrecorded merge is re-entered in every tick, parked for want
\* of an open pull request, and what it blocks is cut off with it, labels untouched
\* (work_unit.py:529-600, scheduler.py:131-137); and an issue that was started
\* over its blockers, because the members could not be listed, waits for them.
OrphansRecovered ==
  \A i \in Issues :
    i \in Orphans \ trailers
      ~> i \notin Orphans \/ i \in trailers \/ ~ (Upstream(i) \ {i} \subseteq Recorded)

-----------------------------------------------------------------------------
(* A statement of the documentation that the code refutes.                 *)

\* "Daemon died after merging but before writing the label. Re-enter the CI
\* gate": a merge on the feature branch is recorded on the issue in the end.
MergesAreRecorded == \A i \in Issues : i \in trailers ~> Merged \in labels[i]
=============================================================================
