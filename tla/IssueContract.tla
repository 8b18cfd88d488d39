---------------------------- MODULE IssueContract ----------------------------
(***************************************************************************)
(* What the daemon promises about one issue, whatever happens inside a     *)
(* dispatch: at which stage who may touch which labels, when an attempt is *)
(* charged, and what it takes to be put before the CI gate.  WorkUnit is   *)
(* written to this contract; IssueRun, call by call, is shown to keep it.  *)
(*                                                                         *)
(*   idle -> claiming -> claimed -> worker -> judging -> finding ->        *)
(*   testing -> recording -> idle, with refused, charging and parking on   *)
(*   the side; recovery has an issue that is done, or that was merged      *)
(*   without a record of it, found and tested once more.                   *)
(***************************************************************************)
EXTENDS Labels, Naturals

CONSTANT FailureLimit

VARIABLES
  stage,       \* how far the dispatch has come
  labels,
  prOpen,
  hookAlive,   \* an after_run hook is running, waited for or not
  hookSawPR,   \* it has seen the pull request open
  onBranch,    \* the issue's work is on the feature branch
  failures,    \* charged attempts
  stored       \* the file they are kept in, any write to which may be lost

vars == <<stage, labels, prOpen, hookAlive, hookSawPR, onBranch, failures, stored>>

Moves(from, to) == stage = from /\ stage' \in to
Counts(n) == failures' = n /\ stored' \in {stored, n}
KeepsCount == UNCHANGED <<failures, stored>>
Hooks == <<hookAlive, hookSawPR>>
Keeps == UNCHANGED <<prOpen, onBranch>> /\ KeepsCount

\* A dispatch begins.  An issue is tested again when it claims to be done, and is
\* parked at once when it is blocked.  One whose work is on the branch is only
\* ever tested again, and that not once the merge is recorded.
Take ==
  /\ Moves("idle", {"claiming", "refinding", "parking"})
  /\ IF onBranch THEN stage' = "refinding" /\ Merged \notin labels
     ELSE /\ stage' = "refinding" => Done \in labels /\ prOpen /\ Blocked \notin labels
          /\ stage' = "parking" => Blocked \in labels
  /\ UNCHANGED <<labels, Hooks>> /\ Keeps

Claiming ==
  /\ Moves("claiming", {"claiming", "claimed", "parking"})
  /\ labels' \in {labels, labels \ {Progress}, Edit(labels, {Progress}, {Ready})}
  /\ UNCHANGED Hooks /\ Keeps

\* Without a launch there is nothing to charge.
Launch ==
  /\ Moves("claimed", {"claimed", "worker", "refused", "parking"})
  /\ UNCHANGED <<labels, Hooks>> /\ Keeps

Refuse ==
  /\ Moves("refused", {"parking"})
  /\ labels' \in {labels, Edit(labels, {Ready}, {Progress})}
  /\ UNCHANGED Hooks /\ Keeps

\* The worker's only label is blocked; only the worker opens a pull request; a
\* run that raises is charged.
Work ==
  /\ Moves("worker", {"worker", "judging", "charging"})
  /\ labels' \in {labels, labels \cup {Blocked}}
  /\ prOpen => prOpen'
  /\ hookAlive => hookAlive'
  /\ hookSawPR' = hookSawPR
  /\ UNCHANGED onBranch /\ KeepsCount

\* An issue that ran goes before the gate only while it shows no state but
\* agent-done or agent-ready, and with a pull request that was seen open.
Judge ==
  /\ Moves("judging", {"finding", "testing", "charging", "parking"})
  /\ stage' \in {"finding", "testing"} => labels \cap StateLabels \subseteq {Done, Ready, Failed}
  /\ stage' = "testing" => prOpen
  /\ UNCHANGED <<labels, Hooks>> /\ Keeps

Find ==
  /\ Moves("finding", {"testing", "charging"}) \/ Moves("refinding", {"retesting", "parking"})
  /\ stage' \in {"testing", "retesting"} => prOpen
  /\ UNCHANGED <<labels, Hooks>> /\ Keeps

Test ==
  /\ Moves("testing", {"testing", "recording", "parking"}) \/ Moves("retesting", {"recording", "parking"})
  /\ onBranch' = (onBranch \/ stage' = "recording")
  /\ labels' = labels \/ (stage' = "testing" /\ labels' = Edit(labels, {Done}, {Progress}))
  /\ UNCHANGED <<Hooks, prOpen>> /\ KeepsCount

Record ==
  /\ Moves("recording", {"recording", "idle"})
  /\ labels' \in {labels, labels \cup {Merged}, labels \ {Progress, Done}}
  /\ IF stage' = "idle" THEN Counts(0) ELSE KeepsCount
  /\ UNCHANGED <<prOpen, Hooks, onBranch>>

\* One charge for each attempt that is charged, up to the limit.
Charge ==
  /\ Moves("charging", {"parking"})
  /\ Counts(IF failures < FailureLimit THEN failures + 1 ELSE failures)
  /\ UNCHANGED <<labels, prOpen, Hooks, onBranch>>

\* A park adds at most one state label, takes agent-in-progress away and ends
\* the dispatch; the count starts over only on an issue that is agent-failed.
ParkEdits == {Edit(labels, add, remove \cup {Progress}) :
                add \in {{}, {Ready}, {Failed}}, remove \in SUBSET StateLabels}
Park ==
  /\ Moves("parking", {"parking", "idle"})
  /\ labels' = labels \/ labels' \in ParkEdits
  /\ KeepsCount \/ (labels \cap StateLabels = {Failed} /\ Counts(0))
  /\ UNCHANGED <<prOpen, Hooks, onBranch>>

\* The hook looks for the pull request, takes agent-ready away, or adds one of its
\* two labels: agent-done only if it has seen the pull request open.
HookSteps ==
  /\ hookAlive
  /\ labels' \in {labels, labels \ {Ready}, labels \cup {Blocked}}
                   \cup IF hookSawPR THEN {labels \cup {Done}} ELSE {}
  /\ hookSawPR' => hookSawPR \/ prOpen
  /\ UNCHANGED stage /\ Keeps

Human ==
  /\ labels' \in {Edit(labels, {Ready}, Excluded), labels \cup {Blocked}}
  /\ UNCHANGED <<stage, Hooks>> /\ Keeps

\* A human closes the pull request, or GitHub does when what was merged is pushed.
Close ==
  /\ prOpen' = FALSE
  /\ UNCHANGED <<stage, labels, Hooks, onBranch>> /\ KeepsCount

\* The next start counts what the file says, or from zero if it says nothing.
Crash ==
  /\ stage' = "idle"
  /\ failures' \in {stored, 0}
  /\ UNCHANGED <<labels, Hooks, prOpen, onBranch, stored>>

Init ==
  /\ stage = "idle" /\ labels = {Ready} /\ prOpen = FALSE
  /\ hookAlive = FALSE /\ hookSawPR = FALSE /\ onBranch = FALSE /\ failures = 0 /\ stored = 0

Next ==
  \/ Take \/ Claiming \/ Launch \/ Refuse \/ Work \/ Judge \/ Find \/ Test
  \/ Record \/ Charge \/ Park \/ HookSteps \/ Human \/ Close \/ Crash

Spec == Init /\ [][Next]_vars
=============================================================================
