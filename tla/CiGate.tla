------------------------------- MODULE CiGate -------------------------------
(***************************************************************************)
(* The CI gate and the merge behind it (chain/merge.py, and _run_ci_gate   *)
(* of chain/daemon/gh_api_helpers.py).  The gate polls GitHub Actions for  *)
(* the jobs of one commit: it lists the workflow runs and then asks for    *)
(* the jobs of each, in ascending order of run, one call at a time.  A     *)
(* required job counts with the state it has in the highest run that has   *)
(* it.  Meanwhile runs are added, jobs start, end and are run again, so an *)
(* answer is as old as the call it came with.                              *)
(*                                                                         *)
(* On green the issue's branch is merged into the feature branch of the    *)
(* daemon's checkout, and the fact is recorded on the issue.               *)
(***************************************************************************)
EXTENDS Naturals, Sequences, FiniteSets

CONSTANTS
  Issues, NoIssue,
  Required,      \* required_checks, in the order they are configured
  MaxRuns,       \* bound: workflow runs of one commit
  MaxFaults      \* bound: calls that fail, and crashes

Checks == {Required[i] : i \in DOMAIN Required}

ASSUME GateConstantsOK ==
  /\ Required \in Seq(Checks) /\ Required # <<>>
  /\ NoIssue \notin Issues
  /\ MaxRuns \in Nat /\ MaxFaults \in Nat

VARIABLES
  \* GitHub Actions, for the commit at the gate
  made, runs,      \* workflow runs so far, and the state of each job in each
  \* evaluate_ci
  pc,
  cur,             \* the issue at the gate
  listed, pos,     \* runs of the current listing, and those asked for so far
  found,           \* by_name: what they said
  late,            \* the deadline has passed
  verdict,         \* CiResult
  outcome,         \* MergeOutcome
  \* the checkout and the issues
  feature,         \* issues merged into the feature branch
  midMerge,        \* a merge is under way in the checkout
  recorded,        \* issues with agent-merged
  marked,          \* issues with the marker comment
  \* what was true when, for the properties
  held,            \* states a check has had, as far as listed, since the listing
  faults

ci    == <<made, runs>>
poll  == <<listed, pos, found>>
git   == <<feature, midMerge>>
issue == <<recorded, marked>>
vars  == <<ci, pc, cur, poll, late, verdict, outcome, git, issue, held, faults>>

States  == {"absent", "running", "pass", "fail"}
RunIds  == 1..MaxRuns
NoJobs  == [j \in Checks |-> "absent"]
Polling == {"list", "read"}

Goto(p) == pc' = p
Fails   == faults < MaxFaults /\ faults' = faults + 1
Works   == UNCHANGED faults

\* The checks that are through in rs, each in the highest of the first n runs
\* that has it.
Holding(rs, n) ==
  {h \in Checks \X {"pass", "fail"} :
     \E r \in 1..n : rs[r][h[1]] = h[2] /\ \A q \in (r + 1)..n : rs[q][h[1]] = "absent"}

-----------------------------------------------------------------------------
(* GitHub Actions.  A job of a run never disappears; a re-run shows in the *)
(* run it belongs to.  Nobody looks once there is a verdict.               *)

CiGoesOn ==
  /\ held' = held \cup Holding(runs', listed)
  /\ UNCHANGED <<pc, cur, poll, late, verdict, outcome, git, issue, faults>>

NewRun ==
  /\ pc \in Polling /\ made < MaxRuns
  /\ made' = made + 1 /\ UNCHANGED runs
  /\ CiGoesOn

JobMoves ==
  /\ pc \in Polling
  /\ \E r \in 1..made, j \in Checks, s \in States \ {"absent"} :
       /\ runs[r][j] = "running" => s \in {"pass", "fail"}
       /\ runs[r][j] # "running" => s = "running"
       /\ runs' = [runs EXCEPT ![r][j] = s]
  /\ UNCHANGED made
  /\ CiGoesOn

DeadlinePasses ==
  /\ pc \in Polling /\ ~ late
  /\ late' = TRUE
  /\ UNCHANGED <<ci, pc, cur, poll, verdict, outcome, git, issue, held, faults>>

-----------------------------------------------------------------------------
(* evaluate_ci.                                                            *)

\* A commit's runs and a poll are looked at no more once the gate has ended, and
\* nothing is known of them when it begins.
Afresh ==
  /\ made' = 0 /\ runs' = [r \in RunIds |-> NoJobs]
  /\ listed' = 0 /\ pos' = 0 /\ found' = NoJobs
  /\ late' = FALSE /\ held' = {}

\* _run_ci_gate for an issue whose merge is not recorded; a crash may have
\* come before the record.  Its commit has a history of its own.
Begin ==
  /\ pc = "idle"
  /\ \E n \in Issues \ recorded : cur' = n
  /\ verdict' = "none" /\ outcome' = "none"
  /\ Goto("list") /\ Afresh
  /\ UNCHANGED <<git, issue, faults>>

\* An exception: _run_ci_gate parks the issue and calls it CI_FAILED.
Raise ==
  /\ Goto("idle") /\ outcome' = "CI_FAILED"
  /\ UNCHANGED <<cur, verdict, git, issue>> /\ Afresh

\* actions/runs?head_sha=.  A permission error and any other failure raise.
List ==
  /\ pc = "list"
  /\ \/ /\ Works /\ Goto("read")
        /\ listed' = made /\ pos' = 0 /\ found' = NoJobs
        /\ held' = Holding(runs, made)
        /\ UNCHANGED <<ci, cur, late, verdict, outcome, git, issue>>
     \/ Fails /\ Raise

\* Mutant of Merged: the first run that has a job wins.
FirstRunWins(f, r) == [j \in Checks |-> IF f[j] = "absent" THEN r[j] ELSE f[j]]

\* by_name after one more run's jobs.
Merged(f, r) == [j \in Checks |-> IF r[j] = "absent" THEN f[j] ELSE r[j]]

\* Mutant of Read: the run after the first is skipped.
ReadSkips ==
  /\ pc = "read" /\ pos < listed
  /\ Works
  /\ found' = Merged(found, runs[pos + 1]) /\ pos' = IF pos = 0 THEN pos + 2 ELSE pos + 1
  /\ UNCHANGED <<ci, pc, cur, listed, late, verdict, outcome, git, issue, held>>

\* actions/runs/<id>/jobs of the next run.
Read ==
  /\ pc = "read" /\ pos < listed
  /\ \/ /\ Works
        /\ found' = Merged(found, runs[pos + 1]) /\ pos' = pos + 1
        /\ UNCHANGED <<ci, pc, cur, listed, late, verdict, outcome, git, issue, held>>
     \/ Fails /\ Raise

\* _classify_check_runs: the first required check that has not passed decides.
Green(f) == \A i \in DOMAIN Required : f[Required[i]] = "pass"
Red(f)   == \E i \in DOMAIN Required :
              f[Required[i]] = "fail" /\ \A k \in 1..(i - 1) : f[Required[k]] = "pass"

\* The verdict stands, on what this poll has found.
Decided == Goto("decide") /\ UNCHANGED <<poll, held>>

\* What a poll has found is of no use to the next.
PollAgain ==
  /\ Goto("list") /\ UNCHANGED verdict
  /\ listed' = 0 /\ pos' = 0 /\ found' = NoJobs /\ held' = {}

\* Mutant of Judge: each poll has a deadline of its own.
JudgeRestartsClock ==
  /\ pc = "read" /\ pos = listed
  /\ \/ Green(found) /\ verdict' = "GREEN" /\ Decided
     \/ Red(found) /\ verdict' = "RED" /\ Decided
     \/ ~ Green(found) /\ ~ Red(found) /\ PollAgain
  /\ late' = FALSE
  /\ UNCHANGED <<ci, cur, outcome, git, issue, faults>>

\* A poll that decides nothing is the last one if the deadline has passed.
Judge ==
  /\ pc = "read" /\ pos = listed
  /\ \/ Green(found) /\ verdict' = "GREEN" /\ Decided
     \/ Red(found) /\ verdict' = "RED" /\ Decided
     \/ ~ Green(found) /\ ~ Red(found) /\ late /\ verdict' = "TIMEOUT" /\ Decided
     \/ ~ Green(found) /\ ~ Red(found) /\ ~ late /\ PollAgain
  /\ UNCHANGED <<ci, cur, late, outcome, git, issue, faults>>

-----------------------------------------------------------------------------
(* merge_issue_branch after the verdict.                                   *)

MergeOnly == UNCHANGED <<ci, cur, poll, late, verdict, held>>

\* Mutant of Decide: only a red verdict keeps the branch out.
DecideOnRed ==
  /\ pc = "decide"
  /\ \/ verdict # "RED" /\ Goto("checkout") /\ UNCHANGED outcome
     \/ verdict = "RED" /\ Goto("idle") /\ outcome' = "CI_FAILED"
  /\ UNCHANGED <<cur, verdict, git, issue, faults>> /\ Afresh

Decide ==
  /\ pc = "decide"
  /\ \/ verdict = "GREEN" /\ Goto("checkout") /\ UNCHANGED outcome
     \/ verdict = "RED" /\ Goto("idle") /\ outcome' = "CI_FAILED"
     \/ verdict = "TIMEOUT" /\ Goto("idle") /\ outcome' = "CI_TIMEOUT"
  /\ UNCHANGED <<cur, verdict, git, issue, faults>> /\ Afresh

\* git refuses to switch branches over an unfinished merge.
Checkout ==
  /\ pc = "checkout"
  /\ \/ ~ midMerge /\ Works /\ Goto("merge") /\ UNCHANGED <<outcome, git, issue>> /\ MergeOnly
     \/ midMerge /\ Works /\ Raise
     \/ Fails /\ Raise

\* Mutant of Merge: the exit status of git merge is not looked at.
MergeUnchecked ==
  /\ pc = "merge"
  /\ \/ Works /\ feature' = feature \cup {cur} /\ UNCHANGED midMerge
     \/ cur \notin feature /\ Works /\ midMerge' = TRUE /\ UNCHANGED feature
     \/ Fails /\ UNCHANGED git
  /\ Goto("label")
  /\ UNCHANGED <<outcome, issue>> /\ MergeOnly

\* git merge --no-ff.  A branch that is merged already is "up to date"; any other
\* may conflict with what the feature branch has by now.  A failure of another
\* kind leaves no merge behind.
Merge ==
  /\ pc = "merge"
  /\ \/ Works /\ feature' = feature \cup {cur} /\ Goto("label") /\ UNCHANGED midMerge
     \/ /\ cur \notin feature /\ Works
        /\ midMerge' = TRUE /\ Goto("abort") /\ UNCHANGED feature
     \/ Fails /\ Goto("abort") /\ UNCHANGED git
  /\ UNCHANGED <<outcome, issue>> /\ MergeOnly

\* git merge --abort, whose own failure nobody looks at.
Abort ==
  /\ pc = "abort"
  /\ \/ Works /\ midMerge' = FALSE
     \/ Fails /\ UNCHANGED midMerge
  /\ outcome' = "MERGE_CONFLICT" /\ Goto("idle")
  /\ UNCHANGED <<feature, issue>> /\ MergeOnly

\* _persist_ci_green: label and comment, each whatever became of the other.
Label ==
  /\ pc = "label"
  /\ \/ Works /\ recorded' = recorded \cup {cur}
     \/ Fails /\ UNCHANGED recorded
  /\ Goto("comment")
  /\ UNCHANGED <<outcome, git, marked>> /\ MergeOnly

Comment ==
  /\ pc = "comment"
  /\ \/ Works /\ marked' = marked \cup {cur}
     \/ Fails /\ UNCHANGED marked
  /\ outcome' = "MERGED" /\ Goto("idle")
  /\ UNCHANGED <<git, recorded>> /\ MergeOnly

\* The daemon dies; the checkout and GitHub stay as they are.
Crash ==
  /\ pc # "idle" /\ Fails
  /\ Goto("idle") /\ outcome' = "none"
  /\ UNCHANGED <<cur, verdict, git, issue>> /\ Afresh

-----------------------------------------------------------------------------
Init ==
  /\ made = 0 /\ runs = [r \in RunIds |-> NoJobs]
  /\ pc = "idle" /\ cur = NoIssue
  /\ listed = 0 /\ pos = 0 /\ found = NoJobs
  /\ late = FALSE /\ verdict = "none" /\ outcome = "none"
  /\ feature = {} /\ midMerge = FALSE /\ recorded = {} /\ marked = {}
  /\ held = {} /\ faults = 0

Gate == List \/ Read \/ Judge \/ Decide \/ Checkout \/ Merge \/ Abort \/ Label \/ Comment
Env  == NewRun \/ JobMoves \/ DeadlinePasses

Next == Begin \/ Gate \/ Env \/ Crash

Spec == Init /\ [][Next]_vars

\* The gate's calls return, and the clock goes on.
FairSpec == Spec /\ WF_vars(Gate) /\ WF_vars(DeadlinePasses)

-----------------------------------------------------------------------------
TypeOK ==
  /\ made \in 0..MaxRuns /\ runs \in [RunIds -> [Checks -> States]]
  /\ pc \in Polling \cup {"idle", "decide", "checkout", "merge", "abort", "label", "comment"}
  /\ cur \in Issues \cup {NoIssue}
  /\ listed \in 0..MaxRuns /\ pos \in 0..listed /\ listed <= made
  /\ found \in [Checks -> States]
  /\ late \in BOOLEAN /\ verdict \in {"none", "GREEN", "RED", "TIMEOUT"}
  /\ outcome \in {"none", "MERGED", "CI_FAILED", "CI_TIMEOUT", "MERGE_CONFLICT"}
  /\ feature \subseteq Issues /\ midMerge \in BOOLEAN
  /\ recorded \subseteq Issues /\ marked \subseteq Issues
  /\ held \subseteq Checks \X {"pass", "fail"}
  /\ faults \in 0..MaxFaults

\* A green verdict has for every required check a moment since the runs were
\* listed at which the check had passed in the newest of them that has it, and
\* a red one has a required check that had failed.  Each check has a moment of its
\* own: nothing says that all of them had passed at once, and while runs and
\* re-runs move between the calls of a poll they need not have.
VerdictIsEarned ==
  pc = "decide" =>
    /\ verdict = "GREEN" => \A c \in Checks : <<c, "pass">> \in held
    /\ verdict = "RED"   => \E c \in Checks : <<c, "fail">> \in held

\* What recovery takes for a merge that was made is one: no label, no comment
\* and no MERGED without the branch on the feature branch, at whatever step a
\* call failed or the daemon died.
ProvenanceIsTrue ==
  /\ recorded \cup marked \subseteq feature
  /\ outcome = "MERGED" => cur \in feature

\* Nothing lands on the feature branch without a green verdict on the issue at
\* the gate, or over a merge that an earlier gate has left unfinished.
OnlyGreenLands ==
  [][feature' # feature => verdict = "GREEN" /\ ~ midMerge /\ feature' = feature \cup {cur}]_vars

\* Every gate ends, whatever GitHub Actions does in the meantime.
GateEnds == pc # "idle" ~> pc = "idle"
=============================================================================
