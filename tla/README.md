# Verification of baton-harness

`baton-harness` is a daemon that works through GitHub issues with an AI agent. It
polls for issues labelled `agent-ready`, orders the issues of a milestone by their
`blocked_by` dependencies, runs one worker at a time on them, gates each worker's
pull request on CI, merges it into a feature branch with a provenance trailer, and
parks what fails. Labels on GitHub are its durable state: a killed daemon rebuilds
everything else from them and from the branch.

These TLA+ modules model that core. TLC checks them on small instances; TLAPS proves
the theorems of the `*_proofs` modules for every instance. `PROJECT.json` maps each
definition to the lines it stands for and lists runs, mutants, hazards and theorems.

## 1. The system

| Component | State it keeps | Operations | Hard parts |
|---|---|---|---|
| Scheduler (`chain/scheduler.py`, `dag.py`) | graph, consumed, done, parked | prepare, get_ready, mark_done, mark_parked, is_active | parking and topological order have to agree, or the loop spins |
| Poll loop (`daemon/poll.py`) | per-tick snapshot and sets | list ready issues, live re-check, select units, find orphans, sweep worktrees | labels change between snapshot and use; every listing can fail |
| Work-unit loop (`daemon/work_unit.py`) | pending list, merged and parked issues | recover, dispatch, classify the worker's outcome, complete | about fifteen exits, each of which has to leave the labels right; a crash between any two calls |
| Recovery (`chain/recovery.py`) | none: derived from branch, PRs, labels | reconstruct | each signal may be unreadable and then counts as absent |
| Labels and parking (`labels.py`, `daemon/park.py`, `label_ops.py`) | labels on GitHub | five park classes, single-state check | read, decide and edit are three calls; humans and the hook edit too |
| CI gate and merge (`merge.py`, `gh_api_helpers.py`) | merge commits, `agent-merged` | poll CI, merge, persist, mark done | crash between merge and label; CI of one commit, merge of another |
| Failure tally, re-dispatch tally | two JSON files | count, reset; advance, record, check | bounded memory, swallowed write errors, restarts |
| Heartbeat (`chain/heartbeat.py`) | `LivenessState`, shared by two threads without a lock | mark, clear, note progress; monitor tick | torn snapshots, late write-backs, debounce |
| `after_run` hook | labels on GitHub | classify, relabel | runs in another process, may be killed between its edits |
| Worker run (`vendor/symphony/orchestrator.py`, worker, workspace, hooks) | a worktree, a pull request | turns, probes, hooks | stale probes between turns |
| Worktree hooks (`before_run.py`, `after_create.py`) | the worktree | set up once, rebase, abort | a worktree that an earlier run left half made or mid-rebase |
| Launch gate, push probe | a throwaway ref on the remote | preflight, probe, clean up | a push that timed out may have landed, or land later |
| Startup reconciliation (`reconcile.py`) | a marker file | gates, report of an ungraceful end | signals and kills between marker and work |
| Escalation, App tokens, reports, configuration | logs, tokens, files | alert, mint, append, parse | mostly I/O |
| Operator tools, policy checks, scripts | none | read, check, print | none that concern state |

The components interact through four things: calls (poll loop → work unit →
scheduler, park, gate), labels and pull requests on GitHub (daemon, hook, humans),
files (tallies, the local branch) that outlive a crash, and `LivenessState` (daemon
thread and monitor thread).

What makes each correct is stated by the properties below; `PROJECT.json` lists the
hazards behind them, each at its line.

## 2. The modules

| Module | Models |
|---|---|
| `IssueScheduler` | `IssueScheduler` and `build_dag`, with `graphlib` as their use requires |
| `Labels` | the labels, the single-state check, the reconciler, the label edit of each park class; pure operators |
| `WorkUnit` | one milestone from poll tick to completion, with `IssueScheduler` as an instance and `Labels` extended |
| `PollLoop` | the daemon's process (start, signals, kills) and its ticks: snapshot, re-check, drain over several units, orphan phase, worktree sweep |
| `IssueState` | what the parts of one issue's dispatch share: labels, pull request, branch, worktree, the budget of troubles |
| `LaunchGate` | `_launch_one_issue`, `_should_launch_worker` and the push-denial probe with its clean-ups |
| `WorkerRun` | `_run_worker`: worktree and set-up, rebase, turns with their probes, hook, result |
| `AfterRun` | the `after_run` hook, a process beside the daemon, one step per call |
| `IssueRun` | composes those three with the daemon's part (claim, outcome, gate, park, failure tally) into the whole life of one issue, call by call |
| `IssueContract` | abstract: at which stage who may relabel the issue, when an attempt is charged, what goes before the CI gate |
| `CiGate` | `evaluate_ci`, the merge's git commands, the record; GitHub Actions as environment |
| `Heartbeat` | `LivenessState` and the stall monitor, one step per field access |
| `RestartLimiter` | the promise of re-dispatch-loop detection: abstract, no memory limit, file or crash |
| `RedispatchTally` | the tally that implements it: prune, persist, restart |
| `IssueScheduler_proofs`, `WorkUnit_proofs`, `PollLoop_proofs`, `IssueRun_proofs`, `CiGate_proofs`, `Heartbeat_proofs`, `RedispatchTally_proofs`, `Labels_proofs` | theorems and their proofs |
| `MC*` | instances for TLC |

Definitions named "Mutant of ..." are seeded bugs. They are used in no specification;
each shows that a property notices the error it is there for.

### IssueScheduler

One action per method. `Subtree` states what the work list of `mark_parked` computes
as the least set closed under live dependents; `RawReady` is what the sorter would
pass out. The graph is any graph over subsets of `Issues`, cyclic ones included.

### WorkUnit

State is grouped by what a crash leaves behind: `github` (labels, pull requests),
`disk` (merge commits of the feature branch, the two tallies), and the process
(program counter, `agent_ready_issues`, recovery's classes, `pending`, the issue in
hand, the scheduler). `Crash` resets the last group at any step.

A step is the code between two calls to the outside, so human edits, failures and
crashes come between any two calls. `pc` follows `_run_work_unit`: `Begin` and
`SetUp` build graph and classes, `Frontier` and `Pick` are the loop, `Reentry`,
`Redispatch`, `ClearOrphan`, `PreDispatch`, `Claim`, `Launch`, `Refused` lead to a
worker or past it, `Worker`, `Hook`, `Outcome`, `Converge` to a verdict, `Gate`,
`Persist`, `MarkMerged` to a merge, and `ParkDecide`, `ParkEdit`, `ParkVerify` are
`park_issue`, reached from every failing exit with the class it names.

A query for blockers, the creation of the feature branch and its checkout raise through
`_run_work_unit` when they fail (`BlockersFail`, `BranchFails`, `CheckoutFails`); every
other failing call is handled where it happens. A failed completion push is only logged:
the unit's pull request is still opened on what the remote has, and may then close an
issue whose merge is on the local branch only, until the next early push.

`Fails(call)` is a call that fails; what follows is what the code does then (retry
is always the next tick). `faults` and `acts` record which calls failed and what
humans did, so that a property can say what it depends on.

### PollLoop

`Boot`, `Look`, `Write` and `Start` are the start: gates, the search for an old marker,
the marker of this run, the signal handler. `Terminate`, `Unlink` and `Exit` are the
ordered way out, in which the handler or the finally block removes the marker. A kill may
come at every step of all that: `KillStarting` before the run's marker is written, `Kill`
from then on, `KillStopping` once the marker has been removed. The last of these leaves
nothing behind that the next start could find, so `KillIsTold` does not ask for a report
of it; what it says of all others is an equivalence, so that a refused or killed start
in between neither loses a report nor makes one up.

A tick is `Snapshot`, `Recheck` issue by issue, `BeginDrain`, then `Select`, `MidDrain`,
`StartUnit`, `WorkOn`, `EndUnit` per unit, then `ListOrphans`, `NextOrphan` with the same
unit steps, and the sweep: `BeginSweep`, for each worktree `View`, `Status`, `Ahead` and
`Remove`, then `EndSweep`. A worktree is the set of what is in it (a tree, uncommitted
edits, commits without an upstream). Between any two of the sweep's steps `Stray`, a
process that outlived an earlier daemon or a human, may edit, commit or push there. `old`
follows the work that was there when the examination began, through a commit or a push.
`NoWorkLost` says that none of it is removed with its worktree; the order of the probes
matters (log before status would miss a commit between them). Work that is written after
its probe has passed is removed, which no order of probes can prevent. Where `WorkUnit` has one unit in detail, `WorkOn`
leaves any single state and any worktree on any member that the unit may work on.
`due`, `ran`, `skipped`, `live`, `prior`, `old` record for the properties what was owed, done
and true; the code reads none of them.

The sweep looks only at worktrees whose branch is `baton/<N>` (`recovery.py:399`),
while `workspace.py:139` names branches `baton/<slug>-<N>`: on the daemon's own
worktrees the sweep never acts. `Numbered` leaves open which worktrees it recognises,
so `NoWorkLost` is about the predicate and holds for every answer.

### IssueState, LaunchGate, WorkerRun, AfterRun, IssueRun

One issue without neighbours, and every call of its dispatch a step. `IssueState`
declares what the parts share, each part adds its variables and steps, and `IssueRun`
puts them together: `pc` names the daemon's next call, `hook` the hook's. A commit is
the number of the moment it was made, so "what was tested" and "what was merged" can
be compared across the local branch (`head`), the remote-tracking ref (`pushed`) and
GitHub (`prHead`).

A *trouble* is a call that fails, a crash or a human's act. `Possible` names those of a
run and `MaxTroubles` how many happen; `happened` lets a property say what it depends on.

- The worktree outlives the run, with whatever an earlier run left in it: a failed
  set-up, changes, a rebase under way, the sentinel of a merge attempt.
- `run_hook`'s timeout kills the shell, not what the shell started (`hooks.py:144`), so
  the hook may go on as a stray, as it may when its daemon dies. At most one hook runs
  at a time: a stray that outlives the whole next run is left out.
- The failure tally has a memory and a file; any write to the file may be lost, and a
  start may find it unreadable.
- A worker's turn commits, pushes, opens a pull request, edits, blocks or tries to
  merge, in any combination; a human may push to its branch.
- A pull request closes when a human closes it, or (`Publish`) when the work unit's branch
  is pushed with the merge on it; the next tick's recovery then finds none to re-enter.
- `protected` is whether the remote denies the worker's push, for whatever reason: the
  probe takes any text with `403` or `declined` in it for the protection's.

`IssueContract` is the abstraction of all that: a stage, the labels, whether a pull
request is open and the merge on the branch, a living hook, and the count. `KeepsContract` is the refinement, with
`Stage` as the mapping of `pc`.

### CiGate

The gate's calls are single steps: list the runs, ask each for its jobs in ascending
order, judge. Between them `NewRun`, `JobMoves` (re-runs too) and `DeadlinePasses`
change what GitHub would say. A job of a run never disappears. `held` records what has
been true since the listing; `VerdictIsEarned` compares the verdict with it. Runs and
jobs of a commit are forgotten when its gate ends.

### Heartbeat

The daemon thread assigns fields in source order, the monitor copies them in source
order, and nothing makes either atomic. A job is one dispatch of one issue.
Timestamps carry the job they were taken for; the code never reads that part, the
properties do. Time stands still between two assignments of one method, and passes
between any two steps of the monitor, whose alerts are network calls. The issue of an
alert is the copied one, which may be another than the job whose start was copied; and
an alert's `gh` call, which has no time limit, may never return (`AlertHangs`).

### RedispatchTally

`advance_tick` and `record_and_check` each in two steps, before and during the write,
so that a crash can come in between; `cycle`, `attempts` and `refusals` record what
really happened and are the variables of `RestartLimiter`.

## 3. What is checked

| Run | Question | Bounds |
|---|---|---|
| `scheduler` | Does the scheduler hand out in order, cut whole sub-trees, keep verdicts and never stall? | every dependency graph over three issues: the smallest with chains, diamonds' halves and cycles |
| `work_unit` | Do order, labels, scheduler contract and bounded rework survive one crash, one failed call of any kind and one human edit, anywhere? | two issues, a chain and a cycle; two failures exhaust an issue, one re-dispatch allowed |
| `work_unit_liveness` | Does each tick end, and is each orphan taken up whose blockers are recorded as merged? | two issues in a chain; one crash, one failed call of any of the fifteen kinds, one requeue by a human |
| `issue_run` | Is a launch proven, do labels tell the truth, is what was tested merged, and does the dispatch keep `IssueContract`? | two dispatches, two turns, two commits, two lookups, two failures to exhaustion; any two of 28 troubles |
| `ci_gate` | Are verdicts earned, does only green land, is the record true, does the gate end? | two required checks, two workflow runs, one failed call or crash; one issue, as often as it is not recorded |
| `poll_loop` | Is every unit served, once, on live labels, and do ticks go on? | three issues (a milestone of two and a single one), a leftover worktree, any one of 15 troubles |
| `restarts` | Does start-up tell a kill from a clean end, and does the sweep keep what was there when it looked? | two single issues, one worktree of any contents left over, any four of ten troubles |
| `heartbeat` | Are stalls real, alerted about once per episode, and in the end? | two episodes, clock to 2, one failed alert |
| `redispatch` | Does the tally implement `RestartLimiter`, and how far can lost writes stretch it? | two issues, window 3, maximum 1, six cycles, two lost writes, any number of restarts |

Two issues suffice for `WorkUnit`'s properties because each relates an issue to its
blockers or to itself, and the scheduler's behaviour on larger graphs is proved. In
`redispatch` a window of 3 and 6 cycles let a mark age out and be counted again. In
`issue_run` two dispatches are what it takes for one run to meet what another left, and
two troubles for a failure to meet the recovery from another. In `ci_gate` two runs and
two checks make mixed answers possible; the verdict's properties are proved for any
number. In `poll_loop` three issues make a drain of two units, a milestone with an
orphan among greenlit members, and a unit that the first phase has been through. In
`restarts` four troubles make a kill, two refused or killed starts after it, and one more
end; or a closed issue, a failing probe and two stray writes around another.

The main properties:

- `MergeOrder`, `DispatchOrder`: nothing is merged or started before its blockers are
  merged. Both name the failures they depend on: the member listing and, for not
  starting an issue twice, the branch's history.
- `DoneIsMerged`: neither the scheduler's verdicts nor the issues the unit's pull
  request will close run ahead of the branch.
- `InProgressIsCurrent` (C-I4 of the design): `agent-in-progress` at rest, as long as
  the label edits themselves succeed.
- `LaunchBound`: between two human requests an issue costs at most `MaxFailures`
  workers, plus one per crash or failed call.
- `UsesScheduler`: every step of the loop is a step of `IssueScheduler`; in particular
  `mark_done` is only called for what was handed out. This is what lets the theorems
  about the scheduler speak about the daemon.
- `OrphansRecovered`: an issue in progress that is not merged is taken up, if all that it
  rests on is recorded as merged. The condition is not idle: below a merge whose
  `agent-merged` was lost an orphan stays for ever, and one that was started over its
  blockers, because the members could not be listed, waits for them.
- `StallsAreReal`: the time in a stall alert is that of a job in hand for longer than the
  threshold. The alert goes to that job's issue, or else the job had ended while the tick
  was reading: an alert that mixes two issues, which does happen (`v_alerts_mixed`), is
  never about a job that is still stuck. It rests on the order of the daemon's writes:
  the issue is written before the time. `OneAlertPerEpisode`: no second alert about it.
- `LaunchIsProven`, `NoSilentRef`: a worker runs only after a denial was seen, and a
  probe's ref on the remote at the end of its probe has been reported.
- `PushedIsTested`: what is merged is the commit CI was green for, on the condition
  that the worker had pushed all it had and nobody else pushed to its branch. Without
  the condition it is false: CI is asked about GitHub's head, the
  local branch is merged.
- `DoneHasPR`: `agent-done` on an issue means an open pull request, whichever of hook,
  stray hook, convergence and park wrote it, with any two troubles, until a human closes
  it. On a merged issue, whose pull request the push of the feature branch closes, the
  label stays only after a crash between the merge and its record, a refused edit, or by
  a hook that outlived its timeout.
- `RestsInOneState`: an issue at rest is in one state; it lists the troubles that cost
  it (a refused edit, a hook cut short, two unanswered reads).
- `KeepsContract`: each of the dispatch's calls changes labels, count and stage only as
  `IssueContract` allows. It is where a charge that is not counted or a blocked issue
  before the gate would show. The contract allows what the code cannot prevent: lost
  writes of the tally, late labels of a stray hook, charges for wrong answers.
- `VerdictIsEarned`, `ProvenanceIsTrue`, `OnlyGreenLands`, `GateEnds`: the gate under
  moving runs, failing calls and crashes.
- `AllServed`, `OncePerTick`, `StartsOnLive`, `KeepsTicking`: the tick; `KillIsTold`: the
  process; `NoWorkLost`: the sweep.
- `Limits`: `RestartLimiter` as a refinement, until a write fails; `RateBound`: what is
  left of it when writes fail. With failed writes the tally can also refuse too early, after a lost
  tick; no document promises otherwise.

### Fairness

`WorkUnit` assumes weak fairness of the daemon as a whole. Worker turns, hooks and the CI
poll have time limits and a killed daemon is restarted by its service; that every call
of `gh` and `git` returns is an assumption, for they run without a limit
(`chain/subproc.py:30`). Which step is taken is not assumed to be fair, so no liveness
property rests on CI turning green or on an agent opening a pull request. `Heartbeat`
assumes weak fairness of the monitor, of a method's assignments and of time. It does not
assume that the monitor's alert returns: the monitor may hang in it for ever, which
`StallIsAlerted` names as one of its two exceptions (the other is a late write-back on the
next episode). The daemon may stay in a turn or in the gate for ever.
`CiGate` assumes that the gate's calls return and that the clock goes on, and nothing of
GitHub Actions: checks may be re-run for ever. `PollLoop` assumes that the tick's calls
return and that a daemon that is down is started again, which its service does.

`CHECK_DEADLOCK FALSE` is in every configuration: a scheduler that is drained, a
daemon without labelled issues and a monitor that was stopped have nothing to do, and
counters are bounded.

### Statements the code refutes

Three runs expect a violation; the findings in `PROJECT.json` quote the statement and
the code.

- `v_merges_recorded`: a crash between the merge and `agent-merged`. The next tick
  publishes the merge, GitHub closes the pull request as merged, and re-entry, which
  needs an open one, parks the issue in every tick from then on.
- `v_turns_guarded`: the set-up of a worktree fails half way; the next dispatch finds
  the worktree, skips the set-up, and the worker runs without the tripwire.
- `v_alerts_mixed`: an alert names the issue that has just begun, with the time of the one
  that has just ended: the snapshot is made to avoid that, and is six reads.

The same models show five more, which are not kept as runs:

- "RED: any required job with conclusion in failure" (`merge.py:41`): a required check
  has failed, but one before it in the configuration is not through (`merge.py:499`); the
  gate waits for its time limit and reports a timeout.
- "After each poll tick's work units complete, the daemon runs a worktree orphan-GC
  sweep" (`harness-design.md:409`): a tick that finds no orphan returns before it
  (`poll.py:899`).
- "Daemon clears the orphan label [...], then re-dispatches the issue fresh"
  (`chain-orchestration-design.md:133`): a merge whose `agent-merged` was lost is parked
  in every tick (`work_unit.py:534`); an orphan that it blocks is cut off with it
  (`scheduler.py:131`) and keeps `agent-in-progress`.
- "the `--no-ff` merge of a per-issue branch [...] once CI is confirmed green" (`merge.py:3`):
  CI is asked about the pull request's head (`merge.py:797`), the local branch is merged
  (`merge.py:824`): a commit made after the worker's push was never tested.
- "any worktree that is [...] dirty, or has unpushed commits is kept" (`recovery.py:583`): a
  `git status` that fails counts as a clean tree (`recovery.py:464`), and the worktree is
  removed with the changes in it.

Earlier runs of these models showed, and the modules still have: a crash between
clearing an orphan's label and claiming it leaves an issue without labels, which no
listing returns (`work_unit.py:705`); when the members cannot be listed, the fallback
drops the blocker edges the expansion exists to keep (`poll.py:749`); the monitor's late
write-back may silence the next episode (`heartbeat.py:372`); a CI wait after a worker
run is reported as a hung worker (`gh_api_helpers.py:392`).

The model shows others that are not kept as runs: an issue whose `blocked` label a
human merely removes is not taken up (`architecture-spec.md:88` says it is;
`open-questions.md` says `agent-ready` must be added, which is what the code does); a
charged park strips a `blocked` label the worker set before its turn failed; a
merged issue found by recovery keeps `agent-in-progress` if it still carried it; an
issue parked by the CI gate rests at `agent-done`, not at `blocked`
(`smoke-test-daemon.md:446`); the unit's pull request is not updated when later ticks
merge more issues (`work_unit.py:215`); a claimed issue that cannot be fetched, and then
cannot be read by the park, is left with no label; the hook's transient error says that
`agent-ready` stays, which the claim had taken away; the sentinel of a merge attempt is
never removed; a dirty worktree fails every rebase until the issue is exhausted; a lost
reset of the failure tally lets the old count come back after a restart; a daemon killed in
its shutdown, after its marker is gone, is not reported (`poll.py:308`); a stray hook may
label an issue that has been parked or merged; a new worker is judged by the previous
worker's last turn until its own first one (`heartbeat.py:90`).

## 4. What is proved

Every safety property of every passing run is a theorem, for every value of the
constants. Each proof has the same frame: an inductive invariant (`IInv`, and for the two
properties that count, `PInv` and `RateInv` on top of it) with a name for each of its
parts, one lemma per action, and the property as a consequence. TLC checked each
invariant on the run's instance before it was proved.

| Module | Properties of the runs it proves |
|---|---|
| `IssueScheduler_proofs` | `TypeOK`, `HandedOutInOrder`, `ParkedSubtreeCut`, `NoStall`, `VerdictsFinal`; also that no issue is both done and parked |
| `WorkUnit_proofs` | `TypeOK`, `MergeOrder`, `DispatchOrder`, `DoneIsMerged`, `InProgressIsCurrent`, `LaunchBound`, `UsesScheduler` |
| `PollLoop_proofs` | `TypeOK`, `AllServed`, `OncePerTick`, `StartsOnLive`, `KillIsTold`, `NoWorkLost` |
| `IssueRun_proofs` | `TypeOK`, `LaunchIsProven`, `NoSilentRef`, `PushedIsTested`, `DoneHasPR`, `RestsInOneState`, `KeepsContract` |
| `CiGate_proofs` | `TypeOK`, `VerdictIsEarned`, `ProvenanceIsTrue`, `OnlyGreenLands` |
| `Heartbeat_proofs` | `TypeOK`, `StallsAreReal`, `OneAlertPerEpisode` |
| `RedispatchTally_proofs` | `TypeOK`, `Limits`, `RateBound` |
| `Labels_proofs` | what each class of park does to any label set |

**The scheduler** (`IssueScheduler_proofs`): every safety property of the `scheduler`
run, for every set of issues and graph. The invariant adds three facts: a prepared
graph is acyclic; whatever was consumed has only done blockers; whatever was consumed
and not handed out is parked. The first is needed for `FrontierNeverStalls`, whose
argument picks, from the non-empty set of nodes without verdict, one free of blockers
in that set: all of its blockers have a verdict, none is parked (the sub-tree cut would
have parked the node too), so they are done, and the node is either ready or in the
caller's hands. The other two carry order and cut over `get_ready` and `mark_done`.

**The work-unit loop** (`WorkUnit_proofs`): for every set of issues, every blocker graph
and any number of failed calls, crashes and human acts. `MergeOrder` rests on a chain
through both modules: the graph is `blockedBy` cut to the members (`GraphOfUnit`), an
issue in hand was handed out (`InHand`), so by the scheduler's own invariant, which is
part of this one as an instance (`SchedulerOK`), its blockers are done, and what is done
has a merge on the branch (`VerdictsMerged`). `MergedOnce` adds that an issue that is
merged and not yet handed out was classified so, which keeps workers off it.
`LoopUsesScheduler` closes the circle: each step of the loop is one of `IssueScheduler`,
a fresh scheduler, or its disposal. The order is lost only if the members could not be
listed, and a second dispatch of a merged issue only if the branch could not be read, as
the properties say. `OnlyTheCurrentInProgress` needs to know at which points an issue
is in hand and not yet claimed (`Unclaimed`) and that every prepared park edit removes
the label (`ProgressOK`).

`ReworkIsBounded` keeps an account (`PInv`): the workers an issue got since the last human
request are paid for by its charged failures, by crashes and by failed calls. An unmerged
issue that may get a worker (`Eligible`) has had at most as many as that; one that is
being worked on, or waits at the gate (`Engaged`), at most one more. The account holds
because nothing turns from the second kind into the first for free: a park that charges
pays; an orphan was left by a crash; an uncharged park at the gate finds `agent-done`
there (`GatedIsDone`) and keeps the issue done. A merged issue is taken for an unmerged
one (`Mistaken`) only after an answer that could not be read, a failed call. TLC checked
`PInv` on the run's instance, and for one issue with three faults, two crashes and two
human acts.

**The poll loop** (`PollLoop_proofs`): for every set of issues and assignment of
milestones, and any number of troubles. `EveryUnitIsServed` needs an account of the
middle of a tick: what is owed has run, was kept back, is in hand, or is the unit of an
issue that remains or of an orphan (`ServedOK`), and what has run can be none of these
again, from which `NoUnitRunsTwice` follows. `LiveOK` carries what was last read of the
labels, `MarkerOK` the marker file over kills, at every step, and restarts; and what is in
`old` is in the worktree under examination until a probe has found it (`ExamOK`). The one
fact about numbers is that the lowest milestone of a non-empty set is in it
(`MinIsMember`).

**One issue's dispatch** (`IssueRun_proofs`): any number of dispatches, turns, lookups
and troubles of any kind. `GateOK` carries the probe's verdict to the worker's last turn;
`PullRequestOK` says that an open pull request needs a push and a push a commit, and
that nothing is put before the gate without one; `CommitOK` that pull request, push and
the gate's commit agree while nobody else pushes. `DoneMeansPR` needs `QuietOK`: unless one
of the three excused troubles has happened, no hook outlives the daemon's wait for it, and a
merge that is through with its own two steps has left no `agent-done`. `RestsInOneState` is the deepest: for
a dispatch without the troubles the property lists, `Undisturbed` says which labels each
of the daemon's, the worker's and the hook's places may meet, with at most one of them
at work. `ContractIsKept` is the refinement of `IssueContract`: under
`StageOf`, which maps each place of the daemon to its stage of the contract, the initial
states are initial and each of the calls is a step of the contract or a stutter.

**Heartbeat** (`Heartbeat_proofs`): any number of jobs, any clock, any thresholds. A
start that the monitor has copied is of a job that was in progress when its tick began,
or that began during the tick, because `clear()` takes the start away before anything
else can be told from it (`SinceIsLive`, `SnapIsLive`). The issue is written before the
start and read after it, so a start whose job has not ended stands, and was copied, beside
that job's issue (`IssueOwned`). An open episode that was alerted
about has the debounce flag set, or the monitor is about to set it (`AlertsLatched`): by
the time an episode is old enough for an alert, `mark_in_progress`, in which time stands
still, is over and no longer clears the flag. Only the monitor raises alerts, so a
snapshot that found the flag down stays right about that until the monitor acts on it.

**The CI gate** (`CiGate_proofs`): every safety property of the `ci_gate` run, for every
list of required checks, any number of runs and any faults. `VerdictIsEarned` is not
inductive: in the middle of a poll `by_name` may hold an answer that was never the newest.
`FoundOrReplaced` says what it may hold: an answer that was the newest at some moment
since the listing, or one that a run still to be asked for will replace, because a job
of a run never disappears. When every listed run has answered, only the first case is
left. `GreenAtMerge` and `MergedAtRecord` carry the verdict to the merge and the merge
to the record. That the gate ends is liveness and stays with TLC.

**The tally** (`RedispatchTally_proofs`): `TallyLimits`, the refinement of
`RestartLimiter`, for every window, maximum, set of issues and number of restarts, until
a write fails. The invariant says what the memory must hold as long as none has: file
and memory agree outside a write; marks are attempts, and an attempt may be missing only
if it left the window; no attempt lies in the future. From it, `SameWindow`: what the
pruned marks and the whole history show inside the window is the same set. Type
correctness holds with failing writes too.

`RateIsBounded` is about the writes that fail. Cycles and ticks drift apart by the ticks
that were lost (`Behind`, and `FileBehind` for the daemon that will read the file), and
marks go missing. `Shows` bounds both at once: moved by that drift, what the marks show
after any moment of this window or a later one is all attempts but one for each failed
write, in memory and in the file. A restart turns the file's account into the memory's;
an attempt adds one to both sides; and when record_and_check allows a re-dispatch, the
window it looked at held at most the maximum, so the real one exceeds that by at most
the failures. Counting set members is where this proof is laborious: `AfterGrows` and
`AfterAdds` are its two facts about cardinalities.

**Parking** (`Labels_proofs`): for every label set, readable or not, a park removes
`agent-in-progress` and keeps `agent-merged`; a charged or terminal one ends in
exactly one state; an uncharged one converges a bare issue and keeps any other state.
These are facts about one accepted edit with nobody else editing.

Assumptions on constants are the named ASSUMEs of each module, which TLC evaluates in
every run of it; no proof assumes more.

Model-checked only:

- liveness (`TickEnds`, `OrphansRecovered`, `StallIsAlerted`, `GateEnds`, `KeepsTicking`),
  which rests on fairness and ENABLED, out of the prover's reach;
- the three refuted statements, whose counterexamples TLC shows.

## 5. What is abstracted

- The order inside a frontier is arbitrary; so is the outcome of a worker and of CI.
- `WorkUnit`: one milestone, one unit at a time; issues stay open; nobody edits
  dependencies; the human merge of the feature branch into main is outside. `Recheck`
  reads the labels of all ready issues in one step, and the hook's edits are one step,
  complete or cut short by `Fails("hook")`; `PollLoop` and `AfterRun` have them one by
  one. It counts re-dispatches without ageing them out (`RedispatchTally` has the
  window), and takes the writes of both tallies as succeeding.
- One `gh issue edit` is atomic. A pull request is merged, for GitHub, once its commits
  reach the remote base.
- `IssueRun`: untracked files are not told from tracked changes; `issue_run`'s gate is
  one step with a free verdict (`CiGate` has the rest); the re-dispatch tally's TERMINAL
  park is only in `WorkUnit`; `tracker.run_gh` and `workspace.run_cmd` have no timeout,
  so a hanging call stops the model as it stops the daemon; the tally's alerted flag is
  left out; `mentioned` stands for another open pull request with `#<n>` in its text, once there is one;
  merging a branch that is contained already succeeds without a new commit or trailer.
- `CiGate`: the diagnostic and its texts are left out (the headline of a timeout may name
  a check that failed); a permission error and any other failing call both raise.
- `PollLoop`: an issue closed by a human in mid-drain is not looked at again, as in the
  code; a unit that is kept back in mid-drain leaves its orphans to the next tick; once
  mode, several repositories, the session report, the alert for `agent-failed` issues
  and page limits (200 issues, 100 pull requests) are left out, and so is a SIGTERM
  between writing the marker and installing the handler. At most one issue is closed at
  the start, with a worktree left over. A `git status` that fails leaves uncommitted
  changes unseen, which `NoWorkLost` excepts.
- An issue is re-dispatched at most once per cycle (a milestone is visited once per
  tick), so the tally's marks are a set.

Bounds, all constants: `MaxFailures`, `MaxRedispatch`, `MaxTurns`, `MaxLookups` are the
program's own settings; `MaxFaults`, `MaxCrashes`, `MaxActs`, `MaxTroubles`, `MaxCycles`,
`MaxTime`, `MaxCommits`, `MaxDispatches`, `MaxRuns` bound the environment.

## 6. Not modelled

Configuration and prompts, App tokens, reports and run log, operator tools, policy checks
and scripts: no state of theirs is read back into a decision of the daemon, and a call
that fails for want of a token is a call that fails. Of the vendored poller only
`_run_worker` is used by the daemon, so its dispatch, retry and persistence are left out.

## 7. Plan

1. Done: scheduler, labels, work unit, heartbeat, re-dispatch tally, poll loop, the whole
   dispatch of one issue with its contract, CI gate; theorems of all of them.
2. `SubtreeWalk`: the work list of `mark_parked` shown to compute `Subtree`.
3. The supply of App tokens (`app_auth.py`) over a tick that outlives one, and the body
   fallback of `fetch_blocked_by`.
