-------------------------- MODULE IssueRun_proofs ---------------------------
(***************************************************************************)
(* Safety of one issue's dispatch, and its contract, for every number of   *)
(* turns, lookups, commits, dispatches and troubles, and every set of      *)
(* troubles that may happen.  The inductive invariant says                 *)
(*   - what the probe has established at each place up to the launch       *)
(*     (GateOK);                                                           *)
(*   - that a pull request has a push behind it and a push a commit, and   *)
(*     that hook and daemon act on "pr-opened" only while one is open, or  *)
(*     was closed by a human or, late, by the push of the feature branch   *)
(*     (PullRequestOK);                                                    *)
(*   - that without a crash, a refused edit or a hook that outlived its    *)
(*     timeout no hook is left behind, and no agent-done on a merged issue *)
(*     (QuietOK);                                                          *)
(*   - that the gate is asked about the commit that was pushed, unless     *)
(*     somebody else pushes (CommitOK);                                    *)
(*   - which labels the issue shows at each place of a dispatch that       *)
(*     nothing has disturbed so far (Undisturbed).                         *)
(***************************************************************************)
EXTENDS IssueRun, Labels_proofs

WorkerPcs == {"worktree", "install", "settings", "rebase", "abort", "turn", "state",
              "labels", "prprobe", "clean", "after", "waiting", "postprobe"}
TestedPcs == {"converge", "gate", "regate"}
MergedPcs == {"persist", "merged", "reset"}
\* Where the work may be on the feature branch: its record, the rest after it, and the
\* re-entry of a merge without a record.
RecordedPcs == {"persist", "merged", "reset", "idle", "refind", "regate", "uncharged", "parkedit", "verify"}
\* Where neither the launch gate nor the worker is at work.
BarePcs == {"idle", "clear", "predispatch", "claim", "fetch", "preflight", "pr_created", "no_pr",
            "find", "refind", "intact", "uncharged", "unknown", "charged", "count", "parkedit",
            "verify"} \cup TestedPcs \cup MergedPcs
Pcs == BarePcs \cup {"probe", "cleanup", "refuse"} \cup WorkerPcs

Types == TypeOK /\ pc \in Pcs

GateOK ==
  /\ pc \in {"probe", "cleanup"} => gitRoot
  /\ pc \in WorkerPcs => gitRoot /\ protected
  /\ NoSilentRef

\* A human has closed the pull request, or the push of the feature branch may have,
\* while a label or a hook still speaks of it.
Excused == "closepr" \in happened \/ (merged # 0 /\ happened \cap Late # {})

\* A pull request needs a push and a push a commit; what is put before the gate
\* has one.
PullRequestOK ==
  /\ Done \in labels => prOpen \/ Excused
  /\ outcome = "pr-opened" => prOpen \/ Excused
  /\ pc \in TestedPcs => (prOpen \/ "closepr" \in happened) /\ head # 0
  /\ prOpen => pushed # 0
  /\ pushed # 0 => head # 0

\* The hook runs only while the daemon waits for it.
Alone == ~ stray /\ (hook # "off" => pc = "waiting")

\* Nothing has happened that leaves a hook or a label behind.
Quiet == happened \cap Late = {}
QuietOK ==
  /\ hook = "off" => outcome = "none"
  /\ Quiet => Alone
  /\ Quiet /\ merged # 0 /\ pc \notin {"persist", "merged"} => Done \notin labels

\* Unless somebody else pushes, the pull request's head is what was pushed here,
\* and the gate asks about that.
CommitOK ==
  /\ "push" \notin happened =>
       /\ prHead = pushed
       /\ pc \in TestedPcs => sha = pushed
       /\ merged # 0 /\ merged = pushed => tested = merged
  /\ pc \in MergedPcs => merged # 0
  /\ merged # 0 => pc \in RecordedPcs

EditOK ==
  /\ edit.add \in {{}, {Ready}, {Failed}}
  /\ pc \in {"count", "parkedit"} =>
       Progress \in edit.remove /\ edit.remove \subseteq StateLabels \cup {Progress}

States(L) == L \cap StateLabels
Settled(L) == SingleState(L) /\ Progress \notin L

\* The labels of an undisturbed issue that is not merged are settled when its dispatch
\* begins and when it is over.
DaemonFit ==
  /\ pc = "idle" /\ merged = 0 => Settled(labels)
  /\ pc \in {"predispatch", "claim"} => States(labels) = {Ready} /\ Progress \notin labels
  /\ pc \notin {"clear", "converge"}
  /\ pc \in {"fetch", "preflight", "probe", "cleanup", "refuse"} => States(labels) = {}
  /\ pc \in {"pr_created", "no_pr", "find", "refind", "gate", "regate", "intact", "unknown"}
       => SingleState(labels)
  /\ pc = "uncharged" => SingleState(labels) \/ (States(labels) = {} /\ troubles > 0)
  /\ pc \in {"count", "parkedit"} => Settled(Edit(labels, edit.add, edit.remove))
  /\ pc = "verify" => Settled(labels)

\* A worker's only state label is blocked; the hook then sees to it that there is one.
RunFit ==
  /\ pc \in WorkerPcs \ {"waiting", "postprobe"} => States(labels) \subseteq {Blocked}
  /\ pc = "waiting" =>
       \/ hook \in {"classify", "lookup", "labels"} /\ States(labels) \subseteq {Blocked}
       \/ hook = "add" /\ States(labels) = {}
       \/ hook = "off" /\ SingleState(labels)
  /\ pc = "postprobe" => SingleState(labels)

Undisturbed == Alone /\ DaemonFit /\ RunFit

Counted == happened # {} => troubles > 0

IInv ==
  /\ Types /\ GateOK /\ PullRequestOK /\ QuietOK /\ CommitOK /\ EditOK /\ Counted
  /\ Clean /\ merged = 0 => Undisturbed

-----------------------------------------------------------------------------
\* The program's settings and the environment's bounds are numbers.
LEMMA Constants ==
  /\ MaxFailures \in Nat \ {0} /\ MaxDispatches \in Nat \ {0} /\ MaxTurns \in Nat \ {0}
  /\ MaxLookups \in Nat \ {0} /\ MaxCommits \in Nat /\ MaxTroubles \in Nat
BY IssueRunOK, TurnsOK, LookupsOK, SharedConstantsOK

TroubleStep == Succeeds \/ \E t \in Possible : Strikes(t)

\* Troubles only add up, so that a dispatch that is undisturbed has always been.
LEMMA TroublesAdd ==
  ASSUME IInv, TroubleStep
  PROVE  /\ troubles' \in 0..MaxTroubles /\ happened' \subseteq Possible /\ happened \subseteq happened'
         /\ Counted' /\ (Clean' => Clean) /\ (troubles > 0 => troubles' > 0)
<1>1. troubles \in 0..MaxTroubles /\ happened \subseteq Possible /\ Counted
  BY DEF IInv, Types, TypeOK, SharedTypeOK
<1>2. CASE Succeeds
  BY <1>1, <1>2 DEF Succeeds, trouble, Counted, Clean
<1>3. CASE \E t \in Possible : Strikes(t)
  BY <1>1, <1>3, Constants DEF Strikes, Counted, Clean
<1> QED
  BY <1>2, <1>3 DEF TroubleStep

\* A trouble is remembered, and a dispatch that meets one is disturbed.
LEMMA Struck ==
  ASSUME IInv, NEW t, Strikes(t)
  PROVE  TroubleStep /\ t \in happened' /\ troubles' > 0 /\ ("labels" \in happened' /\ Clean' => troubles = 0)
BY Constants DEF Strikes, TroubleStep, Clean, IInv, Types, TypeOK, SharedTypeOK

\* What excuses a label stays, and a dispatch that is quiet has always been.
LEMMA LateStays ==
  ASSUME IInv, TroubleStep
  PROVE  /\ (Quiet' => Quiet) /\ ("closepr" \in happened => "closepr" \in happened')
         /\ (merged # 0 => merged' # 0) => (Excused => Excused')
<1>1. happened \subseteq happened'
  BY TroublesAdd
<1> QED
  BY <1>1 DEF Quiet, Excused, Late

\* A label edit is applied as a whole, or refused and remembered.
LEMMA Edited ==
  ASSUME IInv, NEW call, NEW add \in SUBSET AllLabels, NEW remove, LabelEdit(call, add, remove)
  PROVE  /\ labels' \in SUBSET AllLabels /\ TroubleStep
         /\ labels' = Edit(labels, add, remove) \/ (UNCHANGED labels /\ call \in happened')
         /\ Done \in labels' => Done \in labels \/ Done \in add
<1>1. labels \in SUBSET AllLabels
  BY DEF IInv, Types, TypeOK, SharedTypeOK
<1>2. CASE Succeeds /\ labels' = Edit(labels, add, remove)
  <2>1. labels' \in SUBSET AllLabels /\ TroubleStep
    BY <1>1, <1>2, EditTypes DEF TroubleStep
  <2> QED
    BY <1>2, <2>1 DEF Edit
<1>3. CASE Fails(call) /\ UNCHANGED labels
  BY <1>1, <1>3, Struck DEF Fails
<1> QED
  BY <1>2, <1>3 DEF LabelEdit

\* The state label of an issue in a single state is its only one.
LEMMA OnlyState ==
  ASSUME NEW L, SingleState(L), NEW s \in StateLabels, s \in L
  PROVE  States(L) = {s}
BY DEF SingleState, States

-----------------------------------------------------------------------------
(* The daemon's own steps.                                                 *)

\* What every one of them leaves alone, and what is left to show of it.
Counters ==
  /\ failures' \in 0..MaxFailures /\ saved' \in 0..MaxFailures /\ dispatches' \in 0..MaxDispatches
QuietStep == Quiet' /\ merged' # 0 /\ pc' \notin {"persist", "merged"} => Done \notin labels'
OwnStep ==
  /\ DaemonOnly /\ TroubleStep /\ Counters
  /\ labels' \in SUBSET AllLabels /\ (Done \in labels' => prOpen \/ Excused) /\ QuietStep
  /\ merged # 0 => merged' # 0
  /\ edit' \in [add : SUBSET AllLabels, remove : SUBSET AllLabels, exhausted : BOOLEAN] /\ EditOK'
  /\ pc \in BarePcs /\ pc' \in BarePcs
  /\ sha' \in {sha, prHead}
  /\ pc' \in TestedPcs => pc \in TestedPcs \/ (prOpen /\ sha' = prHead)

\* A step of the daemon's own keeps the types of what the others write.
LEMMA OwnTypes == IInv /\ OwnStep /\ merged' \in Commits /\ tested' \in Commits => Types'
<1> SUFFICES ASSUME IInv, OwnStep, merged' \in Commits, tested' \in Commits PROVE Types'
  OBVIOUS
<1>1. SharedTypeOK'
  BY TroublesAdd DEF OwnStep, DaemonOnly, IInv, Types, TypeOK, SharedTypeOK, branch
<1>2. GateTypeOK /\ HookTypeOK /\ RunTypeOK /\ DaemonOnly
  BY DEF OwnStep, IInv, Types, TypeOK
<1>4. GateTypeOK'
  BY <1>2 DEF DaemonOnly, GateTypeOK, gate
<1>5. HookTypeOK'
  BY <1>2 DEF DaemonOnly, HookTypeOK, hookVars, run, world
<1>6. RunTypeOK'
  BY <1>2 DEF DaemonOnly, RunTypeOK, runVars, run, world
<1>3. sha' \in Commits
  BY DEF OwnStep, IInv, Types, TypeOK, SharedTypeOK
<1> QED
  BY <1>1, <1>3, <1>4, <1>5, <1>6 DEF Types, TypeOK, OwnStep, Counters, Pcs

\* ... and what the probe, the pull request, the hook and the count rest on.
LEMMA OwnRest == IInv /\ OwnStep => (GateOK /\ PullRequestOK /\ QuietOK /\ Counted)'
<1> SUFFICES ASSUME IInv, OwnStep PROVE (GateOK /\ PullRequestOK /\ QuietOK /\ Counted)'
  OBVIOUS
<1>1. GateOK'
  <2>1. pc' \notin {"probe", "cleanup", "refuse"} \cup WorkerPcs
    BY DEF OwnStep, BarePcs, TestedPcs, MergedPcs, WorkerPcs
  <2> QED
    BY <2>1 DEF GateOK, NoSilentRef
<1>2. PullRequestOK'
  <2>1. /\ Done \in labels' => prOpen \/ Excused
        /\ pc' \in TestedPcs => pc \in TestedPcs \/ prOpen
        /\ UNCHANGED <<prOpen, pushed, head, outcome>>
    BY DEF OwnStep, DaemonOnly, branch, hookVars
  <2>2. (Excused => Excused') /\ ("closepr" \in happened => "closepr" \in happened')
    BY LateStays DEF OwnStep
  <2> QED
    BY <2>1, <2>2 DEF IInv, PullRequestOK
<1>3. QuietOK'
  <2>1. pc # "waiting" /\ UNCHANGED <<hook, stray, outcome>> /\ QuietStep
    BY DEF OwnStep, DaemonOnly, hookVars, BarePcs, TestedPcs, MergedPcs
  <2>2. Quiet' => Quiet
    BY LateStays DEF OwnStep
  <2> QED
    BY <2>1, <2>2 DEF IInv, QuietOK, QuietStep, Alone
<1> QED
  BY <1>1, <1>2, <1>3, TroublesAdd DEF OwnStep

\* ... and leaves an undisturbed issue so, if its labels fit the next place.
LEMMA OwnFit == Undisturbed /\ OwnStep /\ DaemonFit' => Undisturbed'
<1> SUFFICES ASSUME Undisturbed, OwnStep, DaemonFit' PROVE Undisturbed'
  OBVIOUS
<1>1. pc \notin WorkerPcs /\ pc' \notin WorkerPcs /\ "waiting" \in WorkerPcs /\ "postprobe" \in WorkerPcs
  BY DEF OwnStep, BarePcs, TestedPcs, MergedPcs, WorkerPcs
<1>2. Alone'
  BY <1>1 DEF Undisturbed, Alone, OwnStep, DaemonOnly, hookVars
<1> QED
  BY <1>1, <1>2 DEF Undisturbed, RunFit

LEMMA OwnStepInv ==
  ASSUME IInv, OwnStep, UNCHANGED <<merged, tested>>,
         pc' \in MergedPcs => pc \in MergedPcs,
         merged # 0 => pc' \in RecordedPcs,
         Clean' /\ merged = 0 /\ Undisturbed => DaemonFit'
  PROVE  IInv'
<1>1. Types'
  BY OwnTypes DEF IInv, Types, TypeOK
<1>2. CommitOK'
  BY TroublesAdd DEF OwnStep, DaemonOnly, IInv, CommitOK, branch
<1>3. Clean' /\ merged' = 0 => Undisturbed'
  BY OwnFit, TroublesAdd DEF IInv, OwnStep
<1> QED
  BY <1>1, <1>2, <1>3, OwnRest, TroublesAdd DEF IInv, OwnStep

\* The edit in hand stays as it is until the park is through with it.
LEMMA SameEdit ==
  ASSUME IInv, UNCHANGED edit, pc' \in {"count", "parkedit"} => pc \in {"count", "parkedit"}
  PROVE  edit' \in [add : SUBSET AllLabels, remove : SUBSET AllLabels, exhausted : BOOLEAN] /\ EditOK'
BY DEF IInv, Types, TypeOK, EditOK

\* An idle daemon has no edit in hand.
LEMMA NoEditLeft ==
  ASSUME Idle
  PROVE  edit' \in [add : SUBSET AllLabels, remove : SUBSET AllLabels, exhausted : BOOLEAN] /\ EditOK'
BY DEF Idle, Goto, NoEdit, EditOK

\* What a step may take for granted about labels, pull request and commits.
LEMMA TypesOf ==
  ASSUME IInv
  PROVE  /\ labels \in SUBSET AllLabels /\ (Done \in labels => prOpen \/ Excused) /\ merged \in Commits
         /\ tested \in Commits /\ sha \in Commits /\ head \in Commits /\ prHead \in Commits
         /\ (prOpen => head # 0) /\ (pc \notin RecordedPcs => merged = 0)
         /\ (pc \in TestedPcs => head # 0 /\ (prOpen \/ Excused))
BY DEF IInv, Types, TypeOK, SharedTypeOK, PullRequestOK, Excused, CommitOK, Commits

\* A step that does not label a merged issue agent-done keeps it quiet.
LEMMA StillQuiet ==
  ASSUME IInv, TroubleStep, UNCHANGED merged, Done \in labels' => Done \in labels,
         pc \notin {"persist", "merged"}
  PROVE  QuietStep /\ (Done \in labels' => prOpen \/ Excused)
BY LateStays, TypesOf DEF IInv, QuietOK, QuietStep

\* A step that prepares no edit and touches no count.
LEMMA PlainStep ==
  ASSUME IInv, DaemonOnly, TroubleStep, UNCHANGED <<failures, saved, edit, dispatches>>,
         labels' \in SUBSET AllLabels, Done \in labels' => prOpen \/ Excused,
         merged # 0 => merged' # 0, QuietStep,
         pc \in BarePcs, pc' \in BarePcs \ {"count", "parkedit"}, sha' \in {sha, prHead},
         pc' \in TestedPcs => pc \in TestedPcs \/ (prOpen /\ sha' = prHead)
  PROVE  OwnStep
<1>1. edit' \in [add : SUBSET AllLabels, remove : SUBSET AllLabels, exhausted : BOOLEAN] /\ EditOK'
  BY SameEdit
<1>2. Counters
  BY DEF Counters, IInv, Types, TypeOK
<1> QED
  BY <1>1, <1>2 DEF OwnStep

\* ... and neither merges nor labels the issue agent-done.
LEMMA QuietPlainStep ==
  ASSUME IInv, DaemonOnly, TroubleStep, UNCHANGED <<failures, saved, edit, dispatches, merged>>,
         labels' \in SUBSET AllLabels, Done \in labels' => Done \in labels,
         pc \in BarePcs \ {"persist", "merged"}, pc' \in BarePcs \ {"count", "parkedit"},
         sha' \in {sha, prHead},
         pc' \in TestedPcs => pc \in TestedPcs \/ (prOpen /\ sha' = prHead)
  PROVE  OwnStep
BY StillQuiet, PlainStep

LEMMA SelectInv == IInv /\ Select => IInv'
<1> SUFFICES ASSUME IInv, Select PROVE IInv'
  OBVIOUS
<1>1. /\ pc = "idle" /\ DaemonOnly /\ UNCHANGED <<labels, verdict, trouble>>
      /\ pc' \in {"intact", "refind", "clear", "predispatch"} /\ (merged # 0 => pc' = "refind")
      /\ dispatches < MaxDispatches /\ dispatches' = dispatches + 1
  BY DEF Select, Goto
<1>2. OwnStep
  <2>1. edit' \in [add : SUBSET AllLabels, remove : SUBSET AllLabels, exhausted : BOOLEAN] /\ EditOK'
    BY <1>1, SameEdit DEF verdict
  <2>2. Counters
    BY <1>1, Constants DEF Counters, IInv, Types, TypeOK, verdict
  <2>3. TroubleStep
    BY <1>1 DEF TroubleStep, Succeeds
  <2>4. QuietStep /\ (Done \in labels' => prOpen \/ Excused)
    BY <1>1, <2>3, StillQuiet DEF verdict
  <2> QED
    BY <1>1, <2>1, <2>2, <2>3, <2>4, TypesOf DEF OwnStep, verdict, BarePcs, TestedPcs, MergedPcs
<1>3. ASSUME Undisturbed, merged = 0 PROVE DaemonFit'
  <2>1. Settled(labels)
    BY <1>1, <1>3 DEF Undisturbed, DaemonFit
  <2>2. pc' = "refind" \/ (pc' = "predispatch" /\ Ready \in labels)
    BY <1>1, <2>1 DEF Select, Goto, Settled
  <2>3. Ready \in labels => States(labels) = {Ready}
    BY <2>1, OnlyState DEF Settled, StateLabels
  <2> QED
    BY <1>1, <2>1, <2>2, <2>3 DEF DaemonFit, Settled
<1> QED
  BY <1>1, <1>2, <1>3, OwnStepInv DEF verdict, MergedPcs, RecordedPcs

LEMMA ClearOrphanInv == IInv /\ ClearOrphan => IInv'
<1> SUFFICES ASSUME IInv, ClearOrphan PROVE IInv'
  OBVIOUS
<1>1. /\ pc = "clear" /\ pc' = "predispatch" /\ DaemonOnly /\ UNCHANGED <<verdict, dispatches>>
      /\ LabelEdit("edit", {}, {Progress})
  BY DEF ClearOrphan, Goto
<1>2. OwnStep
  <2>1. labels' \in SUBSET AllLabels /\ TroubleStep /\ (Done \in labels' => Done \in labels)
    <3>1. {} \in SUBSET AllLabels /\ Done \notin {}
      OBVIOUS
    <3> QED
      BY <1>1, <3>1, Edited
  <2> QED
    BY <1>1, <2>1, QuietPlainStep, TypesOf DEF verdict, BarePcs, TestedPcs
<1>3. ~ Undisturbed
  BY <1>1 DEF Undisturbed, DaemonFit
<1> QED
  BY <1>1, <1>2, <1>3, OwnStepInv, TypesOf DEF verdict, MergedPcs, RecordedPcs

LEMMA PreDispatchInv == IInv /\ PreDispatch => IInv'
<1> SUFFICES ASSUME IInv, PreDispatch PROVE IInv'
  OBVIOUS
<1>1. /\ pc = "predispatch" /\ DaemonOnly /\ UNCHANGED <<labels, verdict, dispatches>>
      /\ \/ /\ Succeeds
            /\ pc' = IF Ready \in labels /\ labels \cap Excluded # {} THEN "intact" ELSE "claim"
         \/ Strikes("labels") /\ pc' = "uncharged"
  BY DEF PreDispatch, Goto, ReadLabels, Fails
<1>2. OwnStep
  BY <1>1, Struck, QuietPlainStep, TypesOf DEF verdict, BarePcs, TestedPcs, TroubleStep
<1>3. ASSUME Undisturbed PROVE DaemonFit'
  <2>1. States(labels) = {Ready} /\ Progress \notin labels
    BY <1>1, <1>3 DEF Undisturbed, DaemonFit
  <2>2. labels \cap Excluded = {} /\ SingleState(labels)
    BY <2>1, LabelsDiffer DEF States, SingleState, Excluded, StateLabels
  <2> QED
    BY <1>1, <2>1, <2>2 DEF DaemonFit
<1> QED
  BY <1>1, <1>2, <1>3, OwnStepInv, TypesOf DEF verdict, MergedPcs, RecordedPcs

LEMMA ClaimInv == IInv /\ Claim => IInv'
<1> SUFFICES ASSUME IInv, Claim PROVE IInv'
  OBVIOUS
<1>1. /\ pc = "claim" /\ pc' = "fetch" /\ DaemonOnly /\ UNCHANGED <<verdict, dispatches>>
      /\ LabelEdit("edit", {Progress}, {Ready})
  BY DEF Claim, Goto
<1>2. OwnStep /\ (Clean' => labels' = Edit(labels, {Progress}, {Ready}))
  <2>1. {Progress} \in SUBSET AllLabels /\ Done # Progress
    BY LabelNames, LabelsDiffer DEF StateLabels
  <2>2. OwnStep
    BY <1>1, <2>1, Edited, QuietPlainStep, TypesOf DEF verdict, BarePcs, TestedPcs
  <2> QED
    BY <1>1, <2>1, <2>2, Edited DEF Clean
<1>3. ASSUME Undisturbed, Clean' PROVE DaemonFit'
  <2>1. States(labels) = {Ready}
    BY <1>1, <1>3 DEF Undisturbed, DaemonFit
  <2>2. States(labels') = {}
    BY <1>2, <1>3, <2>1, LabelsDiffer DEF States, Edit
  <2> QED
    BY <1>1, <2>2 DEF DaemonFit
<1> QED
  BY <1>1, <1>2, <1>3, OwnStepInv, TypesOf DEF verdict, MergedPcs, RecordedPcs

LEMMA FetchInv == IInv /\ Fetch => IInv'
<1> SUFFICES ASSUME IInv, Fetch PROVE IInv'
  OBVIOUS
<1>1. /\ pc = "fetch" /\ DaemonOnly /\ UNCHANGED <<labels, verdict, dispatches>>
      /\ \/ Succeeds /\ pc' = "preflight"
         \/ Strikes("issue") /\ pc' = "uncharged"
  BY DEF Fetch, Goto, Fails
<1>2. OwnStep /\ (pc' = "uncharged" => troubles' > 0)
  BY <1>1, Struck, QuietPlainStep, TypesOf DEF verdict, BarePcs, TestedPcs, TroubleStep
<1>3. ASSUME Undisturbed PROVE DaemonFit'
  <2>1. States(labels) = {}
    BY <1>1, <1>3 DEF Undisturbed, DaemonFit
  <2> QED
    BY <1>1, <1>2, <2>1 DEF DaemonFit
<1> QED
  BY <1>1, <1>2, <1>3, OwnStepInv, TypesOf DEF verdict, MergedPcs, RecordedPcs

LEMMA OutcomeInv == IInv /\ Outcome => IInv'
<1> SUFFICES ASSUME IInv, Outcome PROVE IInv'
  OBVIOUS
<1>1. /\ pc \in {"pr_created", "no_pr"} /\ DaemonOnly
      /\ UNCHANGED <<labels, failures, saved, merged, tested, edit, dispatches>>
  BY DEF Outcome
<1>2. /\ TroubleStep /\ sha' \in {sha, prHead}
      /\ \/ pc' \in {"unknown", "intact", "find", "charged"} /\ sha' = sha
         \/ pc' = "converge" /\ sha' = prHead /\ prOpen /\ ~ SingleState(labels)
         \/ pc' = "unknown" /\ ~ SingleState(labels)
  BY Struck DEF Outcome, Goto, ReadLabels, Fails, TroubleStep
<1>3. OwnStep
  BY <1>1, <1>2, QuietPlainStep, TypesOf DEF BarePcs, TestedPcs
<1>4. ASSUME Undisturbed PROVE DaemonFit'
  <2>1. SingleState(labels)
    BY <1>1, <1>4 DEF Undisturbed, DaemonFit
  <2> QED
    BY <1>1, <1>2, <2>1 DEF DaemonFit
<1> QED
  BY <1>1, <1>2, <1>3, <1>4, OwnStepInv, TypesOf DEF MergedPcs, RecordedPcs

LEMMA ConvergeInv == IInv /\ Converge => IInv'
<1> SUFFICES ASSUME IInv, Converge PROVE IInv'
  OBVIOUS
<1>1. /\ pc = "converge" /\ pc' = "gate" /\ DaemonOnly /\ UNCHANGED <<verdict, dispatches>>
      /\ LabelEdit("edit", {Done}, {Progress})
  BY DEF Converge, Goto, TargetState
<1>2. OwnStep
  <2>1. {Done} \in SUBSET AllLabels /\ pc \in TestedPcs
    BY <1>1, LabelNames DEF TestedPcs
  <2>2. labels' \in SUBSET AllLabels /\ TroubleStep
    BY <1>1, <2>1, Edited
  <2>3. (prOpen \/ Excused) /\ pc' \in BarePcs \ {"count", "parkedit"} /\ pc \in BarePcs
    BY <1>1, <2>1, TypesOf DEF BarePcs, TestedPcs
  <2>4. QuietStep /\ merged' = 0
    BY <1>1, TypesOf DEF QuietStep, RecordedPcs, verdict
  <2> QED
    BY <1>1, <2>1, <2>2, <2>3, <2>4, PlainStep, TypesOf DEF verdict
<1>3. ~ Undisturbed
  BY <1>1 DEF Undisturbed, DaemonFit
<1> QED
  BY <1>1, <1>2, <1>3, OwnStepInv, TypesOf DEF verdict, MergedPcs, RecordedPcs

LEMMA FindPRInv == IInv /\ FindPR => IInv'
<1> SUFFICES ASSUME IInv, FindPR PROVE IInv'
  OBVIOUS
<1>1. /\ pc \in {"find", "refind"} /\ DaemonOnly
      /\ UNCHANGED <<labels, failures, saved, merged, tested, edit, dispatches>>
  BY DEF FindPR
<1>2. /\ TroubleStep /\ (pc = "refind" => pc' \in {"regate", "uncharged"})
      /\ \/ pc' \in {"gate", "regate"} /\ prOpen /\ sha' = prHead
         \/ pc' \in {"charged", "uncharged"} /\ sha' = sha
  BY Struck DEF FindPR, Goto, Fails, TroubleStep
<1>3. OwnStep
  BY <1>1, <1>2, QuietPlainStep, TypesOf DEF BarePcs, TestedPcs
<1>4. ASSUME Undisturbed PROVE DaemonFit'
  <2>1. SingleState(labels)
    BY <1>1, <1>4 DEF Undisturbed, DaemonFit
  <2> QED
    BY <1>1, <1>2, <2>1 DEF DaemonFit
<1> QED
  BY <1>1, <1>2, <1>3, <1>4, OwnStepInv, TypesOf DEF MergedPcs, RecordedPcs

\* The merge of a commit that CI was green for.
LEMMA MergeInv ==
  ASSUME IInv, pc \in {"gate", "regate"}, pc' = "persist", merged' = head, tested' = sha, DaemonOnly,
         UNCHANGED <<labels, failures, saved, sha, edit, dispatches, trouble>>
  PROVE  IInv'
<1>1. TroubleStep /\ head # 0
  BY TypesOf DEF TroubleStep, Succeeds, TestedPcs, trouble
<1>2. OwnStep
  <2>1. pc \in BarePcs /\ pc' \in BarePcs \ ({"count", "parkedit"} \cup TestedPcs)
    BY DEF BarePcs, TestedPcs, MergedPcs
  <2>2. QuietStep
    BY DEF QuietStep
  <2> QED
    BY <1>1, <2>1, <2>2, PlainStep, TypesOf
<1>3. Types' /\ (GateOK /\ PullRequestOK /\ QuietOK /\ Counted)'
  BY <1>2, OwnTypes, OwnRest, TypesOf
<1>4. CommitOK'
  BY <1>1, TypesOf DEF DaemonOnly, IInv, CommitOK, branch, TestedPcs, MergedPcs, RecordedPcs, trouble
<1> QED
  BY <1>1, <1>2, <1>3, <1>4 DEF IInv, OwnStep

LEMMA GateInv == IInv /\ Gate => IInv'
<1> SUFFICES ASSUME IInv, Gate PROVE IInv'
  OBVIOUS
<1>1. /\ pc \in {"gate", "regate"} /\ DaemonOnly
      /\ UNCHANGED <<labels, failures, saved, sha, edit, dispatches, trouble>>
  BY DEF Gate
<1>2. CASE merged' = head /\ tested' = sha /\ pc' = "persist"
  BY <1>1, <1>2, MergeInv
<1>3. CASE UNCHANGED <<merged, tested>> /\ pc' = (IF pc = "gate" THEN "intact" ELSE "uncharged")
  <2>1. OwnStep
    BY <1>1, <1>3, QuietPlainStep, TypesOf DEF TroubleStep, Succeeds, BarePcs, TestedPcs, trouble
  <2>2. ASSUME Undisturbed PROVE DaemonFit'
    <3>1. SingleState(labels)
      BY <1>1, <2>2 DEF Undisturbed, DaemonFit
    <3> QED
      BY <1>3, <1>1, <3>1 DEF DaemonFit
  <2> QED
    BY <1>1, <1>3, <2>1, <2>2, OwnStepInv, TypesOf DEF MergedPcs, RecordedPcs
<1> QED
  BY <1>2, <1>3 DEF Gate, Goto

LEMMA PersistInv == IInv /\ Persist => IInv'
<1> SUFFICES ASSUME IInv, Persist PROVE IInv'
  OBVIOUS
<1>1. /\ pc = "persist" /\ pc' = "merged" /\ DaemonOnly /\ UNCHANGED <<verdict, dispatches>>
      /\ LabelEdit("persist", {Merged}, {})
  BY DEF Persist, Goto
<1>2. OwnStep
  <2>1. {Merged} \in SUBSET AllLabels /\ Done # Merged
    BY LabelNames, LabelsDiffer DEF StateLabels
  <2>2. labels' \in SUBSET AllLabels /\ TroubleStep /\ (Done \in labels' => Done \in labels)
    BY <1>1, <2>1, Edited
  <2>3. QuietStep
    BY <1>1 DEF QuietStep
  <2> QED
    BY <1>1, <2>2, <2>3, PlainStep, TypesOf DEF verdict, BarePcs, TestedPcs, MergedPcs
<1>3. DaemonFit'
  BY <1>1 DEF DaemonFit
<1> QED
  BY <1>1, <1>2, <1>3, OwnStepInv, TypesOf DEF verdict, MergedPcs, RecordedPcs

LEMMA MarkMergedInv == IInv /\ MarkMerged => IInv'
<1> SUFFICES ASSUME IInv, MarkMerged PROVE IInv'
  OBVIOUS
<1>1. /\ pc = "merged" /\ pc' = "reset" /\ DaemonOnly
      /\ UNCHANGED <<failures, saved, sha, merged, tested, edit, dispatches>>
      /\ LabelEdit("edit", {}, {Progress, Done})
  BY DEF MarkMerged, Goto, KeepCount
<1>2. OwnStep
  <2>1. {} \in SUBSET AllLabels /\ Done \notin {}
    OBVIOUS
  <2>2. /\ labels' \in SUBSET AllLabels /\ TroubleStep /\ (Done \in labels' => Done \in labels)
        /\ labels' = Edit(labels, {}, {Progress, Done}) \/ "edit" \in happened'
    BY <1>1, <2>1, Edited
  <2>3. QuietStep
    BY <2>2 DEF QuietStep, Quiet, Late, Edit
  <2> QED
    BY <1>1, <2>2, <2>3, PlainStep, TypesOf DEF BarePcs, TestedPcs, MergedPcs
<1>3. DaemonFit'
  BY <1>1 DEF DaemonFit
<1> QED
  BY <1>1, <1>2, <1>3, OwnStepInv, TypesOf DEF MergedPcs, RecordedPcs

\* A write of the failure tally succeeds, or leaves the file as it was.
LEMMA Persisting ==
  ASSUME IInv, Persisted, failures' \in 0..MaxFailures
  PROVE  saved' \in 0..MaxFailures /\ TroubleStep
<1>1. saved \in 0..MaxFailures
  BY DEF IInv, Types, TypeOK
<1>2. CASE Succeeds /\ saved' = failures'
  BY <1>2 DEF TroubleStep
<1>3. CASE Fails("tally") /\ UNCHANGED saved
  BY <1>1, <1>3, Struck DEF Fails
<1> QED
  BY <1>2, <1>3 DEF Persisted

LEMMA ResetInv == IInv /\ Reset => IInv'
<1> SUFFICES ASSUME IInv, Reset PROVE IInv'
  OBVIOUS
<1>1. /\ pc = "reset" /\ pc' = "idle" /\ DaemonOnly /\ failures' = 0 /\ Persisted /\ Idle
      /\ UNCHANGED <<labels, sha, merged, tested, dispatches>>
  BY DEF Reset, Idle, Goto
<1>2. OwnStep
  <2>1. Counters /\ TroubleStep
    BY <1>1, Persisting, Constants DEF Counters, IInv, Types, TypeOK
  <2>2. QuietStep /\ (Done \in labels' => prOpen \/ Excused)
    BY <1>1, <2>1, StillQuiet
  <2> QED
    BY <1>1, <2>1, <2>2, NoEditLeft, TypesOf DEF OwnStep, BarePcs, TestedPcs, MergedPcs
<1>3. merged # 0
  BY <1>1 DEF IInv, CommitOK, MergedPcs
<1>4. DaemonFit'
  BY <1>1, <1>3 DEF DaemonFit
<1> QED
  BY <1>1, <1>2, <1>4, OwnStepInv, TypesOf DEF MergedPcs, RecordedPcs

-----------------------------------------------------------------------------
(* Parks.                                                                  *)

ParkPcs == {"charged", "uncharged", "intact", "unknown"}

\* The class that each failing exit of _run_work_unit names.
LEMMA ParkClassOf ==
  /\ DOMAIN ParkClass = ParkPcs
  /\ \A p \in ParkPcs : /\ ParkClass[p] \in ParkClasses
                        /\ p = "charged" => ParkClass[p] = "CHARGED"
                        /\ p = "uncharged" => ParkClass[p] = "UNCHARGED"
                        /\ p # "charged" => ParkClass[p] \in {"UNCHARGED", "STATE_INTACT", "UNKNOWN_STATE"}
                        /\ p # "charged" /\ p # "uncharged" => ParkClass[p] # "UNCHARGED"
BY DEF ParkClass, ParkPcs, ParkClasses

\* What a park of an undisturbed dispatch is going to make of the labels.
LEMMA ParkSettles ==
  ASSUME IInv, Undisturbed, Clean', pc \in ParkPcs, NEW readable \in BOOLEAN,
         ReadLabels(readable), NEW exhausted \in BOOLEAN
  PROVE  Settled(Parked(ParkClass[pc], readable, labels, exhausted))
<1> DEFINE class == ParkClass[pc]
<1>1. Progress \notin Parked(class, readable, labels, exhausted)
  BY ParkClassOf, ParkClearsProgress, TypesOf
<1>2. CASE pc = "charged"
  BY <1>1, <1>2, ParkClassOf, ChargedParkHasOneState, TypesOf DEF Settled
<1>3. CASE pc = "uncharged" /\ readable
  <2>1. class = "UNCHARGED"
    BY <1>3, ParkClassOf
  <2>2. Parked(class, readable, labels, exhausted) \cap StateLabels =
          IF labels \cap StateLabels = {} THEN {Ready} ELSE labels \cap StateLabels
    BY <1>3, <2>1, UnchargedParkKeepsState, TypesOf
  <2>3. SingleState(labels) \/ labels \cap StateLabels = {}
    BY <1>3 DEF Undisturbed, DaemonFit, States
  <2> QED
    BY <1>1, <2>2, <2>3 DEF Settled, SingleState, StateLabels
<1>4. CASE pc \in {"intact", "unknown"} \/ (pc = "uncharged" /\ ~ readable)
  <2>1. SingleState(labels)
    <3>1. CASE pc \in {"intact", "unknown"}
      BY <3>1 DEF Undisturbed, DaemonFit
    <3>2. CASE pc = "uncharged" /\ ~ readable
      <4>1. Strikes("labels")
        BY <3>2 DEF ReadLabels, Fails
      <4>2. troubles = 0
        BY <4>1, Struck
      <4> QED
        BY <3>2, <4>2 DEF Undisturbed, DaemonFit
    <3> QED
      BY <1>4, <3>1, <3>2
  <2>2. class \in {"UNCHARGED", "STATE_INTACT", "UNKNOWN_STATE"} /\ (class = "UNCHARGED" => ~ readable)
    BY <1>4, ParkClassOf
  <2>3. Parked(class, readable, labels, exhausted) \cap StateLabels = labels \cap StateLabels
    BY <2>2, OtherParksKeepState, TypesOf
  <2> QED
    BY <1>1, <2>1, <2>3 DEF Settled, SingleState
<1> QED
  BY <1>2, <1>3, <1>4 DEF ParkPcs

LEMMA ParkDecideInv == IInv /\ ParkDecide => IInv'
<1> SUFFICES ASSUME IInv, ParkDecide PROVE IInv'
  OBVIOUS
<1>1. /\ pc \in ParkPcs /\ pc' = (IF pc = "charged" THEN "count" ELSE "parkedit") /\ DaemonOnly
      /\ UNCHANGED <<failures, saved, labels, sha, merged, tested, dispatches>>
  BY ParkClassOf DEF ParkDecide, Goto, KeepCount
<1>2. PICK readable \in BOOLEAN :
        LET exhausted == pc = "charged" /\ failures + 1 >= MaxFailures IN
        /\ ReadLabels(readable)
        /\ edit' = [add       |-> ParkAdd(ParkClass[pc], readable, labels, exhausted),
                    remove    |-> ParkRemove(ParkClass[pc], readable, labels, exhausted),
                    exhausted |-> exhausted]
  BY DEF ParkDecide
<1> DEFINE exhausted == pc = "charged" /\ failures + 1 >= MaxFailures
           add == ParkAdd(ParkClass[pc], readable, labels, exhausted)
           remove == ParkRemove(ParkClass[pc], readable, labels, exhausted)
<1>3. exhausted \in BOOLEAN
  OBVIOUS
<1>4. ReadLabels(readable) /\ edit' = [add |-> add, remove |-> remove, exhausted |-> exhausted]
  BY <1>2
<1>5. /\ add \in {{}, {Ready}, {Failed}} /\ Progress \in remove
      /\ remove \subseteq StateLabels \cup {Progress}
  BY <1>1, <1>3, ParkClassOf, ParkEditShape
<1> HIDE DEF exhausted, add, remove
<1>6. OwnStep
  <2>1. TroubleStep
    BY <1>4, Struck DEF ReadLabels, Fails, TroubleStep
  <2>2. add \in SUBSET AllLabels /\ remove \in SUBSET AllLabels
    BY <1>5, LabelNames
  <2>3. edit' \in [add : SUBSET AllLabels, remove : SUBSET AllLabels, exhausted : BOOLEAN]
    BY <1>3, <1>4, <2>2
  <2>4. EditOK'
    BY <1>4, <1>5 DEF EditOK
  <2>5. Counters
    BY <1>1 DEF Counters, IInv, Types, TypeOK
  <2>6. pc \in BarePcs /\ pc' \in BarePcs \ TestedPcs
    BY <1>1 DEF BarePcs, ParkPcs, TestedPcs, MergedPcs
  <2>7. QuietStep /\ (Done \in labels' => prOpen \/ Excused)
    BY <1>1, <2>1, StillQuiet DEF ParkPcs
  <2> QED
    BY <1>1, <2>1, <2>3, <2>4, <2>5, <2>6, <2>7, TypesOf DEF OwnStep
<1>7. ASSUME Undisturbed, Clean' PROVE DaemonFit'
  <2>1. Settled(Parked(ParkClass[pc], readable, labels, exhausted))
    BY <1>1, <1>3, <1>4, <1>7, ParkSettles
  <2>2. Edit(labels, edit'.add, edit'.remove) = Parked(ParkClass[pc], readable, labels, exhausted)
    BY <1>4 DEF Parked, add, remove
  <2> QED
    BY <1>1, <2>1, <2>2 DEF DaemonFit
<1> QED
  BY <1>1, <1>6, <1>7, OwnStepInv, TypesOf DEF MergedPcs, RecordedPcs, ParkPcs

LEMMA CountInv == IInv /\ Count => IInv'
<1> SUFFICES ASSUME IInv, Count PROVE IInv'
  OBVIOUS
<1>1. /\ pc = "count" /\ pc' = "parkedit" /\ DaemonOnly /\ Persisted
      /\ failures' = IF failures < MaxFailures THEN failures + 1 ELSE failures
      /\ UNCHANGED <<labels, sha, merged, tested, edit, dispatches>>
  BY DEF Count, Goto
<1>2. OwnStep
  <2>1. Counters /\ TroubleStep
    BY <1>1, Persisting, Constants DEF Counters, IInv, Types, TypeOK
  <2>2. QuietStep /\ (Done \in labels' => prOpen \/ Excused)
    BY <1>1, <2>1, StillQuiet
  <2> QED
    BY <1>1, <2>1, <2>2, SameEdit, TypesOf DEF OwnStep, BarePcs, TestedPcs, MergedPcs
<1>3. ASSUME Undisturbed PROVE DaemonFit'
  BY <1>1, <1>3 DEF Undisturbed, DaemonFit
<1> QED
  BY <1>1, <1>2, <1>3, OwnStepInv, TypesOf DEF MergedPcs, RecordedPcs

LEMMA ParkEditInv == IInv /\ ParkEdit => IInv'
<1> SUFFICES ASSUME IInv, ParkEdit PROVE IInv'
  OBVIOUS
<1>1. /\ pc = "parkedit" /\ DaemonOnly /\ LabelEdit("edit", edit.add, edit.remove)
      /\ UNCHANGED <<failures, saved, sha, merged, tested, dispatches>>
      /\ (pc' = "verify" /\ UNCHANGED edit) \/ (pc' = "idle" /\ Idle)
  BY DEF ParkEdit, Goto, KeepCount, Idle
<1>2. edit.add \in SUBSET AllLabels /\ Done \notin edit.add
  BY LabelsDiffer DEF IInv, Types, TypeOK, EditOK
<1>3. /\ labels' \in SUBSET AllLabels /\ TroubleStep /\ (Done \in labels' => Done \in labels)
      /\ labels' = Edit(labels, edit.add, edit.remove) \/ "edit" \in happened'
  BY <1>1, <1>2, Edited
<1>4. OwnStep
  <2>1. edit' \in [add : SUBSET AllLabels, remove : SUBSET AllLabels, exhausted : BOOLEAN] /\ EditOK'
    BY <1>1, SameEdit, NoEditLeft
  <2>2. Counters
    BY <1>1 DEF Counters, IInv, Types, TypeOK
  <2>3. QuietStep /\ (Done \in labels' => prOpen \/ Excused)
    BY <1>1, <1>3, StillQuiet
  <2> QED
    BY <1>1, <1>3, <2>1, <2>2, <2>3, TypesOf DEF OwnStep, BarePcs, TestedPcs, MergedPcs
<1>5. ASSUME Undisturbed, Clean' PROVE DaemonFit'
  <2>1. labels' = Edit(labels, edit.add, edit.remove)
    BY <1>3, <1>5 DEF Clean
  <2>2. Settled(labels')
    BY <1>1, <1>5, <2>1 DEF Undisturbed, DaemonFit
  <2> QED
    BY <1>1, <2>2 DEF DaemonFit
<1> QED
  BY <1>1, <1>4, <1>5, OwnStepInv, TypesOf DEF MergedPcs, RecordedPcs

LEMMA ParkVerifyInv == IInv /\ ParkVerify => IInv'
<1> SUFFICES ASSUME IInv, ParkVerify PROVE IInv'
  OBVIOUS
<1>1. /\ pc = "verify" /\ pc' = "idle" /\ DaemonOnly /\ Idle
      /\ UNCHANGED <<labels, sha, merged, tested, dispatches>>
  BY DEF ParkVerify, Goto, Idle
<1>2. TroubleStep /\ failures' \in 0..MaxFailures /\ saved' \in 0..MaxFailures
  <2>1. failures \in 0..MaxFailures /\ saved \in 0..MaxFailures /\ 0 \in 0..MaxFailures
    BY Constants DEF IInv, Types, TypeOK
  <2>2. CASE failures' = 0 /\ Persisted
    BY <2>1, <2>2, Persisting
  <2>3. CASE KeepCount /\ (ReadLabels(TRUE) \/ ReadLabels(FALSE))
    BY <2>1, <2>3, Struck DEF KeepCount, ReadLabels, Fails, TroubleStep
  <2> QED
    BY <2>2, <2>3 DEF ParkVerify
<1>3. OwnStep
  <2>1. QuietStep /\ (Done \in labels' => prOpen \/ Excused)
    BY <1>1, <1>2, StillQuiet
  <2>2. Counters
    BY <1>1, <1>2 DEF Counters, IInv, Types, TypeOK
  <2> QED
    BY <1>1, <1>2, <2>1, <2>2, NoEditLeft, TypesOf DEF OwnStep, BarePcs, TestedPcs, MergedPcs
<1>4. ASSUME Undisturbed PROVE DaemonFit'
  BY <1>1, <1>4 DEF Undisturbed, DaemonFit
<1> QED
  BY <1>1, <1>3, <1>4, OwnStepInv, TypesOf DEF MergedPcs, RecordedPcs

-----------------------------------------------------------------------------
(* The steps of the launch gate, of the run and of everybody else.         *)

InnerPcs == Pcs \ (TestedPcs \cup MergedPcs \cup {"count", "parkedit"})

LEMMA OuterInv ==
  ASSUME IInv, TroubleStep, UNCHANGED <<verdict, dispatches>>,
         SharedTypeOK', GateTypeOK', HookTypeOK', RunTypeOK', GateOK', PullRequestOK', QuietOK',
         "push" \notin happened' => prHead' = pushed',
         (pc' = pc /\ pushed' = pushed) \/ (merged = 0 /\ pc' \in InnerPcs),
         Clean' /\ Undisturbed => Undisturbed'
  PROVE  IInv'
<1>1. Types'
  BY DEF IInv, Types, TypeOK, verdict, InnerPcs
<1>2. CommitOK' /\ EditOK'
  <2>1. pc' # pc => merged = 0 /\ pc' \notin TestedPcs \cup MergedPcs \cup {"count", "parkedit"}
    BY DEF InnerPcs
  <2>2. EditOK'
    BY <2>1 DEF IInv, EditOK, verdict
  <2>3. CASE pc' = pc /\ pushed' = pushed
    BY <2>2, <2>3, TroublesAdd DEF IInv, CommitOK, verdict
  <2>4. CASE pc' # pc
    BY <2>1, <2>2, <2>4, TroublesAdd DEF IInv, CommitOK, verdict
  <2>5. CASE pc' = pc /\ pc' \in InnerPcs /\ merged = 0
    BY <2>2, <2>5, TroublesAdd DEF IInv, CommitOK, verdict, InnerPcs
  <2> QED
    BY <2>3, <2>4, <2>5
<1> QED
  BY <1>1, <1>2, TroublesAdd DEF IInv, verdict

\* A step that does not touch the hook, and leaves the daemon where it is or a work that
\* is not merged, keeps the issue quiet.
LEMMA OuterQuiet ==
  ASSUME IInv, TroubleStep, UNCHANGED <<merged, hook, stray, outcome>>,
         pc' = pc \/ (merged = 0 /\ pc # "waiting"),
         merged # 0 => (Done \in labels' => Done \in labels)
  PROVE  QuietOK'
<1>1. QuietOK /\ (Quiet' => Quiet)
  BY LateStays DEF IInv
<1> QED
  BY <1>1 DEF QuietOK, Alone

\* ... and the pull request's claims, where only a push or a worker's run moves it on.
LEMMA OuterPull ==
  ASSUME IInv, TroubleStep, UNCHANGED <<merged, outcome>>,
         Done \in labels' => prOpen \/ Excused,
         prOpen => prOpen', prOpen' => pushed' # 0, pushed' # 0 => head' # 0,
         (pc' = pc /\ UNCHANGED head) \/ pc' \notin TestedPcs
  PROVE  PullRequestOK'
<1>1. PullRequestOK /\ (Excused => Excused') /\ ("closepr" \in happened => "closepr" \in happened')
  BY LateStays DEF IInv
<1> QED
  BY <1>1 DEF PullRequestOK

GateFrame == UNCHANGED <<hookVars, runVars, verdict, dispatches>>

\* What a step of the launch gate and its probe changes.
LEMMA GateStepFacts ==
  ASSUME IInv, GateStep, GateFrame
  PROVE  /\ TroubleStep /\ UNCHANGED <<issueOpen, prOpen, prHead, branch, wt>>
         /\ labels' \in SUBSET AllLabels /\ (Done \in labels' => Done \in labels)
         /\ pc \in {"preflight", "probe", "cleanup", "refuse"}
         /\ pc' \in {"probe", "cleanup", "refuse", "worktree", "intact"}
         /\ GateTypeOK' /\ GateOK'
         /\ \/ pc' # "intact" /\ UNCHANGED labels
            \/ pc' = "intact" /\ (labels' = Edit(labels, {Ready}, {Progress}) \/ "edit" \in happened')
<1>1. GateTypeOK /\ GateOK
  BY DEF IInv, Types, TypeOK
<1>2. WorkerPcs \cap {"probe", "cleanup", "refuse", "intact"} = {} /\ "worktree" \in WorkerPcs
  BY DEF WorkerPcs
<1>3. CASE Preflight
  <2>1. /\ pc = "preflight" /\ pc' = IF gitRoot THEN "probe" ELSE "refuse"
        /\ UNCHANGED <<gitRoot, protected, labels, issueOpen, prOpen, prHead, branch, wt>> /\ Succeeds
        /\ reply' = "none" /\ ref' = "none" /\ reported' = FALSE
    BY <1>3 DEF Preflight, Goto, github, Succeeds
  <2> QED
    BY <1>1, <1>2, <2>1, TypesOf DEF GateTypeOK, GateOK, NoSilentRef, TroubleStep, Replies
<1>4. CASE Probe
  <2>1. /\ pc = "probe" /\ pc' = IF reply' = "denied" THEN "worktree" ELSE "cleanup"
        /\ UNCHANGED <<gitRoot, protected, reported, labels, issueOpen, prOpen, prHead, branch, wt>>
    BY <1>4 DEF Probe, Goto, github
  <2>2. /\ TroubleStep /\ reply' \in Replies /\ (reply' = "denied" => protected)
        /\ ref' \in {"none", "under way", "on origin", "late"}
    BY <1>1, <1>4, Struck DEF Probe, Fails, TroubleStep, GateTypeOK, Replies
  <2> QED
    BY <1>1, <1>2, <2>1, <2>2, TypesOf DEF GateTypeOK, GateOK, NoSilentRef
<1>5. CASE CleanupAccepted \/ CleanupUnsure
  <2>1. /\ pc = "cleanup" /\ pc' = "refuse"
        /\ UNCHANGED <<gitRoot, protected, labels, issueOpen, prOpen, prHead, branch, wt>>
    BY <1>5 DEF CleanupAccepted, CleanupUnsure, Goto, github
  <2>2. /\ TroubleStep /\ reply' \in {reply, "cleanup_failed"} /\ reported' \in {reported, TRUE}
        /\ ref' \in {"none", ref} /\ (ref' = "on origin" => reported')
    BY <1>1, <1>5, Struck DEF CleanupAccepted, CleanupUnsure, Fails, TroubleStep
  <2> QED
    BY <1>1, <1>2, <2>1, <2>2, TypesOf DEF GateTypeOK, GateOK, NoSilentRef, Replies
<1>6. CASE Refuse
  <2>1. /\ pc = "refuse" /\ pc' = "intact" /\ LabelEdit("edit", {Ready}, {Progress})
        /\ UNCHANGED <<gate, issueOpen, prOpen, prHead, branch, wt>>
    BY <1>6 DEF Refuse, Goto
  <2>2. {Ready} \in SUBSET AllLabels /\ Done \notin {Ready}
    BY LabelNames, LabelsDiffer
  <2>3. /\ labels' \in SUBSET AllLabels /\ TroubleStep /\ (Done \in labels' => Done \in labels)
        /\ labels' = Edit(labels, {Ready}, {Progress}) \/ "edit" \in happened'
    BY <2>1, <2>2, Edited, TypesOf
  <2> QED
    BY <1>1, <1>2, <2>1, <2>3 DEF GateTypeOK, GateOK, NoSilentRef, gate
<1> QED
  BY <1>3, <1>4, <1>5, <1>6 DEF GateStep

LEMMA GateStepInv == IInv /\ GateStep /\ GateFrame => IInv'
<1> SUFFICES ASSUME IInv, GateStep, GateFrame PROVE IInv'
  OBVIOUS
<1>1. /\ TroubleStep /\ UNCHANGED <<issueOpen, prOpen, prHead, branch, wt>>
      /\ labels' \in SUBSET AllLabels /\ (Done \in labels' => Done \in labels)
      /\ pc \in {"preflight", "probe", "cleanup", "refuse"}
      /\ pc' \in {"probe", "cleanup", "refuse", "worktree", "intact"}
      /\ GateTypeOK' /\ GateOK'
      /\ \/ pc' # "intact" /\ UNCHANGED labels
         \/ pc' = "intact" /\ (labels' = Edit(labels, {Ready}, {Progress}) \/ "edit" \in happened')
  BY GateStepFacts
<1>2. pc' \in InnerPcs \ {"waiting", "idle"} /\ merged = 0 /\ pc' \notin TestedPcs /\ pc' # "postprobe"
  BY <1>1, TypesOf DEF InnerPcs, Pcs, BarePcs, WorkerPcs, TestedPcs, MergedPcs, RecordedPcs
<1>3. SharedTypeOK' /\ HookTypeOK' /\ RunTypeOK'
  <2>1. HookTypeOK' /\ RunTypeOK'
    BY DEF IInv, Types, TypeOK, GateFrame, HookTypeOK, RunTypeOK, hookVars, runVars, run, world
  <2> QED
    BY <1>1, <2>1, TroublesAdd DEF IInv, Types, TypeOK, SharedTypeOK, branch
<1>4. PullRequestOK' /\ QuietOK' /\ ("push" \notin happened' => prHead' = pushed')
  <2>1. UNCHANGED <<merged, hook, stray, outcome, head, pushed>>
    BY <1>1 DEF GateFrame, hookVars, verdict, branch
  <2>2. (prOpen => pushed # 0) /\ (pushed # 0 => head # 0)
    BY DEF IInv, PullRequestOK
  <2>3. PullRequestOK'
    BY <1>1, <1>2, <2>1, <2>2, OuterPull, TypesOf
  <2>4. QuietOK'
    BY <1>1, <1>2, <2>1, OuterQuiet
  <2> QED
    BY <1>1, <2>1, <2>3, <2>4, TroublesAdd DEF IInv, CommitOK
<1>5. ASSUME Undisturbed, Clean' PROVE Undisturbed'
  <2>1. States(labels) = {}
    BY <1>1, <1>5 DEF Undisturbed, DaemonFit
  <2>2. pc' = "intact" => SingleState(labels')
    <3>1. pc' = "intact" => labels' = Edit(labels, {Ready}, {Progress})
      BY <1>1, <1>5 DEF Clean
    <3>2. pc' = "intact" => labels' \cap StateLabels = {Ready}
      BY <2>1, <3>1, LabelsDiffer DEF States, Edit, StateLabels
    <3> QED
      BY <3>2 DEF SingleState, StateLabels
  <2>3. Alone'
    BY <1>1, <1>5 DEF Undisturbed, Alone, GateFrame, hookVars
  <2>4. DaemonFit'
    BY <1>1, <2>1, <2>2 DEF DaemonFit
  <2>5. RunFit'
    BY <1>1, <1>2, <2>1 DEF RunFit, WorkerPcs
  <2> QED
    BY <2>3, <2>4, <2>5 DEF Undisturbed
<1> QED
  BY <1>1, <1>2, <1>3, <1>4, <1>5, OuterInv DEF GateFrame, branch

RunFrame == UNCHANGED <<gate, hookVars, verdict, dispatches>>
RunPcs == WorkerPcs \ {"waiting", "postprobe"}

RunMoves ==
  \/ pc \in RunPcs \ {"after"} /\ pc' \in RunPcs \cup {"charged"}
  \/ pc = "postprobe" /\ pc' \in {"pr_created", "no_pr"} /\ UNCHANGED labels

\* The steps of a run that neither rebase nor are the worker's own.
LEMMA RunStepFacts ==
  ASSUME IInv, RunStep, ~ Turn, ~ Rebase
  PROVE  /\ TroubleStep /\ UNCHANGED <<github, branch>> /\ RunMoves
         /\ wt' \in Worktrees /\ RunTypeOK'
<1>1. wt \in Worktrees /\ RunTypeOK /\ NoWorktree \in Worktrees
  BY DEF IInv, Types, TypeOK, SharedTypeOK, NoWorktree, Worktrees
<1>2. RunEnds => (turn' \in 0..MaxTurns /\ latched' \in BOOLEAN /\ raised' \in BOOLEAN)
  <2>1. 0 \in 0..MaxTurns
    BY Constants
  <2> QED
    BY <2>1 DEF RunEnds
<1>3. UNCHANGED run => (turn' \in 0..MaxTurns /\ latched' \in BOOLEAN /\ raised' \in BOOLEAN)
  BY <1>1 DEF run, RunTypeOK
<1>4. UNCHANGED world => behind' \in BOOLEAN /\ mentioned' \in BOOLEAN
  BY <1>1 DEF world, RunTypeOK
<1>5. NextTurn => (turn' \in 0..MaxTurns /\ latched' \in BOOLEAN /\ raised' \in BOOLEAN
                   /\ pc' \in {"turn", "after"})
  BY <1>1, <1>3, Constants DEF NextTurn, RunGoes, Goto, RunTypeOK
<1> USE DEF RunMoves, RunPcs, WorkerPcs, Goto, Raise, RunGoes, Fails, TroubleStep
<1>6. CASE EnsureWorktree
  <2>1. wt' \in Worktrees
    BY <1>1, <1>6 DEF EnsureWorktree, Worktrees
  <2> QED
    BY <1>2, <1>3, <1>4, <1>6, <2>1, Struck DEF EnsureWorktree, RunTypeOK, github
<1>7. CASE Install
  <2>1. wt' \in Worktrees
    BY <1>1, <1>7 DEF Install, Worktrees
  <2> QED
    BY <1>2, <1>3, <1>4, <1>7, <2>1, Struck DEF Install, RunTypeOK, github
<1>8. CASE WriteSettings
  <2>1. wt' \in Worktrees
    BY <1>1, <1>8 DEF WriteSettings, Worktrees
  <2> QED
    BY <1>2, <1>3, <1>4, <1>8, <2>1, Struck DEF WriteSettings, RunTypeOK, github
<1>9. CASE AbortRebase
  <2>1. wt' \in Worktrees
    BY <1>1, <1>9 DEF AbortRebase, Worktrees
  <2> QED
    BY <1>2, <1>3, <1>4, <1>9, <2>1, Struck DEF AbortRebase, RunTypeOK, github
<1>10. CASE CheckState
  BY <1>1, <1>3, <1>4, <1>10, Struck DEF CheckState, RunTypeOK, github
<1>11. CASE CheckLabels
  BY <1>1, <1>3, <1>4, <1>11, Struck DEF CheckLabels, RunTypeOK, github
<1>12. CASE ProbePR
  BY <1>1, <1>3, <1>4, <1>5, <1>12, Struck DEF ProbePR, RunTypeOK, github
<1>13. CASE CheckClean
  BY <1>1, <1>3, <1>4, <1>5, <1>13 DEF CheckClean, RunTypeOK, github, Succeeds
<1>14. CASE PostProbe
  BY <1>1, <1>2, <1>4, <1>14, Struck DEF PostProbe, RunTypeOK, github
<1> QED
  BY <1>6, <1>7, <1>8, <1>9, <1>10, <1>11, <1>12, <1>13, <1>14 DEF RunStep

\* What the rebase of before_run changes.
LEMMA RebaseFacts ==
  ASSUME IInv, Rebase
  PROVE  /\ TroubleStep /\ UNCHANGED <<github, pushed>> /\ RunMoves
         /\ head' \in Commits /\ newest' \in Commits /\ (head # 0 => head' # 0)
         /\ wt' \in Worktrees /\ RunTypeOK'
<1>1. wt \in Worktrees /\ RunTypeOK /\ head \in Commits /\ newest \in Commits
  BY DEF IInv, Types, TypeOK, SharedTypeOK
<1>2. wt' \in Worktrees
  BY <1>1 DEF Rebase, Worktrees
<1>3. UNCHANGED github /\ pc = "rebase" /\ TroubleStep /\ UNCHANGED mentioned
  BY Struck DEF Rebase, Fails, TroubleStep
<1>4. UNCHANGED branch => UNCHANGED <<head, newest, pushed>>
  BY DEF branch
<1>5. /\ head' \in Commits /\ newest' \in Commits /\ (head # 0 => head' # 0) /\ UNCHANGED pushed
  BY <1>1, <1>4, Constants DEF Rebase, Commits
<1>6. pc' \in {"turn", "abort", "charged"}
  BY DEF Rebase, Goto, RunGoes, Raise
<1>7. turn' \in 0..MaxTurns /\ latched' \in BOOLEAN /\ raised' \in BOOLEAN /\ behind' \in BOOLEAN
  <2>1. 0 \in 0..MaxTurns /\ 1 \in 0..MaxTurns
    BY Constants
  <2>2. /\ turn \in 0..MaxTurns /\ latched \in BOOLEAN /\ raised \in BOOLEAN /\ behind \in BOOLEAN
    BY <1>1 DEF RunTypeOK
  <2>3. behind' \in BOOLEAN
    BY <2>2 DEF Rebase
  <2>4. \/ turn' = 1 /\ UNCHANGED <<latched, raised>>
        \/ UNCHANGED run
        \/ RunEnds
    BY DEF Rebase, RunGoes, Raise
  <2> QED
    BY <2>1, <2>2, <2>3, <2>4 DEF RunEnds, run
<1> QED
  BY <1>1, <1>2, <1>3, <1>5, <1>6, <1>7 DEF RunMoves, RunPcs, WorkerPcs, RunTypeOK

\* What a worker's turn may do: commit, push, open a pull request, block.
LEMMA TurnFacts ==
  ASSUME IInv, Turn
  PROVE  /\ Succeeds /\ UNCHANGED issueOpen /\ RunMoves
         /\ labels' \in {labels, labels \cup {Blocked}}
         /\ head' \in Commits /\ newest' \in Commits /\ pushed' \in Commits /\ prHead' \in Commits
         /\ prOpen' \in BOOLEAN /\ (prOpen => prOpen') /\ (prOpen' => pushed' # 0)
         /\ (pushed' # 0 => head' # 0) /\ (prHead = pushed => prHead' = pushed')
         /\ wt' \in Worktrees /\ RunTypeOK'
<1>1. /\ wt \in Worktrees /\ RunTypeOK /\ head \in 0..MaxCommits /\ newest \in 0..MaxCommits
      /\ pushed \in 0..MaxCommits /\ prHead \in 0..MaxCommits /\ prOpen \in BOOLEAN
      /\ (prOpen => pushed # 0) /\ (pushed # 0 => head # 0)
  BY DEF IInv, Types, TypeOK, SharedTypeOK, PullRequestOK, Commits
<1>2. PICK commits \in BOOLEAN, opens \in BOOLEAN, blocks \in BOOLEAN :
        /\ commits => newest < MaxCommits
        /\ head'   = IF commits THEN newest + 1 ELSE head
        /\ newest' = IF commits THEN newest + 1 ELSE newest
        /\ pushed' \in {pushed, head, head'}
        /\ prHead' = IF pushed' = pushed THEN prHead ELSE pushed'
        /\ opens => pushed' # 0
        /\ prOpen' = (prOpen \/ opens)
        /\ labels' = IF blocks THEN labels \cup {Blocked} ELSE labels
  BY DEF Turn, WorkerActs
<1>3. wt' \in Worktrees
  BY <1>1 DEF Turn, WorkerActs, Worktrees
<1>4. /\ head' \in 0..MaxCommits /\ newest' \in 0..MaxCommits
      /\ (head # 0 => head' # 0)
  BY <1>1, <1>2, Constants
<1>5. pushed' \in 0..MaxCommits /\ prHead' \in 0..MaxCommits /\ (pushed' # 0 => head' # 0)
  BY <1>1, <1>2, <1>4
<1>6. prOpen' \in BOOLEAN /\ (prOpen => prOpen') /\ (prOpen' => pushed' # 0)
  BY <1>1, <1>2
<1>7. Succeeds /\ UNCHANGED <<issueOpen, turn, latched, world>> /\ pc = "turn"
      /\ pc' \in {"state", "after"} /\ raised' \in BOOLEAN
  BY <1>1 DEF Turn, TurnFails, Goto, Succeeds, RunTypeOK
<1>8. RunTypeOK' /\ RunMoves
  BY <1>1, <1>7 DEF RunTypeOK, world, RunMoves, RunPcs, WorkerPcs
<1> QED
  BY <1>2, <1>3, <1>4, <1>5, <1>6, <1>7, <1>8 DEF Commits

LEMMA RunStepInv == IInv /\ RunStep /\ RunFrame => IInv'
<1> SUFFICES ASSUME IInv, RunStep, RunFrame PROVE IInv'
  OBVIOUS
<1>1. /\ TroubleStep /\ UNCHANGED issueOpen /\ RunMoves
      /\ labels' \in {labels, labels \cup {Blocked}}
      /\ head' \in Commits /\ newest' \in Commits /\ pushed' \in Commits /\ prHead' \in Commits
      /\ prOpen' \in BOOLEAN /\ (prOpen => prOpen') /\ (prOpen' => pushed' # 0)
      /\ (pushed' # 0 => head' # 0) /\ (prHead = pushed => prHead' = pushed')
      /\ wt' \in Worktrees /\ RunTypeOK'
  <2>1. CASE Turn
    BY <2>1, TurnFacts DEF TroubleStep
  <2>2. CASE Rebase
    BY <2>2, RebaseFacts DEF github, IInv, Types, TypeOK, SharedTypeOK, PullRequestOK
  <2>3. CASE ~ Turn /\ ~ Rebase
    BY <2>3, RunStepFacts DEF github, branch, IInv, Types, TypeOK, SharedTypeOK, PullRequestOK
  <2> QED
    BY <2>1, <2>2, <2>3
<1>2. pc \in WorkerPcs /\ pc # "waiting" /\ pc' \in InnerPcs \ {"idle", "waiting", "postprobe"} /\ merged = 0
  BY <1>1, TypesOf DEF RunMoves, RunPcs, InnerPcs, Pcs, BarePcs, WorkerPcs, TestedPcs, MergedPcs, RecordedPcs
<1>3. SharedTypeOK' /\ GateTypeOK' /\ HookTypeOK'
  <2>1. GateTypeOK' /\ HookTypeOK'
    BY DEF IInv, Types, TypeOK, RunFrame, GateTypeOK, HookTypeOK, gate, hookVars
  <2>2. labels' \subseteq AllLabels /\ issueOpen' \in BOOLEAN
    BY <1>1, LabelNames DEF IInv, Types, TypeOK, SharedTypeOK
  <2> QED
    BY <1>1, <2>1, <2>2, TroublesAdd DEF SharedTypeOK
<1>4. GateOK' /\ PullRequestOK' /\ QuietOK'
  <2>1. GateOK'
    BY <1>1, <1>2 DEF IInv, GateOK, NoSilentRef, RunFrame, gate, RunMoves, RunPcs, WorkerPcs
  <2>2. /\ (Done \in labels' => Done \in labels) /\ pc' \notin TestedPcs
        /\ UNCHANGED <<merged, hook, stray, outcome>>
    BY <1>1, <1>2, LabelsDiffer DEF InnerPcs, RunFrame, hookVars, verdict
  <2>3. PullRequestOK'
    BY <1>1, <2>2, OuterPull, TypesOf
  <2>4. QuietOK'
    BY <1>1, <1>2, <2>2, OuterQuiet
  <2> QED
    BY <2>1, <2>3, <2>4
<1>5. "push" \notin happened' => prHead' = pushed'
  BY <1>1, TroublesAdd DEF IInv, CommitOK
<1>6. ASSUME Undisturbed PROVE Undisturbed'
  <2>1. Alone'
    BY <1>2, <1>6 DEF Undisturbed, Alone, RunFrame, hookVars
  <2>2. CASE pc = "postprobe" /\ pc' \in {"pr_created", "no_pr"} /\ UNCHANGED labels
    <3>1. SingleState(labels')
      BY <1>6, <2>2 DEF Undisturbed, RunFit
    <3> QED
      BY <2>1, <2>2, <3>1 DEF Undisturbed, DaemonFit, RunFit, WorkerPcs
  <2>3. CASE pc \in RunPcs \ {"after"} /\ pc' \in RunPcs \cup {"charged"}
    <3>1. States(labels') \subseteq {Blocked}
      BY <1>1, <1>6, <2>3 DEF Undisturbed, RunFit, RunPcs, States
    <3>2. DaemonFit'
      BY <2>3 DEF DaemonFit, RunPcs, WorkerPcs
    <3> QED
      BY <2>1, <2>3, <3>1, <3>2 DEF Undisturbed, RunFit, RunPcs
  <2> QED
    BY <1>1, <2>2, <2>3 DEF RunMoves
<1> QED
  BY <1>1, <1>2, <1>3, <1>4, <1>5, <1>6, OuterInv DEF RunFrame

-----------------------------------------------------------------------------
(* The hook, waited for or not.                                            *)

\* A step that changes no label, keeps the daemon where it is and the hook too.
LEMMA StillFit ==
  ASSUME IInv, TroubleStep, Undisturbed, UNCHANGED <<labels, pc, merged, edit, hook, stray>>
  PROVE  Undisturbed'
<1>1. Alone'
  BY DEF Undisturbed, Alone
<1>2. DaemonFit'
  BY TroublesAdd DEF Undisturbed, DaemonFit
<1>3. RunFit'
  BY DEF Undisturbed, RunFit
<1> QED
  BY <1>1, <1>2, <1>3 DEF Undisturbed

HookCallFrame == UNCHANGED <<gate, verdict, dispatches>>

\* What the daemon's call and wait for the hook change.
LEMMA HookCallFacts ==
  ASSUME IInv, HookCall
  PROVE  /\ TroubleStep /\ UNCHANGED <<github, branch, wt>> /\ HookTypeOK' /\ RunTypeOK'
         /\ outcome' = outcome
         /\ \/ pc = "after" /\ pc' = "waiting" /\ hook' = "classify" /\ stray' = FALSE
            \/ /\ pc = "waiting" /\ pc' \in {"charged", "pr_created", "postprobe"} /\ hook' = hook
               /\ (hook = "off" /\ UNCHANGED hookVars) \/ (hook # "off" /\ "hooktimeout" \in happened')
<1>1. HookTypeOK /\ RunTypeOK
  BY DEF IInv, Types, TypeOK
<1>2. RunEnds \/ UNCHANGED run => (turn' \in 0..MaxTurns /\ latched' \in BOOLEAN /\ raised' \in BOOLEAN)
  <2>1. 0 \in 0..MaxTurns
    BY Constants
  <2> QED
    BY <1>1, <2>1 DEF RunEnds, run, RunTypeOK
<1>3. UNCHANGED world => behind' \in BOOLEAN /\ mentioned' \in BOOLEAN
  BY <1>1 DEF world, RunTypeOK
<1>4. CASE After
  BY <1>1, <1>2, <1>3, <1>4 DEF After, StartHook, RunGoes, Goto, HookTypeOK, RunTypeOK, TroubleStep, Succeeds
<1>5. CASE HookReturns
  <2>1. /\ pc = "waiting" /\ UNCHANGED <<github, branch, wt, world>>
        /\ pc' \in {"charged", "pr_created", "postprobe"} /\ (RunEnds \/ UNCHANGED run)
    BY <1>5 DEF HookReturns, Raise, RunGoes, Goto
  <2>2. CASE hook = "off" /\ Succeeds /\ UNCHANGED hookVars
    BY <1>1, <1>2, <1>3, <2>1, <2>2 DEF TroubleStep, hookVars, HookTypeOK, RunTypeOK
  <2>3. CASE /\ hook # "off" /\ Fails("hooktimeout") /\ stray' = TRUE
             /\ UNCHANGED <<hook, outcome, lookups, seen>>
    BY <1>1, <1>2, <1>3, <2>1, <2>3, Struck DEF Fails, HookTypeOK, RunTypeOK
  <2> QED
    BY <1>5, <2>2, <2>3 DEF HookReturns
<1> QED
  BY <1>4, <1>5 DEF HookCall

LEMMA HookCallInv == IInv /\ HookCall /\ HookCallFrame => IInv'
<1> SUFFICES ASSUME IInv, HookCall, HookCallFrame PROVE IInv'
  OBVIOUS
<1>1. /\ TroubleStep /\ UNCHANGED <<github, branch, wt>> /\ HookTypeOK' /\ RunTypeOK'
      /\ outcome' = outcome
      /\ \/ pc = "after" /\ pc' = "waiting" /\ hook' = "classify" /\ stray' = FALSE
         \/ /\ pc = "waiting" /\ pc' \in {"charged", "pr_created", "postprobe"} /\ hook' = hook
            /\ (hook = "off" /\ UNCHANGED hookVars) \/ (hook # "off" /\ "hooktimeout" \in happened')
  BY HookCallFacts
<1>2. pc \in WorkerPcs /\ pc' \in InnerPcs \ TestedPcs /\ merged = 0
  BY <1>1, TypesOf DEF InnerPcs, Pcs, BarePcs, WorkerPcs, TestedPcs, MergedPcs, RecordedPcs
<1>3. SharedTypeOK' /\ GateTypeOK'
  <2>1. GateTypeOK'
    BY DEF IInv, Types, TypeOK, HookCallFrame, GateTypeOK, gate
  <2> QED
    BY <1>1, <2>1, TroublesAdd DEF IInv, Types, TypeOK, SharedTypeOK, github, branch
<1>4. GateOK' /\ PullRequestOK' /\ QuietOK' /\ ("push" \notin happened' => prHead' = pushed')
  <2>1. GateOK'
    BY <1>1, <1>2 DEF IInv, GateOK, NoSilentRef, HookCallFrame, gate
  <2>2. UNCHANGED <<labels, merged, prOpen, prHead, head, pushed>>
    BY <1>1 DEF HookCallFrame, verdict, github, branch
  <2>3. PullRequestOK'
    <3>1. (prOpen => pushed # 0) /\ (pushed # 0 => head # 0)
      BY DEF IInv, PullRequestOK
    <3> QED
      BY <1>1, <1>2, <2>2, <3>1, OuterPull, TypesOf
  <2>4. QuietOK'
    <3>1. QuietOK /\ (Quiet' => Quiet) /\ merged' = 0
      BY <1>1, <1>2, <2>2, LateStays DEF IInv
    <3>2. "hooktimeout" \in happened' => ~ Quiet'
      BY DEF Quiet, Late
    <3>3. CASE pc = "after" /\ pc' = "waiting" /\ hook' = "classify" /\ stray' = FALSE
      BY <3>1, <3>3 DEF QuietOK, Alone
    <3>4. CASE pc = "waiting" /\ hook' = hook /\ hook = "off" /\ UNCHANGED hookVars
      BY <3>1, <3>4 DEF QuietOK, Alone, hookVars
    <3>5. CASE hook' = hook /\ hook # "off" /\ "hooktimeout" \in happened'
      BY <3>1, <3>2, <3>5 DEF QuietOK
    <3> QED
      BY <1>1, <3>3, <3>4, <3>5
  <2> QED
    BY <1>1, <2>1, <2>2, <2>3, <2>4, TroublesAdd DEF IInv, CommitOK
<1>5. ASSUME Undisturbed, Clean' PROVE Undisturbed'
  <2>1. CASE pc = "after" /\ pc' = "waiting" /\ hook' = "classify" /\ stray' = FALSE
    <3>1. States(labels') \subseteq {Blocked}
      BY <1>1, <1>5, <2>1 DEF Undisturbed, RunFit, WorkerPcs, github
    <3> QED
      BY <2>1, <3>1 DEF Undisturbed, Alone, DaemonFit, RunFit
  <2>2. CASE pc = "waiting" /\ pc' \in {"charged", "pr_created", "postprobe"} /\ hook = "off" /\ UNCHANGED hookVars
    <3>1. SingleState(labels')
      BY <1>1, <1>5, <2>2 DEF Undisturbed, RunFit, github
    <3>2. Alone'
      BY <1>5, <2>2 DEF Undisturbed, Alone, hookVars
    <3> QED
      BY <2>2, <3>1, <3>2 DEF Undisturbed, DaemonFit, RunFit, WorkerPcs
  <2>3. "hooktimeout" \notin happened'
    BY <1>5 DEF Clean
  <2> QED
    BY <1>1, <2>1, <2>2, <2>3
<1> QED
  BY <1>1, <1>2, <1>3, <1>4, <1>5, OuterInv DEF HookCallFrame

\* What a step of the hook changes, a stray one's included.
LEMMA HookStepFacts ==
  ASSUME IInv, HookStep
  PROVE  /\ TroubleStep /\ OnlyHook /\ HookTypeOK' /\ hook # "off"
         /\ labels' \in SUBSET AllLabels /\ (Done \in labels' => prOpen \/ Excused)
         /\ outcome' = "pr-opened" => prOpen \/ Excused
         /\ hook' # "off" => UNCHANGED stray
         /\ hook' = "off" => stray' = FALSE /\ outcome' = "none"
<1>1. /\ HookTypeOK /\ labels \in SUBSET AllLabels /\ (Done \in labels => prOpen \/ Excused)
      /\ outcome = "pr-opened" => prOpen \/ Excused
  BY DEF IInv, Types, TypeOK, SharedTypeOK, PullRequestOK
<1>2. HookExits => HookTypeOK' /\ outcome' # "pr-opened" /\ hook' = "off" /\ stray' = FALSE /\ outcome' = "none"
  <2> SUFFICES ASSUME HookExits
               PROVE  HookTypeOK' /\ outcome' # "pr-opened" /\ hook' = "off" /\ stray' = FALSE /\ outcome' = "none"
    OBVIOUS
  <2>1. hook' = "off" /\ stray' = FALSE /\ outcome' = "none" /\ lookups' = 0 /\ seen' = {}
    BY DEF HookExits
  <2>2. lookups' \in 0..(MaxLookups - 1)
    BY <2>1, Constants
  <2> QED
    BY <2>1, <2>2 DEF HookTypeOK, Outcomes
<1>3. CASE HookClassify
  <2>1. hook = "classify" /\ UNCHANGED labels /\ OnlyHook
    BY <1>3 DEF HookClassify
  <2>2. CASE HookExits
    BY <1>1, <1>2, <1>3, <2>1, <2>2, Struck DEF HookClassify, Fails, TroubleStep
  <2>3. CASE ~ HookExits
    <3>1. /\ Succeeds /\ UNCHANGED <<seen, stray, lookups>> /\ hook' \in {"labels", "lookup"}
          /\ outcome' \in {outcome, "worker-tried-merge", "uncommitted-changes", "no-commits"}
      BY <1>3, <2>3 DEF HookClassify, HookGoes
    <3> QED
      BY <1>1, <2>1, <3>1 DEF HookTypeOK, Outcomes, TroubleStep
  <2> QED
    BY <2>2, <2>3
<1>4. CASE HookLookup
  <2>1. hook = "lookup" /\ UNCHANGED labels /\ OnlyHook
    BY <1>4 DEF HookLookup
  <2>2. CASE HookExits
    BY <1>1, <1>2, <1>4, <2>1, <2>2, Struck DEF HookLookup, Fails, TroubleStep
  <2>3. CASE ~ HookExits
    <3>1. TroubleStep /\ UNCHANGED <<seen, stray>>
      BY <1>4, <2>3, Struck DEF HookLookup, HookGoes, Fails, TroubleStep
    <3>2. /\ outcome' \in Outcomes /\ (outcome' = "pr-opened" => prOpen \/ Excused)
          /\ hook' \in {"labels", "lookup"} /\ lookups' \in 0..(MaxLookups - 1)
      BY <1>1, <1>4, <2>1, <2>3, Constants DEF HookLookup, HookGoes, HookTypeOK, Outcomes
    <3> QED
      BY <1>1, <2>1, <3>1, <3>2 DEF HookTypeOK
  <2> QED
    BY <2>2, <2>3
<1>5. CASE HookLabels
  <2>1. hook = "labels" /\ UNCHANGED labels /\ OnlyHook
    BY <1>5 DEF HookLabels
  <2>2. TroubleStep
    BY <1>5, Struck DEF HookLabels, HookReads, Fails, TroubleStep
  <2>3. CASE HookExits
    BY <1>1, <1>2, <2>1, <2>2, <2>3
  <2>4. CASE ~ HookExits
    <3>1. UNCHANGED <<stray, lookups, outcome>> /\ seen' = labels /\ hook' \in {"remove", "add"}
      BY <1>5, <2>4 DEF HookLabels, HookGoes
    <3> QED
      BY <1>1, <2>1, <2>2, <3>1 DEF HookTypeOK
  <2> QED
    BY <2>3, <2>4
<1>6. CASE HookRemove
  <2>1. {} \in SUBSET AllLabels /\ Done \notin {}
    OBVIOUS
  <2>2. /\ hook = "remove" /\ OnlyHook
        /\ labels' \in SUBSET AllLabels /\ TroubleStep /\ (Done \in labels' => Done \in labels)
    BY <1>6, <2>1, Edited DEF HookRemove
  <2>3. CASE HookExits
    BY <1>1, <1>2, <2>2, <2>3
  <2>4. CASE ~ HookExits
    <3>1. UNCHANGED <<stray, lookups, outcome, seen>> /\ hook' = "add"
      BY <1>6, <2>4 DEF HookRemove, HookGoes
    <3> QED
      BY <1>1, <2>2, <3>1 DEF HookTypeOK
  <2> QED
    BY <2>3, <2>4
<1>7. CASE HookAdd
  <2>1. {Target(outcome)} \in SUBSET AllLabels /\ (Done \in {Target(outcome)} => prOpen \/ Excused)
    BY <1>1, LabelNames, LabelsDiffer DEF Target
  <2>2. /\ hook = "add" /\ OnlyHook /\ HookExits /\ TroubleStep
        /\ labels' \in SUBSET AllLabels /\ (Done \in labels' => prOpen \/ Excused)
    BY <1>1, <1>7, <2>1, Edited DEF HookAdd
  <2> QED
    BY <1>2, <2>2
<1> QED
  BY <1>3, <1>4, <1>5, <1>6, <1>7 DEF HookStep

\* The hook of an undisturbed dispatch leaves exactly one state label.
LEMMA HookFits ==
  ASSUME IInv, HookStep, UNCHANGED verdict, Undisturbed, Clean'
  PROVE  Undisturbed'
<1>1. TroubleStep /\ OnlyHook /\ hook # "off" /\ (hook' # "off" => UNCHANGED stray) /\ UNCHANGED merged
  BY HookStepFacts DEF verdict
<1>2. pc = "waiting" /\ pc' = "waiting" /\ ~ stray
  BY <1>1 DEF Undisturbed, Alone, OnlyHook
<1>3. \/ hook \in {"classify", "lookup", "labels"} /\ States(labels) \subseteq {Blocked}
      \/ hook = "add" /\ States(labels) = {}
  BY <1>1, <1>2 DEF Undisturbed, RunFit
<1>4. \A t \in {"cherry", "lookup", "hooklabels", "hookedit"} : ~ Fails(t)
  BY Struck DEF Fails, Clean
<1>5. \/ hook' \in {"labels", "lookup"} /\ States(labels') \subseteq {Blocked}
      \/ hook' = "add" /\ States(labels') = {}
      \/ hook' = "off" /\ SingleState(labels') /\ ~ stray'
  <2>1. CASE HookClassify
    BY <1>3, <1>4, <2>1 DEF HookClassify, HookGoes
  <2>2. CASE HookLookup
    BY <1>3, <1>4, <2>2 DEF HookLookup, HookGoes
  <2>3. CASE HookLabels
    <3>1. States(labels) \subseteq {Blocked} /\ UNCHANGED labels
      BY <1>3, <2>3 DEF HookLabels
    <3>2. Ready \notin labels
      BY <3>1, LabelsDiffer DEF States, StateLabels
    <3>3. CASE Blocked \in labels
      <4>1. States(labels) = {Blocked}
        BY <3>1, <3>3 DEF States, StateLabels
      <4>2. SingleState(labels')
        BY <3>1, <4>1 DEF SingleState, States, StateLabels
      <4> QED
        BY <1>4, <2>3, <3>2, <3>3, <4>2 DEF HookLabels, HookReads, HookExits
    <3>4. CASE Blocked \notin labels
      <4>1. States(labels) = {}
        BY <3>1, <3>4 DEF States
      <4> QED
        BY <1>4, <2>3, <3>1, <3>2, <3>4, <4>1 DEF HookLabels, HookReads, HookGoes
    <3> QED
      BY <3>3, <3>4
  <2>4. CASE HookRemove
    BY <1>3, <2>4 DEF HookRemove
  <2>5. CASE HookAdd
    <3>1. hook = "add" /\ HookExits /\ labels' = Edit(labels, {Target(outcome)}, {})
      BY <1>4, <2>5 DEF HookAdd, LabelEdit
    <3>2. States(labels) = {} /\ Target(outcome) \in StateLabels
      BY <1>3, <3>1 DEF Target, StateLabels
    <3>3. labels' \cap StateLabels = {Target(outcome)}
      BY <3>1, <3>2 DEF States, Edit
    <3> QED
      BY <3>1, <3>2, <3>3 DEF SingleState, HookExits
  <2> QED
    BY <2>1, <2>2, <2>3, <2>4, <2>5 DEF HookStep
<1>6. Alone'
  BY <1>1, <1>2, <1>5 DEF Alone
<1>7. DaemonFit'
  BY <1>2 DEF DaemonFit
<1>8. RunFit'
  BY <1>2, <1>5 DEF RunFit
<1> QED
  BY <1>6, <1>7, <1>8 DEF Undisturbed

LEMMA HookInv == IInv /\ Hook => IInv'
<1> SUFFICES ASSUME IInv, Hook PROVE IInv'
  OBVIOUS
<1>1. HookStep /\ UNCHANGED <<gate, runVars, verdict, dispatches>>
  BY DEF Hook
<1>2. /\ TroubleStep /\ UNCHANGED <<issueOpen, prOpen, prHead, branch, wt, pc>> /\ HookTypeOK'
      /\ labels' \in SUBSET AllLabels /\ (Done \in labels' => prOpen \/ Excused)
      /\ outcome' = "pr-opened" => prOpen \/ Excused
      /\ hook # "off" /\ (hook' # "off" => UNCHANGED stray)
      /\ hook' = "off" => stray' = FALSE /\ outcome' = "none"
  BY <1>1, HookStepFacts DEF OnlyHook
<1>3. SharedTypeOK' /\ GateTypeOK' /\ RunTypeOK'
  <2>1. GateTypeOK' /\ RunTypeOK'
    BY <1>1 DEF IInv, Types, TypeOK, GateTypeOK, RunTypeOK, gate, runVars, run, world
  <2> QED
    BY <1>2, <2>1, TroublesAdd DEF IInv, Types, TypeOK, SharedTypeOK, branch
<1>4. GateOK' /\ PullRequestOK' /\ QuietOK' /\ ("push" \notin happened' => prHead' = pushed')
  <2>1. GateOK'
    BY <1>1, <1>2 DEF IInv, GateOK, NoSilentRef, gate
  <2>2. /\ (Quiet' => Quiet) /\ (Excused => Excused') /\ UNCHANGED merged
        /\ "closepr" \in happened => "closepr" \in happened'
    BY <1>1, <1>2, LateStays DEF verdict
  <2>3. PullRequestOK'
    BY <1>2, <2>2 DEF IInv, PullRequestOK, branch
  <2>4. QuietOK'
    <3>1. Quiet => ~ stray /\ pc = "waiting"
      BY <1>2 DEF IInv, QuietOK, Alone
    <3>2. Quiet => merged = 0
      BY <3>1 DEF IInv, CommitOK, RecordedPcs
    <3> QED
      BY <1>2, <2>2, <3>1, <3>2 DEF QuietOK, Alone
  <2> QED
    BY <1>2, <2>1, <2>3, <2>4, TroublesAdd DEF IInv, CommitOK, branch
<1>5. Clean' /\ Undisturbed => Undisturbed'
  BY <1>1, HookFits
<1> QED
  BY <1>1, <1>2, <1>3, <1>4, <1>5, OuterInv DEF branch

-----------------------------------------------------------------------------
(* Everybody else.                                                         *)

\* The part whose variables a step leaves alone keeps its types.
LEMMA TypesKept ==
  ASSUME IInv
  PROVE  /\ UNCHANGED gate => GateTypeOK'
         /\ UNCHANGED hookVars => HookTypeOK'
         /\ UNCHANGED <<run, mentioned>> /\ behind' \in BOOLEAN => RunTypeOK'
         /\ UNCHANGED runVars => RunTypeOK'
         /\ TroubleStep /\ UNCHANGED <<labels, issueOpen, prOpen, prHead, branch, wt>> => SharedTypeOK'
<1>1. SharedTypeOK /\ GateTypeOK /\ HookTypeOK /\ RunTypeOK
  BY DEF IInv, Types, TypeOK
<1>2. UNCHANGED gate => GateTypeOK'
  BY <1>1 DEF gate, GateTypeOK
<1>3. UNCHANGED hookVars => HookTypeOK'
  BY <1>1 DEF hookVars, HookTypeOK
<1>4. UNCHANGED <<run, mentioned>> /\ behind' \in BOOLEAN => RunTypeOK'
  BY <1>1 DEF run, RunTypeOK
<1>5. UNCHANGED runVars => RunTypeOK'
  BY <1>1 DEF runVars, run, world, RunTypeOK
<1>6. TroubleStep /\ UNCHANGED <<labels, issueOpen, prOpen, prHead, branch, wt>> => SharedTypeOK'
  BY <1>1, TroublesAdd DEF SharedTypeOK, branch
<1> QED
  BY <1>2, <1>3, <1>4, <1>5, <1>6

LEMMA CrashInv == IInv /\ Crash => IInv'
<1> SUFFICES ASSUME IInv, Crash PROVE IInv'
  OBVIOUS
<1>1. /\ Strikes("crash") /\ pc' = "idle" /\ Idle /\ RunEnds /\ failures' \in {saved, 0}
      /\ UNCHANGED <<github, branch, wt, gate, world, sha, merged, tested, dispatches, saved>>
      /\ UNCHANGED <<hook, outcome, lookups, seen>>
      /\ UNCHANGED stray \/ (stray' = TRUE /\ hook # "off")
  BY DEF Crash, Idle, Goto, Load, hookVars
<1>2. TroubleStep /\ ~ Clean'
  BY <1>1, Struck DEF Clean
<1>3. Types'
  <2>1. SharedTypeOK' /\ GateTypeOK'
    BY <1>1, <1>2, TypesKept DEF github
  <2>2. HookTypeOK'
    <3>1. HookTypeOK
      BY DEF IInv, Types, TypeOK
    <3>2. CASE UNCHANGED stray
      BY <1>1, <3>1, <3>2 DEF HookTypeOK
    <3>3. CASE stray' = TRUE /\ hook # "off"
      BY <1>1, <3>1, <3>3 DEF HookTypeOK
    <3> QED
      BY <1>1, <3>2, <3>3
  <2>3. RunTypeOK'
    <3>1. 0 \in 0..MaxTurns
      BY Constants
    <3> QED
      BY <1>1, <3>1 DEF IInv, Types, TypeOK, RunTypeOK, RunEnds, world
  <2>4. failures' \in 0..MaxFailures
    <3>1. 0 \in 0..MaxFailures /\ saved \in 0..MaxFailures
      BY Constants DEF IInv, Types, TypeOK
    <3> QED
      BY <1>1, <3>1
  <2> QED
    BY <1>1, <2>1, <2>2, <2>3, <2>4, NoEditLeft DEF IInv, Types, TypeOK, Pcs, BarePcs
<1>4. GateOK' /\ PullRequestOK' /\ QuietOK'
  <2>1. GateOK'
    BY <1>1 DEF IInv, GateOK, NoSilentRef, WorkerPcs
  <2>2. (Excused => Excused') /\ "crash" \in happened'
    BY <1>1, <1>2, LateStays, Struck
  <2>3. PullRequestOK'
    BY <1>1, <2>2 DEF IInv, PullRequestOK, TestedPcs, github, branch
  <2>4. QuietOK'
    BY <1>1, <2>2 DEF IInv, QuietOK, Quiet, Late
  <2> QED
    BY <2>1, <2>3, <2>4
<1>5. CommitOK' /\ EditOK'
  <2>1. EditOK'
    BY <1>1, NoEditLeft
  <2> QED
    BY <1>1, <1>2, <2>1, TroublesAdd DEF IInv, CommitOK, github, branch, TestedPcs, MergedPcs, RecordedPcs
<1> QED
  BY <1>2, <1>3, <1>4, <1>5, TroublesAdd DEF IInv

\* What the labels, the hook and the pull request say stays true while none of them moves.
LEMMA NothingSaid ==
  ASSUME IInv, TroubleStep, UNCHANGED <<labels, prOpen, prHead, branch, pc, merged>>,
         UNCHANGED <<hook, stray, outcome>> \/ (hook' = "off" /\ stray' = FALSE /\ outcome' = "none")
  PROVE  PullRequestOK' /\ QuietOK' /\ ("push" \notin happened' => prHead' = pushed')
<1>1. /\ (Quiet' => Quiet) /\ (Excused => Excused')
      /\ "closepr" \in happened => "closepr" \in happened'
  BY LateStays
<1>2. PullRequestOK'
  BY <1>1 DEF IInv, PullRequestOK, branch
<1>3. QuietOK'
  BY <1>1 DEF IInv, QuietOK, Alone
<1>4. "push" \notin happened' => prHead' = pushed'
  BY TroublesAdd DEF IInv, CommitOK, branch
<1> QED
  BY <1>2, <1>3, <1>4

LEMMA FeatureMovesInv == IInv /\ FeatureMoves => IInv'
<1> SUFFICES ASSUME IInv, FeatureMoves PROVE IInv'
  OBVIOUS
<1>1. /\ behind' = TRUE /\ UNCHANGED <<gate, hookVars, run, mentioned, verdict, dispatches>>
      /\ UNCHANGED <<labels, issueOpen, prOpen, prHead, branch, wt, pc, trouble>>
  BY DEF FeatureMoves, shared, github
<1>2. TroubleStep
  BY <1>1 DEF TroubleStep, Succeeds
<1>3. SharedTypeOK' /\ GateTypeOK' /\ HookTypeOK' /\ RunTypeOK'
  BY <1>1, <1>2, TypesKept
<1>4. GateOK' /\ PullRequestOK' /\ QuietOK' /\ ("push" \notin happened' => prHead' = pushed')
  <2>1. GateOK'
    BY <1>1 DEF IInv, GateOK, NoSilentRef, gate
  <2> QED
    BY <1>1, <1>2, <2>1, NothingSaid DEF hookVars, verdict
<1>5. Undisturbed => Undisturbed'
  BY <1>1, <1>2, StillFit DEF hookVars, verdict
<1> QED
  BY <1>1, <1>2, <1>3, <1>4, <1>5, OuterInv DEF branch

\* Nothing that the invariant speaks of knows of other pull requests.
LEMMA MentionInv == IInv /\ Mention => IInv'
<1> SUFFICES ASSUME IInv, Mention PROVE IInv'
  OBVIOUS
<1>1. /\ Strikes("mention") /\ mentioned' = TRUE
      /\ UNCHANGED <<gate, hookVars, run, behind, verdict, dispatches>>
      /\ UNCHANGED <<labels, issueOpen, prOpen, prHead, branch, wt, pc>>
  BY DEF Mention, github
<1>2. TroubleStep
  BY <1>1, Struck
<1>3. SharedTypeOK' /\ GateTypeOK' /\ HookTypeOK' /\ RunTypeOK'
  <2>1. RunTypeOK'
    BY <1>1 DEF IInv, Types, TypeOK, RunTypeOK, run
  <2> QED
    BY <1>1, <1>2, <2>1, TypesKept
<1>4. GateOK' /\ PullRequestOK' /\ QuietOK' /\ ("push" \notin happened' => prHead' = pushed')
  <2>1. GateOK'
    BY <1>1 DEF IInv, GateOK, NoSilentRef, gate
  <2> QED
    BY <1>1, <1>2, <2>1, NothingSaid DEF hookVars, verdict
<1>5. Clean' /\ Undisturbed => Undisturbed'
  BY <1>1, <1>2, StillFit DEF hookVars, verdict
<1> QED
  BY <1>1, <1>2, <1>3, <1>4, <1>5, OuterInv DEF branch

LEMMA HumanInv == IInv /\ Human => IInv'
<1> SUFFICES ASSUME IInv, Human PROVE IInv'
  OBVIOUS
<1>1. UNCHANGED <<head, pushed, wt, pc, gate, hookVars, runVars, verdict, dispatches>>
  BY DEF Human
<1>2. /\ TroubleStep /\ labels' \in SUBSET AllLabels /\ (Done \in labels' => Done \in labels)
      /\ UNCHANGED labels \/ ~ Clean'
  <2>1. CASE Strikes("requeue") /\ labels' = Edit(labels, {Ready}, Excluded)
    BY <2>1, Struck, EditTypes, TypesOf, LabelNames, LabelsDiffer DEF Clean, Edit
  <2>2. CASE Strikes("block") /\ labels' = labels \cup {Blocked}
    BY <2>2, Struck, TypesOf, LabelNames, LabelsDiffer DEF Clean
  <2>3. CASE (Strikes("push") \/ Strikes("close") \/ Strikes("closepr")) /\ UNCHANGED labels
    BY <2>3, Struck, TypesOf
  <2> QED
    BY <2>1, <2>2, <2>3 DEF Human
<1>3. /\ issueOpen' \in BOOLEAN /\ prHead' \in Commits /\ newest' \in Commits
      /\ "push" \notin happened' => UNCHANGED prHead
  <2>1. issueOpen \in BOOLEAN /\ prHead \in 0..MaxCommits /\ newest \in 0..MaxCommits
    BY DEF IInv, Types, TypeOK, SharedTypeOK, Commits
  <2>2. CASE Strikes("push") /\ newest < MaxCommits /\ newest' = newest + 1 /\ prHead' = newest + 1
             /\ UNCHANGED issueOpen
    BY <2>1, <2>2, Constants, Struck DEF Commits
  <2>3. CASE UNCHANGED <<prHead, newest>> /\ issueOpen' \in {issueOpen, FALSE}
    BY <2>1, <2>3 DEF Commits
  <2> QED
    BY <2>2, <2>3 DEF Human
<1>4. UNCHANGED prOpen \/ (prOpen' = FALSE /\ "closepr" \in happened')
  BY Struck DEF Human
<1>7. SharedTypeOK' /\ GateTypeOK' /\ HookTypeOK' /\ RunTypeOK'
  <2>1. GateTypeOK' /\ HookTypeOK' /\ RunTypeOK'
    BY <1>1, TypesKept
  <2> QED
    BY <1>1, <1>2, <1>3, <1>4, <2>1, TroublesAdd DEF IInv, Types, TypeOK, SharedTypeOK
<1>5. GateOK' /\ PullRequestOK' /\ QuietOK' /\ ("push" \notin happened' => prHead' = pushed')
  <2>1. GateOK'
    BY <1>1 DEF IInv, GateOK, NoSilentRef, gate
  <2>2. UNCHANGED <<merged, hook, stray, outcome, pc, head, pushed>>
    BY <1>1 DEF hookVars, verdict
  <2>3. PullRequestOK'
    <3>1. /\ (Excused => Excused') /\ ("closepr" \in happened => "closepr" \in happened')
          /\ "closepr" \in happened' => Excused'
      BY <1>2, <2>2, LateStays DEF Excused
    <3> QED
      BY <1>2, <1>4, <2>2, <3>1 DEF IInv, PullRequestOK
  <2>4. QuietOK'
    BY <1>2, <2>2, OuterQuiet
  <2> QED
    BY <1>2, <1>3, <2>1, <2>2, <2>3, <2>4, TroublesAdd DEF IInv, CommitOK
<1>6. Clean' /\ Undisturbed => Undisturbed'
  BY <1>1, <1>2, StillFit DEF hookVars, verdict
<1> QED
  BY <1>1, <1>2, <1>5, <1>6, <1>7, OuterInv

\* The pull request of a merged issue is closed while nothing speaks of it, or late.
LEMMA PublishInv == IInv /\ Publish => IInv'
<1> SUFFICES ASSUME IInv, Publish PROVE IInv'
  OBVIOUS
<1>1. /\ pc = "idle" /\ merged # 0 /\ prOpen' = FALSE
      /\ UNCHANGED <<labels, issueOpen, prHead, branch, wt, pc, trouble, gate, hookVars, runVars>>
      /\ UNCHANGED <<verdict, dispatches>>
  BY DEF Publish
<1>2. TroubleStep
  BY <1>1 DEF TroubleStep, Succeeds
<1>3. SharedTypeOK' /\ GateTypeOK' /\ HookTypeOK' /\ RunTypeOK'
  <2>1. GateTypeOK' /\ HookTypeOK' /\ RunTypeOK'
    BY <1>1, TypesKept
  <2> QED
    BY <1>1, <1>2, <2>1, TroublesAdd DEF IInv, Types, TypeOK, SharedTypeOK, branch
<1>4. UNCHANGED <<merged, hook, stray, outcome, head, pushed, happened>>
  BY <1>1 DEF hookVars, verdict, branch, trouble
<1>5. PullRequestOK'
  <2>1. Quiet => Done \notin labels /\ outcome # "pr-opened"
    BY <1>1 DEF IInv, QuietOK, Alone
  <2>2. ~ Quiet => Excused'
    BY <1>1, <1>4 DEF Quiet, Excused
  <2> QED
    BY <1>1, <1>4, <2>1, <2>2 DEF IInv, PullRequestOK, TestedPcs
<1>6. GateOK' /\ QuietOK' /\ ("push" \notin happened' => prHead' = pushed')
  <2>1. GateOK'
    BY <1>1 DEF IInv, GateOK, NoSilentRef, gate
  <2>2. QuietOK'
    BY <1>1, <1>2, <1>4, OuterQuiet
  <2> QED
    BY <1>1, <1>4, <2>1, <2>2 DEF IInv, CommitOK
<1>7. Undisturbed => Undisturbed'
  BY <1>1, <1>2, StillFit DEF hookVars, verdict
<1> QED
  BY <1>1, <1>2, <1>3, <1>4, <1>5, <1>6, <1>7, OuterInv

LEMMA ProbeLandsInv == IInv /\ ProbeLands /\ UNCHANGED <<hookVars, runVars, verdict, dispatches>> => IInv'
<1> SUFFICES ASSUME IInv, ProbeLands, UNCHANGED <<hookVars, runVars, verdict, dispatches>> PROVE IInv'
  OBVIOUS
<1>1. /\ ref' = IF pc = "cleanup" THEN "on origin" ELSE "late"
      /\ UNCHANGED <<gitRoot, protected, reply, reported>>
      /\ UNCHANGED <<labels, issueOpen, prOpen, prHead, branch, wt, pc, trouble>>
  BY DEF ProbeLands, shared, github
<1>2. TroubleStep
  BY <1>1 DEF TroubleStep, Succeeds
<1>3. SharedTypeOK' /\ GateTypeOK' /\ HookTypeOK' /\ RunTypeOK'
  <2>1. GateTypeOK'
    BY <1>1 DEF IInv, Types, TypeOK, GateTypeOK
  <2> QED
    BY <1>1, <1>2, <2>1, TypesKept
<1>4. GateOK' /\ PullRequestOK' /\ QuietOK' /\ ("push" \notin happened' => prHead' = pushed')
  <2>1. GateOK'
    BY <1>1 DEF IInv, GateOK, NoSilentRef, gate
  <2> QED
    BY <1>1, <1>2, <2>1, NothingSaid DEF hookVars, verdict
<1>5. Undisturbed => Undisturbed'
  BY <1>1, <1>2, StillFit DEF hookVars, verdict
<1> QED
  BY <1>1, <1>2, <1>3, <1>4, <1>5, OuterInv DEF branch

LEMMA StrayEndsInv == IInv /\ StrayEnds /\ UNCHANGED <<gate, runVars, verdict, dispatches>> => IInv'
<1> SUFFICES ASSUME IInv, StrayEnds, UNCHANGED <<gate, runVars, verdict, dispatches>> PROVE IInv'
  OBVIOUS
<1>1. /\ stray /\ hook' = "off" /\ stray' = FALSE /\ outcome' = "none" /\ lookups' = 0 /\ seen' = {}
      /\ UNCHANGED <<labels, issueOpen, prOpen, prHead, branch, wt, pc, trouble>>
  BY DEF StrayEnds, HookExits, shared, github
<1>2. TroubleStep
  BY <1>1 DEF TroubleStep, Succeeds
<1>3. SharedTypeOK' /\ GateTypeOK' /\ HookTypeOK' /\ RunTypeOK'
  <2>1. HookTypeOK'
    <3>1. lookups' \in 0..(MaxLookups - 1)
      BY <1>1, Constants
    <3> QED
      BY <1>1, <3>1 DEF HookTypeOK, Outcomes
  <2> QED
    BY <1>1, <1>2, <2>1, TypesKept
<1>4. GateOK' /\ PullRequestOK' /\ QuietOK' /\ ("push" \notin happened' => prHead' = pushed')
  <2>1. GateOK'
    BY <1>1 DEF IInv, GateOK, NoSilentRef, gate
  <2> QED
    BY <1>1, <1>2, <2>1, NothingSaid DEF hookVars, verdict
<1>5. ~ Undisturbed
  BY <1>1 DEF Undisturbed, Alone
<1> QED
  BY <1>1, <1>2, <1>3, <1>4, <1>5, OuterInv DEF branch

-----------------------------------------------------------------------------
LEMMA InitInv == Init => IInv
<1> SUFFICES ASSUME Init PROVE IInv
  OBVIOUS
<1>1. TypeOK
  <2>1. /\ 0 \in 0..MaxTurns /\ 0 \in 0..(MaxLookups - 1) /\ 0 \in 0..MaxCommits /\ 0 \in 0..MaxTroubles
        /\ 0 \in 0..MaxFailures /\ 0 \in 0..MaxDispatches
    BY Constants
  <2>2. SharedTypeOK
    BY <2>1, LabelNames DEF Init, SharedTypeOK, NoWorktree, Worktrees, Commits
  <2>3. GateTypeOK /\ HookTypeOK /\ RunTypeOK
    BY <2>1 DEF Init, GateInit, HookInit, RunInit, GateTypeOK, HookTypeOK, RunTypeOK, Replies, Outcomes
  <2> QED
    BY <2>1, <2>2, <2>3 DEF Init, TypeOK, NoEdit, Commits
<1>2. Types /\ GateOK /\ CommitOK /\ EditOK /\ Counted
  BY <1>1 DEF Init, Types, Pcs, BarePcs, GateOK, NoSilentRef, CommitOK, EditOK, NoEdit, Counted,
     WorkerPcs, TestedPcs, MergedPcs
<1>3. PullRequestOK /\ QuietOK
  BY LabelsDiffer DEF Init, HookInit, PullRequestOK, QuietOK, Alone, TestedPcs
<1>4. Undisturbed
  <2>1. Settled(labels)
    BY LabelsDiffer DEF Init, Settled, SingleState, StateLabels
  <2> QED
    BY <2>1 DEF Init, HookInit, Undisturbed, Alone, DaemonFit, RunFit, WorkerPcs
<1> QED
  BY <1>2, <1>3, <1>4 DEF IInv

LEMMA NextInv == IInv /\ [Next]_vars => IInv'
<1> SUFFICES ASSUME IInv, [Next]_vars PROVE IInv'
  OBVIOUS
<1>1. CASE Daemon
  BY <1>1, SelectInv, ClearOrphanInv, PreDispatchInv, ClaimInv, FetchInv, OutcomeInv, ConvergeInv,
     FindPRInv, GateInv, PersistInv, MarkMergedInv, ResetInv, ParkDecideInv, CountInv, ParkEditInv,
     ParkVerifyInv, GateStepInv, RunStepInv, HookCallInv DEF Daemon, GateFrame, RunFrame, HookCallFrame
<1>2. CASE Hook
  BY <1>2, HookInv
<1>3. CASE Environment
  BY <1>3, CrashInv, FeatureMovesInv, MentionInv, PublishInv, HumanInv, ProbeLandsInv, StrayEndsInv
     DEF Environment
<1>4. CASE UNCHANGED vars
  <2>1. /\ UNCHANGED <<labels, issueOpen, prOpen, prHead, branch, wt, pc, trouble>>
        /\ UNCHANGED <<gate, hookVars, runVars, verdict, dispatches>>
    BY <1>4 DEF vars, shared, github
  <2>2. TroubleStep
    BY <2>1 DEF TroubleStep, Succeeds
  <2>3. GateOK' /\ PullRequestOK' /\ QuietOK' /\ ("push" \notin happened' => prHead' = pushed')
    <3>1. GateOK'
      BY <2>1 DEF IInv, GateOK, NoSilentRef, gate
    <3> QED
      BY <2>1, <2>2, <3>1, NothingSaid DEF hookVars, verdict
  <2>4. Undisturbed => Undisturbed'
    BY <2>1, <2>2, StillFit DEF hookVars, verdict
  <2> QED
    BY <2>1, <2>2, <2>3, <2>4, TypesKept, OuterInv DEF branch
<1> QED
  BY <1>1, <1>2, <1>3, <1>4 DEF Next

-----------------------------------------------------------------------------
(* The theorems.                                                           *)

\* The contract's stage at each place of the dispatch.
LEMMA StageNames ==
  /\ StageOf("idle") = "idle" /\ StageOf("refuse") = "refused"
  /\ \A p \in {"clear", "predispatch", "claim"} : StageOf(p) = "claiming"
  /\ \A p \in {"fetch", "preflight", "probe", "cleanup"} : StageOf(p) = "claimed"
  /\ \A p \in WorkerPcs : StageOf(p) = "worker"
  /\ \A p \in {"pr_created", "no_pr"} : StageOf(p) = "judging"
  /\ StageOf("find") = "finding" /\ StageOf("refind") = "refinding" /\ StageOf("regate") = "retesting"
  /\ \A p \in {"converge", "gate"} : StageOf(p) = "testing"
  /\ \A p \in {"persist", "merged", "reset"} : StageOf(p) = "recording"
  /\ \A p \in {"intact", "uncharged", "unknown", "parkedit", "verify"} : StageOf(p) = "parking"
  /\ \A p \in {"charged", "count"} : StageOf(p) = "charging"
BY DEF StageOf, WorkerPcs

\* Every step of the daemon, the worker, the hook and the humans keeps the
\* invariant.
THEOREM Inductive == Spec => []IInv
<1>1. Init => IInv
  BY InitInv
<1>2. IInv /\ [Next]_vars => IInv'
  BY NextInv
<1> QED
  BY <1>1, <1>2, PTL DEF Spec

\* The state of the dispatch and of its parts keeps its types.
THEOREM TypeCorrect == Spec => []TypeOK
<1>1. IInv => TypeOK
  BY DEF IInv, Types
<1> QED
  BY <1>1, Inductive, PTL

\* No worker runs before the remote has denied its push (launch_gate.py, with
\* the probe of push_probe.py): whatever the probe, its cleanup, the hook and
\* the humans do, and in whichever order.
THEOREM LaunchesAreProven == Spec => []LaunchIsProven
<1>1. IInv => LaunchIsProven
  <2> SUFFICES ASSUME IInv, Stage = "worker" PROVE gitRoot /\ protected
    BY DEF LaunchIsProven
  <2>1. pc \in Pcs
    BY DEF IInv, Types
  <2>2. pc \in WorkerPcs
    BY <2>1, StageNames DEF Stage, WorkerPcs, Pcs, BarePcs, TestedPcs, MergedPcs
  <2> QED
    BY <2>2 DEF IInv, GateOK
<1> QED
  BY <1>1, Inductive, PTL

\* A probe's ref that is on the remote when its probe is over has been named to
\* the operators (push_probe.py, _attempt_probe_ref_cleanup).
THEOREM LeftoversAreReported == Spec => []NoSilentRef
<1>1. IInv => NoSilentRef
  BY DEF IInv, GateOK
<1> QED
  BY <1>1, Inductive, PTL

\* agent-done is on an issue only while its pull request is open, whichever of the hook, a
\* stray hook, the convergence and the park wrote the label (after_run.py, work_unit.py,
\* park.py), until a human closes the pull request; on a merged issue, whose pull request
\* the push of the feature branch closes, it is left only by a crash, by a label edit that
\* GitHub refused or by a hook that outlived its timeout.
THEOREM DoneMeansPR == Spec => []DoneHasPR
<1>1. IInv => DoneHasPR
  BY DEF IInv, PullRequestOK, Excused, DoneHasPR
<1> QED
  BY <1>1, Inductive, PTL

\* The merged commit is the one CI was green for, if it is what the worker
\* pushed last and nobody else pushed to the issue's branch (work_unit.py reads
\* the head of the pull request, and merges the local branch).
THEOREM WhatIsPushedIsTested == Spec => []PushedIsTested
<1>1. IInv => PushedIsTested
  BY DEF IInv, CommitOK, PushedIsTested
<1> QED
  BY <1>1, Inductive, PTL

\* An undisturbed dispatch that does not end in a merge leaves the issue in
\* exactly one state (labels.py, park.py, after_run.py together).
THEOREM RestingState == Spec => []RestsInOneState
<1>1. IInv => RestsInOneState
  BY DEF IInv, Undisturbed, DaemonFit, Settled, RestsInOneState
<1> QED
  BY <1>1, Inductive, PTL

-----------------------------------------------------------------------------
(* The contract: each call of the dispatch is a step of IssueContract, or  *)
(* none.                                                                   *)

Kept == Contract!Next \/ UNCHANGED Contract!vars

HooksSeen == UNCHANGED (hook # "off") /\ UNCHANGED (outcome = "pr-opened")
BranchSeen == UNCHANGED (merged # 0)

\* The contract speaks of the same labels and the same edit.
LEMMA ContractLabels ==
  /\ Contract!Ready = Ready /\ Contract!Done = Done /\ Contract!Blocked = Blocked /\ Contract!Failed = Failed
  /\ Contract!Progress = Progress /\ Contract!Merged = Merged /\ Contract!StateLabels = StateLabels
  /\ Contract!Excluded = Excluded
  /\ \A L, add, remove : Contract!Edit(L, add, remove) = Edit(L, add, remove)
BY DEF Contract!Ready, Contract!Done, Contract!Blocked, Contract!Failed, Contract!Progress,
       Contract!Merged, Contract!StateLabels, Contract!Excluded, Contract!Edit,
       Ready, Done, Blocked, Failed, Progress, Merged, StateLabels, Excluded, Edit

\* The stage is a function of the daemon's place alone.
LEMMA StageOfPc == Stage = StageOf(pc) /\ Stage' = StageOf(pc')
BY DEF Stage

\* What the contract sees of the daemon's own steps, of the hook and of the branch.
LEMMA OwnSeen ==
  ASSUME DaemonOnly
  PROVE  UNCHANGED prOpen /\ HooksSeen
BY DEF DaemonOnly, HooksSeen, hookVars

LEMMA CountsKept ==
  ASSUME UNCHANGED <<failures, saved>>
  PROVE  Contract!KeepsCount
BY DEF Contract!KeepsCount

LEMMA SelectKept == IInv /\ Select => Kept
<1> SUFFICES ASSUME IInv, Select PROVE Kept
  OBVIOUS
<1>1. /\ pc = "idle" /\ DaemonOnly /\ UNCHANGED <<labels, failures, saved>> /\ BranchSeen
      /\ merged # 0 => pc' = "refind" /\ Merged \notin labels
      /\ merged = 0 =>
           \/ pc' = "intact" /\ Blocked \in labels
           \/ pc' = "refind" /\ Blocked \notin labels /\ Done \in labels /\ prOpen
           \/ pc' \in {"clear", "predispatch"}
  BY DEF Select, Goto, verdict, BranchSeen
<1>2. Stage = "idle" /\ Stage' = IF pc' = "intact" THEN "parking"
                              ELSE IF pc' = "refind" THEN "refinding" ELSE "claiming"
  BY <1>1, StageNames, StageOfPc
<1>3. Contract!Take
  BY <1>1, <1>2, OwnSeen, CountsKept, ContractLabels
     DEF Contract!Take, Contract!Moves, Contract!Keeps, Contract!Hooks, BranchSeen, HooksSeen
<1> QED
  BY <1>3 DEF Kept, Contract!Next

\* The steps from the claim to the launch.
LEMMA ClaimingKept == IInv /\ (ClearOrphan \/ PreDispatch \/ Claim) => Kept
<1> SUFFICES ASSUME IInv, ClearOrphan \/ PreDispatch \/ Claim PROVE Kept
  OBVIOUS
<1>1. /\ pc \in {"clear", "predispatch", "claim"} /\ pc' \in {"predispatch", "intact", "uncharged", "claim", "fetch"}
      /\ DaemonOnly /\ UNCHANGED <<failures, saved>> /\ BranchSeen
  BY DEF ClearOrphan, PreDispatch, Claim, Goto, verdict, BranchSeen
<1>2. labels' \in {labels, labels \ {Progress}, Edit(labels, {Progress}, {Ready})}
  BY DEF ClearOrphan, PreDispatch, Claim, LabelEdit, Edit
<1>3. Stage = "claiming" /\ Stage' \in {"claiming", "claimed", "parking"}
  BY <1>1, StageNames, StageOfPc
<1>4. Contract!Claiming
  BY <1>1, <1>2, <1>3, OwnSeen, CountsKept, ContractLabels
     DEF Contract!Claiming, Contract!Moves, Contract!Keeps, Contract!Hooks, BranchSeen, HooksSeen
<1> QED
  BY <1>4 DEF Kept, Contract!Next

LEMMA FetchKept == IInv /\ Fetch => Kept
<1> SUFFICES ASSUME IInv, Fetch PROVE Kept
  OBVIOUS
<1>1. /\ pc = "fetch" /\ pc' \in {"preflight", "uncharged"} /\ DaemonOnly
      /\ UNCHANGED <<labels, failures, saved>> /\ BranchSeen
  BY DEF Fetch, Goto, verdict, BranchSeen
<1>2. Stage = "claimed" /\ Stage' \in {"claimed", "parking"}
  BY <1>1, StageNames, StageOfPc
<1>3. Contract!Launch
  BY <1>1, <1>2, OwnSeen, CountsKept
     DEF Contract!Launch, Contract!Moves, Contract!Keeps, Contract!Hooks, BranchSeen, HooksSeen
<1> QED
  BY <1>3 DEF Kept, Contract!Next

LEMMA GateStepKept == IInv /\ GateStep /\ GateFrame => Kept
<1> SUFFICES ASSUME IInv, GateStep, GateFrame PROVE Kept
  OBVIOUS
<1>1. UNCHANGED prOpen /\ HooksSeen /\ BranchSeen /\ UNCHANGED <<failures, saved>>
  BY GateStepFacts DEF GateFrame, hookVars, verdict, HooksSeen, BranchSeen
<1>2. CASE Refuse
  <2>1. /\ pc = "refuse" /\ pc' = "intact" /\ labels' \in {labels, Edit(labels, {Ready}, {Progress})}
    BY <1>2 DEF Refuse, Goto, LabelEdit
  <2>2. Stage = "refused" /\ Stage' = "parking"
    BY <2>1, StageNames, StageOfPc
  <2>3. Contract!Refuse
    BY <1>1, <2>1, <2>2, CountsKept, ContractLabels
       DEF Contract!Refuse, Contract!Moves, Contract!Keeps, Contract!Hooks, BranchSeen, HooksSeen
  <2> QED
    BY <2>3 DEF Kept, Contract!Next
<1>3. CASE ~ Refuse
  <2>1. /\ pc \in {"preflight", "probe", "cleanup"} /\ pc' \in {"probe", "cleanup", "refuse", "worktree"}
        /\ UNCHANGED labels
    BY <1>3 DEF GateStep, Preflight, Probe, CleanupAccepted, CleanupUnsure, Goto, github
  <2>2. Stage = "claimed" /\ Stage' \in {"claimed", "worker", "refused"}
    BY <2>1, StageNames, StageOfPc DEF WorkerPcs
  <2>3. Contract!Launch
    BY <1>1, <2>1, <2>2, CountsKept
       DEF Contract!Launch, Contract!Moves, Contract!Keeps, Contract!Hooks, BranchSeen, HooksSeen
  <2> QED
    BY <2>3 DEF Kept, Contract!Next
<1> QED
  BY <1>2, <1>3

LEMMA RunStepKept == IInv /\ RunStep /\ RunFrame => Kept
<1> SUFFICES ASSUME IInv, RunStep, RunFrame PROVE Kept
  OBVIOUS
<1>1. HooksSeen /\ BranchSeen /\ UNCHANGED <<failures, saved>>
  BY DEF RunFrame, hookVars, verdict, HooksSeen, BranchSeen
<1>2. RunMoves /\ labels' \in {labels, labels \cup {Blocked}} /\ (prOpen => prOpen')
  <2>1. CASE Turn
    BY <2>1, TurnFacts
  <2>2. CASE Rebase
    BY <2>2, RebaseFacts DEF github
  <2>3. CASE ~ Turn /\ ~ Rebase
    BY <2>3, RunStepFacts DEF github
  <2> QED
    BY <2>1, <2>2, <2>3
<1>3. Stage = "worker" /\ Stage' \in {"worker", "judging", "charging"}
  BY <1>2, StageNames, StageOfPc DEF RunMoves, RunPcs, WorkerPcs
<1>4. Contract!Work
  BY <1>1, <1>2, <1>3, CountsKept, ContractLabels DEF Contract!Work, Contract!Moves, HooksSeen, BranchSeen
<1> QED
  BY <1>4 DEF Kept, Contract!Next

LEMMA HookCallKept == IInv /\ HookCall /\ HookCallFrame => Kept
<1> SUFFICES ASSUME IInv, HookCall, HookCallFrame PROVE Kept
  OBVIOUS
<1>1. /\ pc \in {"after", "waiting"} /\ pc' \in {"waiting", "charged", "pr_created", "postprobe"}
      /\ UNCHANGED <<labels, prOpen>> /\ UNCHANGED <<failures, saved>>
  BY HookCallFacts DEF HookCallFrame, verdict, github
<1>2. (hook # "off" => hook' # "off") /\ UNCHANGED (outcome = "pr-opened") /\ BranchSeen
  BY HookCallFacts DEF HookCall, After, HookReturns, hookVars, HookCallFrame, verdict, BranchSeen
<1>3. Stage = "worker" /\ Stage' \in {"worker", "judging", "charging"}
  BY <1>1, StageNames, StageOfPc DEF WorkerPcs
<1>4. Contract!Work
  BY <1>1, <1>2, <1>3, CountsKept DEF Contract!Work, Contract!Moves, BranchSeen
<1> QED
  BY <1>4 DEF Kept, Contract!Next

LEMMA OutcomeKept == IInv /\ Outcome => Kept
<1> SUFFICES ASSUME IInv, Outcome PROVE Kept
  OBVIOUS
<1>1. /\ pc \in {"pr_created", "no_pr"} /\ DaemonOnly /\ UNCHANGED <<labels, failures, saved>> /\ BranchSeen
      /\ pc' \in {"unknown", "intact", "find", "charged", "converge"}
      /\ pc' = "find" => SingleState(labels) /\ Blocked \notin labels
      /\ pc' = "converge" => labels \cap StateLabels = {} /\ prOpen
  BY DEF Outcome, Goto, BranchSeen
<1>2. pc' \in {"find", "converge"} => labels \cap StateLabels \subseteq {Done, Ready, Failed}
  BY <1>1 DEF StateLabels
<1>3. /\ Stage = "judging" /\ Stage' \in {"finding", "testing", "charging", "parking"}
      /\ Stage' = "finding" => pc' = "find"
      /\ Stage' = "testing" => pc' = "converge"
  BY <1>1, StageNames, StageOfPc
<1>4. Contract!Judge
  BY <1>1, <1>2, <1>3, OwnSeen, CountsKept, ContractLabels
     DEF Contract!Judge, Contract!Moves, Contract!Keeps, Contract!Hooks, BranchSeen, HooksSeen
<1> QED
  BY <1>4 DEF Kept, Contract!Next

LEMMA FindKept == IInv /\ FindPR => Kept
<1> SUFFICES ASSUME IInv, FindPR PROVE Kept
  OBVIOUS
<1>1. /\ DaemonOnly /\ UNCHANGED <<labels, failures, saved>> /\ BranchSeen
      /\ \/ pc = "find" /\ pc' \in {"gate", "charged"}
         \/ pc = "refind" /\ pc' \in {"regate", "uncharged"}
      /\ pc' \in {"gate", "regate"} => prOpen
  BY DEF FindPR, Goto, BranchSeen
<1>2. /\ \/ Stage = "finding" /\ Stage' \in {"testing", "charging"}
         \/ Stage = "refinding" /\ Stage' \in {"retesting", "parking"}
      /\ Stage' \in {"testing", "retesting"} => prOpen
  BY <1>1, StageNames, StageOfPc
<1>3. Contract!Find
  BY <1>1, <1>2, OwnSeen, CountsKept
     DEF Contract!Find, Contract!Moves, Contract!Keeps, Contract!Hooks, BranchSeen, HooksSeen
<1> QED
  BY <1>3 DEF Kept, Contract!Next

LEMMA TestKept == IInv /\ (Converge \/ Gate) => Kept
<1> SUFFICES ASSUME IInv, Converge \/ Gate PROVE Kept
  OBVIOUS
<1>1. DaemonOnly /\ UNCHANGED <<failures, saved>>
  BY DEF Converge, Gate, verdict
<1>2. \/ /\ pc = "converge" /\ pc' = "gate" /\ labels' \in {labels, Edit(labels, {Done}, {Progress})}
         /\ merged' = merged
      \/ /\ pc \in {"gate", "regate"} /\ UNCHANGED labels
         /\ \/ pc' = "persist" /\ merged' = head
            \/ pc' \in {"intact", "uncharged"} /\ merged' = merged
  BY DEF Converge, Gate, Goto, LabelEdit, TargetState, verdict
<1>3. pc \in {"gate", "regate"} => head # 0
  BY TypesOf DEF TestedPcs
<1>4. \/ /\ Stage = "testing" /\ Stage' \in {"testing", "recording", "parking"}
         /\ labels' = labels \/ (Stage' = "testing" /\ labels' = Edit(labels, {Done}, {Progress}))
      \/ Stage = "retesting" /\ Stage' \in {"recording", "parking"} /\ labels' = labels
  BY <1>2, StageNames, StageOfPc
<1>5. (merged' # 0) = (merged # 0 \/ Stage' = "recording")
  <2>1. Stage' = "recording" <=> pc' = "persist"
    BY <1>2, StageNames, StageOfPc
  <2> QED
    BY <1>2, <1>3, <2>1
<1>6. Contract!Test
  BY <1>1, <1>4, <1>5, OwnSeen, CountsKept, ContractLabels
     DEF Contract!Test, Contract!Moves, Contract!Hooks, HooksSeen
<1> QED
  BY <1>6 DEF Kept, Contract!Next

LEMMA RecordKept == IInv /\ (Persist \/ MarkMerged \/ Reset) => Kept
<1> SUFFICES ASSUME IInv, Persist \/ MarkMerged \/ Reset PROVE Kept
  OBVIOUS
<1>1. DaemonOnly /\ BranchSeen
  BY DEF Persist, MarkMerged, Reset, verdict, BranchSeen
<1>2. CASE Persist \/ MarkMerged
  <2>1. /\ pc \in {"persist", "merged"} /\ pc' \in {"merged", "reset"} /\ UNCHANGED <<failures, saved>>
        /\ labels' \in {labels, labels \cup {Merged}, labels \ {Progress, Done}}
    <3>1. CASE Persist
      BY <3>1 DEF Persist, LabelEdit, Edit, Goto, verdict
    <3>2. CASE MarkMerged
      BY <3>2 DEF MarkMerged, LabelEdit, Edit, Goto, KeepCount
    <3> QED
      BY <1>2, <3>1, <3>2
  <2>2. Stage = "recording" /\ Stage' = "recording"
    BY <2>1, StageNames, StageOfPc
  <2>3. Contract!Record
    BY <1>1, <2>1, <2>2, OwnSeen, CountsKept, ContractLabels
       DEF Contract!Record, Contract!Moves, Contract!Hooks, BranchSeen, HooksSeen
  <2> QED
    BY <2>3 DEF Kept, Contract!Next
<1>3. CASE Reset
  <2>1. /\ pc = "reset" /\ pc' = "idle" /\ failures' = 0 /\ saved' \in {saved, 0} /\ UNCHANGED labels
    BY <1>3 DEF Reset, Idle, Goto, Persisted
  <2>2. Stage = "recording" /\ Stage' = "idle"
    BY <2>1, StageNames, StageOfPc
  <2>3. Contract!Record
    BY <1>1, <2>1, <2>2, OwnSeen
       DEF Contract!Record, Contract!Moves, Contract!Counts, Contract!Hooks, BranchSeen, HooksSeen
  <2> QED
    BY <2>3 DEF Kept, Contract!Next
<1> QED
  BY <1>2, <1>3

\* The contract sees a park when it edits or forgives, not when it makes up its mind.
LEMMA ParkDecideKept == IInv /\ ParkDecide => Kept
<1> SUFFICES ASSUME IInv, ParkDecide PROVE Kept
  OBVIOUS
<1>1. /\ pc \in ParkPcs /\ pc' = (IF pc = "charged" THEN "count" ELSE "parkedit") /\ DaemonOnly
      /\ UNCHANGED <<failures, saved, labels>> /\ BranchSeen
  BY ParkClassOf DEF ParkDecide, Goto, KeepCount, BranchSeen
<1>2. Stage' = Stage
  BY <1>1, StageNames, StageOfPc DEF ParkPcs
<1> QED
  BY <1>1, <1>2, OwnSeen DEF Kept, Contract!vars, BranchSeen, HooksSeen

LEMMA CountKept == IInv /\ Count => Kept
<1> SUFFICES ASSUME IInv, Count PROVE Kept
  OBVIOUS
<1>1. /\ pc = "count" /\ pc' = "parkedit" /\ DaemonOnly /\ UNCHANGED labels /\ BranchSeen
      /\ failures' = (IF failures < MaxFailures THEN failures + 1 ELSE failures)
      /\ saved' \in {saved, failures'}
  BY DEF Count, Goto, Persisted, BranchSeen
<1>2. Stage = "charging" /\ Stage' = "parking"
  BY <1>1, StageNames, StageOfPc
<1>3. Contract!Charge
  BY <1>1, <1>2, OwnSeen
     DEF Contract!Charge, Contract!Moves, Contract!Counts, Contract!Hooks, BranchSeen, HooksSeen
<1> QED
  BY <1>3 DEF Kept, Contract!Next

\* An edit that a park computes is one that the contract allows to parks.
LEMMA EditsOfPark ==
  ASSUME NEW add \in {{}, {Contract!Ready}, {Contract!Failed}}, NEW remove \in SUBSET Contract!StateLabels
  PROVE  Contract!Edit(labels, add, remove \cup {Contract!Progress}) \in Contract!ParkEdits
<1> DEFINE Adds == {{}, {Contract!Ready}, {Contract!Failed}}
           Removes == SUBSET Contract!StateLabels
           P == Contract!Progress
<1>1. add \in Adds /\ remove \in Removes
  OBVIOUS
<1> DEFINE Edits == {(labels \ (y \cup {P})) \cup x : x \in Adds, y \in Removes}
<1>2. Contract!ParkEdits = Edits
  BY DEF Contract!ParkEdits, Contract!Edit
<1>3. Contract!Edit(labels, add, remove \cup {Contract!Progress}) = (labels \ (remove \cup {P})) \cup add
  BY DEF Contract!Edit
<1> HIDE DEF Adds, Removes, P
<1>4. (labels \ (remove \cup {P})) \cup add \in Edits
  BY <1>1
<1> HIDE DEF Edits
<1> QED
  BY <1>2, <1>3, <1>4

LEMMA ParkEditKept == IInv /\ ParkEdit => Kept
<1> SUFFICES ASSUME IInv, ParkEdit PROVE Kept
  OBVIOUS
<1>1. /\ pc = "parkedit" /\ pc' \in {"verify", "idle"} /\ DaemonOnly /\ UNCHANGED <<failures, saved>>
      /\ labels' \in {labels, Edit(labels, edit.add, edit.remove)} /\ BranchSeen
  BY DEF ParkEdit, Goto, Idle, LabelEdit, KeepCount, BranchSeen
<1>2. Stage = "parking" /\ Stage' \in {"parking", "idle"}
  BY <1>1, StageNames, StageOfPc
<1>3. labels' = labels \/ labels' \in Contract!ParkEdits
  <2> SUFFICES ASSUME labels' = Edit(labels, edit.add, edit.remove) PROVE labels' \in Contract!ParkEdits
    BY <1>1
  <2>1. edit.add \in {{}, {Ready}, {Failed}} /\ edit.remove = (edit.remove \cap StateLabels) \cup {Progress}
    BY <1>1 DEF IInv, EditOK
  <2>2. labels' = Edit(labels, edit.add, (edit.remove \cap StateLabels) \cup {Progress})
    BY <2>1
  <2>3. (edit.remove \cap StateLabels) \in SUBSET StateLabels
    OBVIOUS
  <2>4. /\ edit.add \in {{}, {Contract!Ready}, {Contract!Failed}}
        /\ (edit.remove \cap StateLabels) \in SUBSET Contract!StateLabels
        /\ labels' = Contract!Edit(labels, edit.add, (edit.remove \cap StateLabels) \cup {Contract!Progress})
    BY <2>1, <2>2, <2>3, ContractLabels
  <2> QED
    BY <2>4, EditsOfPark
<1>4. Contract!Park
  BY <1>1, <1>2, <1>3, OwnSeen, CountsKept
     DEF Contract!Park, Contract!Moves, Contract!Hooks, BranchSeen, HooksSeen
<1> QED
  BY <1>4 DEF Kept, Contract!Next

LEMMA ParkVerifyKept == IInv /\ ParkVerify => Kept
<1> SUFFICES ASSUME IInv, ParkVerify PROVE Kept
  OBVIOUS
<1>1. /\ pc = "verify" /\ pc' = "idle" /\ DaemonOnly /\ UNCHANGED labels /\ BranchSeen
      /\ \/ UNCHANGED <<failures, saved>>
         \/ labels \cap StateLabels = {Failed} /\ failures' = 0 /\ saved' \in {saved, 0}
  BY DEF ParkVerify, Goto, Idle, KeepCount, Persisted, BranchSeen
<1>2. Stage = "parking" /\ Stage' = "idle"
  BY <1>1, StageNames, StageOfPc
<1>3. Contract!Park
  BY <1>1, <1>2, OwnSeen, CountsKept, ContractLabels
     DEF Contract!Park, Contract!Moves, Contract!Counts, Contract!Hooks, BranchSeen, HooksSeen
<1> QED
  BY <1>3 DEF Kept, Contract!Next

LEMMA HookKept == IInv /\ (Hook \/ (StrayEnds /\ UNCHANGED <<gate, runVars, verdict, dispatches>>)) => Kept
<1> SUFFICES ASSUME IInv, Hook \/ (StrayEnds /\ UNCHANGED <<gate, runVars, verdict, dispatches>>)
             PROVE  Kept
  OBVIOUS
<1>1. /\ hook # "off" /\ UNCHANGED <<pc, prOpen>> /\ UNCHANGED <<failures, saved>> /\ BranchSeen
      /\ outcome' = "pr-opened" => outcome = "pr-opened" \/ prOpen
      /\ labels' \in {labels, labels \ {Ready}, labels \cup {Blocked}}
                       \cup (IF outcome = "pr-opened" THEN {labels \cup {Done}} ELSE {})
  <2>1. CASE StrayEnds /\ UNCHANGED <<gate, runVars, verdict, dispatches>>
    BY <2>1 DEF StrayEnds, HookExits, shared, github, verdict, IInv, Types, TypeOK, HookTypeOK, BranchSeen
  <2>2. CASE Hook
    <3>1. HookStep /\ UNCHANGED verdict
      BY <2>2 DEF Hook
    <3>2. hook # "off" /\ UNCHANGED <<pc, prOpen>> /\ UNCHANGED <<failures, saved>> /\ BranchSeen
      BY <3>1, HookStepFacts DEF OnlyHook, verdict, BranchSeen
    <3>3. CASE HookClassify \/ HookLookup \/ HookLabels
      BY <3>2, <3>3 DEF HookClassify, HookLookup, HookLabels, HookExits
    <3>4. CASE HookRemove
      BY <3>2, <3>4 DEF HookRemove, LabelEdit, Edit, HookExits
    <3>5. CASE HookAdd
      <4>1. labels' \in {labels, labels \cup {Target(outcome)}} /\ outcome' = "none"
        BY <3>5 DEF HookAdd, LabelEdit, Edit, HookExits
      <4>2. Target(outcome) = Blocked \/ (Target(outcome) = Done /\ outcome = "pr-opened")
        BY DEF Target
      <4> QED
        BY <3>2, <4>1, <4>2
    <3> QED
      BY <3>1, <3>3, <3>4, <3>5 DEF HookStep
  <2> QED
    BY <2>1, <2>2
<1>2. Stage' = Stage
  BY <1>1, StageOfPc
<1>3. Contract!HookSteps
  BY <1>1, <1>2, CountsKept, ContractLabels DEF Contract!HookSteps, Contract!Keeps, BranchSeen
<1> QED
  BY <1>3 DEF Kept, Contract!Next

LEMMA OthersKept ==
  ASSUME IInv, \/ Crash \/ FeatureMoves \/ Mention \/ Human \/ Publish
               \/ ProbeLands /\ UNCHANGED <<hookVars, runVars, verdict, dispatches>>
  PROVE  Kept
<1>1. CASE Crash
  <2>1. /\ pc' = "idle" /\ failures' \in {saved, 0} /\ UNCHANGED <<labels, prOpen, hook, outcome>>
        /\ UNCHANGED saved /\ BranchSeen
    BY <1>1 DEF Crash, Idle, Goto, Load, github, hookVars, BranchSeen
  <2>2. Stage' = "idle"
    BY <2>1, StageNames, StageOfPc
  <2>3. Contract!Crash
    BY <2>1, <2>2 DEF Contract!Crash, Contract!Hooks, BranchSeen
  <2> QED
    BY <2>3 DEF Kept, Contract!Next
<1>2. CASE Human \/ Publish
  <2>1. UNCHANGED <<pc, hook, outcome>> /\ UNCHANGED <<failures, saved>> /\ BranchSeen
    BY <1>2 DEF Human, Publish, hookVars, verdict, BranchSeen
  <2>2. Stage' = Stage
    BY <2>1, StageOfPc
  <2>3. CASE UNCHANGED <<labels, prOpen>>
    BY <2>1, <2>2, <2>3 DEF Kept, Contract!vars, BranchSeen
  <2>4. CASE UNCHANGED prOpen /\ labels' \in {Edit(labels, {Ready}, Excluded), labels \cup {Blocked}}
    <3>1. Contract!Human
      BY <2>1, <2>2, <2>4, CountsKept, ContractLabels
         DEF Contract!Human, Contract!Keeps, Contract!Hooks, BranchSeen
    <3> QED
      BY <3>1 DEF Kept, Contract!Next
  <2>5. CASE UNCHANGED labels /\ prOpen' = FALSE
    <3>1. Contract!Close
      BY <2>1, <2>2, <2>5, CountsKept DEF Contract!Close, Contract!Hooks, BranchSeen
    <3> QED
      BY <3>1 DEF Kept, Contract!Next
  <2> QED
    BY <1>2, <2>3, <2>4, <2>5 DEF Human, Publish
<1>3. CASE FeatureMoves \/ Mention \/ (ProbeLands /\ UNCHANGED <<hookVars, runVars, verdict, dispatches>>)
  <2>1. UNCHANGED <<pc, labels, prOpen, hook, outcome>> /\ UNCHANGED <<failures, saved>> /\ BranchSeen
    BY <1>3 DEF FeatureMoves, Mention, ProbeLands, shared, github, hookVars, verdict, BranchSeen
  <2> QED
    BY <2>1, StageOfPc DEF Kept, Contract!vars, BranchSeen
<1> QED
  BY <1>1, <1>2, <1>3

LEMMA StepsKept == IInv /\ [Next]_vars => Kept
<1> SUFFICES ASSUME IInv, [Next]_vars PROVE Kept
  OBVIOUS
<1>1. CASE Daemon
  BY <1>1, SelectKept, ClaimingKept, FetchKept, GateStepKept, RunStepKept, HookCallKept, OutcomeKept,
     FindKept, TestKept, RecordKept, ParkDecideKept, CountKept, ParkEditKept, ParkVerifyKept
     DEF Daemon, GateFrame, RunFrame, HookCallFrame
<1>2. CASE Hook \/ Environment
  BY <1>2, HookKept, OthersKept DEF Environment
<1>3. CASE UNCHANGED vars
  <2>1. UNCHANGED <<pc, labels, prOpen, hook, outcome>> /\ UNCHANGED <<failures, saved>> /\ BranchSeen
    BY <1>3 DEF vars, shared, github, hookVars, verdict, BranchSeen
  <2> QED
    BY <2>1, StageOfPc DEF Kept, Contract!vars, BranchSeen
<1> QED
  BY <1>1, <1>2, <1>3 DEF Next

\* The dispatch, call by call, implements the contract WorkUnit is written to:
\* every label edit is one its stage allows, an attempt is counted when and
\* only when it is charged, and the gate sees no issue without its pull request.
THEOREM ContractIsKept == Spec => KeepsContract
<1>1. Init => Contract!Init
  <2> SUFFICES ASSUME Init PROVE Contract!Init
    OBVIOUS
  <2>1. Stage = "idle"
    BY StageNames, StageOfPc DEF Init
  <2> QED
    BY <2>1, ContractLabels DEF Init, HookInit, Contract!Init
<1>2. IInv /\ [Next]_vars => [Contract!Next]_Contract!vars
  BY StepsKept DEF Kept
<1> QED
  BY <1>1, <1>2, Inductive, PTL DEF Spec, KeepsContract, Contract!Spec
=============================================================================
