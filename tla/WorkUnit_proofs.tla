--------------------------- MODULE WorkUnit_proofs ---------------------------
(***************************************************************************)
(* Safety of the work-unit loop for every set of issues and blocker graph, *)
(* and any number of faults, crashes and human acts.  The inductive        *)
(* invariant joins the loop's own state to the scheduler's:                *)
(*   - between two units there is no scheduler, within one it satisfies    *)
(*     the invariant proved in IssueScheduler_proofs: SchedulerOK;         *)
(*   - the graph is the milestone's, cut down to the members: GraphOfUnit; *)
(*   - the issue in hand was handed out and has no verdict yet: InHand;    *)
(*   - every verdict "done" has its trailer on the branch, and an issue    *)
(*     still to be tried has none: VerdictsMerged, MergedOnce;             *)
(*   - agent-in-progress is taken away by whatever ends a dispatch.        *)
(* A second invariant, PInv at the end, keeps an account of the launches.  *)
(***************************************************************************)
EXTENDS WorkUnit, Labels_proofs

SP == INSTANCE IssueScheduler_proofs

-----------------------------------------------------------------------------
\* The scheduler exists from the start of a unit to its end.
NoSched == pc \in {"idle", "recheck", "begin"}
SchedulerOK ==
  IF NoSched THEN phase = "new" /\ graph = <<>> /\ pending = {} /\ class = Fresh
                    /\ consumed = {} /\ handed = {} /\ done = {} /\ parked = {}
             ELSE phase = "prepared" /\ SP!IInv

\* The graph is that of the unit's members, all of the milestone unless they
\* could not be listed.
GraphOfUnit ==
  ~ NoSched => /\ DOMAIN graph \subseteq Issues
               /\ graph = [i \in DOMAIN graph |-> blockedBy[i] \cap DOMAIN graph]
               /\ CallFailed("members") \/ DOMAIN graph = Issues

InHand ==
  /\ pending \subseteq handed \ (done \cup parked)
  /\ cur # NoIssue => /\ cur \in handed \ pending
                      /\ pc # "verify" => cur \notin done \cup parked

VerdictsMerged ==
  /\ \A i \in Issues : class[i] = "done" => i \in trailers
  /\ DoneIsMerged
  /\ pc \in {"persist", "merged"} => cur \in trailers

Waiting == (DOMAIN graph \ handed) \cup pending
BeforeGate == pc \in {"redispatch", "clear", "predispatch", "claim", "launch", "refused",
                      "worker", "hook", "failedhook"}
MergedOnce ==
  ~ CallFailed("provenance") =>
    /\ ~ NoSched /\ pc # "setup" =>
         \A i \in Waiting : i \in trailers => class[i] \in {"done", "gate"}
    /\ BeforeGate => cur \notin trailers

\* At these points nothing is in progress, not even the issue in hand.
Unclaimed == {"reentry", "regate", "redispatch", "clear", "predispatch", "claim", "verify"}
ParkOK == pc = "park" => park \in ParkClasses
ProgressOK ==
  /\ pc = "edit" => Progress \in edit.remove /\ Progress \notin edit.add
  /\ crashes = 0 /\ ~ CallFailed("edit") => Orphans \subseteq IF pc \in Unclaimed THEN {} ELSE {cur}

IInv ==
  /\ TypeOK /\ SchedulerOK /\ GraphOfUnit /\ InHand
  /\ VerdictsMerged /\ MergeOrder /\ MergedOnce /\ ParkOK /\ ProgressOK

-----------------------------------------------------------------------------
\* Settings and bounds are numbers, and NoIssue is no issue.
LEMMA Constants ==
  /\ NoIssue \notin Issues /\ MaxFailures \in Nat \ {0} /\ MaxRedispatch \in Nat
  /\ Faulty \subseteq Calls /\ HumanActs \subseteq Acts
  /\ MaxFaults \in Nat /\ MaxCrashes \in Nat /\ MaxActs \in Nat
  /\ BlockerGraphs \subseteq [Issues -> SUBSET Issues]
BY ConstantsOK DEF ConstantsOK

FaultStep == Succeeds \/ \E c \in Calls : Fails(c)

\* What has failed stays known.
LEMMA FaultsGrow ==
  ASSUME TypeOK, FaultStep
  PROVE  /\ faults' \in Seq(Calls) /\ Len(faults') <= MaxFaults
         /\ \A c : CallFailed(c) => CallFailed(c)'
<1>1. CASE Succeeds
  BY <1>1 DEF Succeeds, TypeOK, CallFailed
<1>2. CASE \E c \in Calls : Fails(c)
  <2>1. PICK c \in Calls : Fails(c)
    BY <1>2
  <2>2. faults \in Seq(Calls) /\ Len(faults) \in Nat
    BY DEF TypeOK
  <2>3. faults' = Append(faults, c) /\ Len(faults) < MaxFaults
    BY <2>1 DEF Fails
  <2>4. faults' \in Seq(Calls) /\ Len(faults') = Len(faults) + 1
    BY <2>2, <2>3
  <2>5. \A k \in DOMAIN faults : k \in DOMAIN faults' /\ faults'[k] = faults[k]
    BY <2>2, <2>3, <2>4
  <2> QED
    BY <2>2, <2>3, <2>4, <2>5, Constants DEF CallFailed
<1> QED
  BY <1>1, <1>2 DEF FaultStep

\* A call that fails is known to have failed.
LEMMA FaultSeen ==
  ASSUME TypeOK, NEW c, Fails(c)
  PROVE  CallFailed(c)' /\ c \in Calls /\ FaultStep
<1>1. c \in Calls
  BY Constants DEF Fails
<1>2. faults \in Seq(Calls) /\ Len(faults) \in Nat /\ faults' = Append(faults, c)
  BY DEF TypeOK, Fails
<1>3. Len(faults) + 1 \in DOMAIN faults' /\ faults'[Len(faults) + 1] = c
  BY <1>1, <1>2
<1> QED
  BY <1>1, <1>3 DEF CallFailed, FaultStep

\* mark_parked takes nothing from the caller but the issue itself: whatever else
\* it parks has a blocker that is not done, and was never handed out.
LEMMA ParkedAreNotHanded ==
  ASSUME SP!IInv, NEW n
  PROVE  Sched!Subtree(n) \cap consumed \subseteq {n}
<1> DEFINE S == {m \in Sched!Live : m = n \/ m \notin consumed}
<1>1. S \in SUBSET Sched!Live
  OBVIOUS
<1>2. Sched!ClosedDownstream(S)
  <2> SUFFICES ASSUME NEW m \in S, NEW d \in Sched!Dependents(m), d \in Sched!Live
               PROVE  d \notin consumed
    BY DEF Sched!ClosedDownstream
  <2>1. m \in graph[d] /\ m \notin done
    BY DEF Sched!Dependents, Sched!Live, Sched!Terminal
  <2> QED
    BY <2>1 DEF SP!IInv, SP!ConsumedInOrder
<1>3. \A m \in Sched!Subtree(n) : n \in Sched!Live /\ m \in S
  BY <1>1, <1>2 DEF Sched!Subtree
<1> QED
  BY <1>3

-----------------------------------------------------------------------------
(* Type correctness, action by action.                                     *)

\* An edit of the labels, applied or refused, leaves labels.
LEMMA LabelEditTypes ==
  ASSUME TypeOK, NEW i \in Issues, NEW add \in SUBSET AllLabels, NEW remove,
         LabelEdit(i, add, remove)
  PROVE  labels' \in [Issues -> SUBSET AllLabels] /\ FaultStep
<1>1. CASE Fails("edit") /\ UNCHANGED labels
  BY <1>1, FaultSeen DEF TypeOK
<1>2. CASE Succeeds /\ labels' = [labels EXCEPT ![i] = Edit(@, add, remove)]
  BY <1>2, EditTypes DEF TypeOK, FaultStep
<1> QED
  BY <1>1, <1>2 DEF LabelEdit

\* The edit that park_issue computes is one.
LEMMA ParkTypes ==
  ASSUME NEW c \in ParkClasses, NEW r \in BOOLEAN, NEW L \in SUBSET AllLabels, NEW x \in BOOLEAN
  PROVE  [add |-> ParkAdd(c, r, L, x), remove |-> ParkRemove(c, r, L, x), exhausted |-> x] \in Edits
BY ParkEditShape, LabelNames DEF Edits, AllLabels

\* Having no edit in hand is typed as an edit.
LEMMA NoEditType == NoEdit \in Edits
BY DEF NoEdit, Edits

\* What the end of a unit leaves is typed.
LEMMA LeaveTypes ==
  ASSUME Leave
  PROVE  /\ pc' = "idle" /\ greenlit' \subseteq Issues /\ pending' \subseteq Issues
         /\ class' \in [Issues -> {"fresh", "done", "gate", "parked", "redispatch"}]
         /\ cur' = NoIssue /\ park' \in ParkClasses \cup {NoPark} /\ edit' \in Edits
BY NoEditType DEF Leave, Fresh

\* The start of a unit keeps the types.
LEMMA TickTypes == IInv /\ (Tick \/ Recheck \/ Begin) => TypeOK'
<1> SUFFICES ASSUME IInv, Tick \/ Recheck \/ Begin PROVE TypeOK'
  OBVIOUS
<1>1. CASE Tick
  BY <1>1 DEF IInv, TypeOK, Tick, Snapshot, Goto, task, github, disk, scheduler, history, Pcs
<1>2. CASE Recheck
  <2>1. FaultStep
    BY <1>2, FaultSeen DEF Recheck, FaultStep, IInv
  <2>2. labels' \in [Issues -> SUBSET AllLabels] /\ greenlit' \subseteq Issues
    <3>1. PICK T : \/ UNCHANGED <<labels, greenlit>>
                   \/ /\ greenlit' = greenlit \ T
                      /\ \/ UNCHANGED labels
                         \/ labels' = [i \in Issues |-> IF i \in T THEN labels[i] \ {Progress} ELSE labels[i]]
      BY <1>2 DEF Recheck
    <3>2. \A i \in Issues : (IF i \in T THEN labels[i] \ {Progress} ELSE labels[i]) \in SUBSET AllLabels
      BY DEF IInv, TypeOK
    <3>3. [i \in Issues |-> IF i \in T THEN labels[i] \ {Progress} ELSE labels[i]]
            \in [Issues -> SUBSET AllLabels]
      BY <3>2
    <3>4. labels \in [Issues -> SUBSET AllLabels] /\ greenlit \subseteq Issues
      BY DEF IInv, TypeOK
    <3> QED
      BY <3>1, <3>3, <3>4
  <2>3. pc' \in {"begin", "idle"} /\ pc = "recheck"
    BY <1>2 DEF Recheck, Goto
  <2> QED
    BY <1>2, <2>1, <2>2, <2>3, FaultsGrow DEF IInv, TypeOK, Recheck, Goto, task, disk, history, Pcs
<1>3. CASE Begin
  <2>1. FaultStep
    BY <1>3, FaultSeen DEF Begin, BlockersFail, FaultStep, IInv
  <2>2. CASE Leave
    BY <1>3, <2>1, <2>2, FaultsGrow, LeaveTypes DEF IInv, TypeOK, Begin, github, disk, history, Pcs
  <2>3. CASE \E m \in SUBSET Issues : StartUnit(m) /\ ~ Leave
    BY <1>3, <2>1, <2>3, FaultsGrow
       DEF IInv, TypeOK, Begin, StartUnit, unit, task, github, disk, history, Pcs
  <2> QED
    BY <1>3, <2>2, <2>3 DEF Begin, BlockersFail, IInv, TypeOK, Orphans
<1> QED
  BY <1>1, <1>2, <1>3

-----------------------------------------------------------------------------
(* The steps between Pick and the verdict on the issue in hand.            *)

InHandPcs == Pcs \ {"idle", "recheck", "begin", "setup", "frontier", "pick", "complete"}

\* The scheduler's sets contain each other, and issues only.
LEMMA HandedAreIssues ==
  ASSUME IInv
  PROVE  /\ done \subseteq handed /\ handed \subseteq consumed
         /\ consumed \subseteq DOMAIN graph /\ parked \subseteq DOMAIN graph
         /\ ~ NoSched => DOMAIN graph \subseteq Issues
         /\ handed \subseteq Issues
<1>1. CASE NoSched
  BY <1>1 DEF IInv, SchedulerOK
<1>2. CASE ~ NoSched
  <2>1. SP!TypeOK
    BY <1>2 DEF IInv, SchedulerOK, SP!IInv
  <2> QED
    BY <1>2, <2>1 DEF IInv, GraphOfUnit, SP!TypeOK, SP!Nodes
<1> QED
  BY <1>1, <1>2

\* In the middle of a dispatch there is an issue in hand and a scheduler.
LEMMA HasIssue ==
  ASSUME IInv, pc \in InHandPcs
  PROVE  cur \in Issues /\ cur # NoIssue /\ ~ NoSched /\ pc # "setup"
BY DEF IInv, TypeOK, InHandPcs, NoSched

\* agent-in-progress is put on no issue but the one in hand, by its claim.
OnlyClaims ==
  \A i \in Issues : Progress \in labels'[i] =>
    Progress \in labels[i] \/ (i = cur /\ pc' \notin Unclaimed)

\* Labels written to the issue in hand claim it only where it may be claimed.
LEMMA NewLabels ==
  ASSUME TypeOK, cur \in Issues, NEW L \in SUBSET AllLabels,
         labels' = [labels EXCEPT ![cur] = L],
         Progress \in L => Progress \in labels[cur] \/ pc' \notin Unclaimed
  PROVE  labels' \in [Issues -> SUBSET AllLabels] /\ OnlyClaims
BY DEF TypeOK, OnlyClaims

\* ... as does writing none.
LEMMA SameLabels ==
  ASSUME TypeOK, UNCHANGED labels
  PROVE  labels' \in [Issues -> SUBSET AllLabels] /\ OnlyClaims
BY DEF TypeOK, OnlyClaims

\* ... and an edit that GitHub may refuse.
LEMMA EditedLabels ==
  ASSUME TypeOK, cur \in Issues, NEW add \in SUBSET AllLabels, NEW remove,
         LabelEdit(cur, add, remove), Progress \in add => pc' \notin Unclaimed
  PROVE  labels' \in [Issues -> SUBSET AllLabels] /\ OnlyClaims /\ FaultStep
<1>1. CASE Fails("edit") /\ UNCHANGED labels
  BY <1>1, SameLabels, FaultSeen
<1>2. CASE Succeeds /\ labels' = [labels EXCEPT ![cur] = Edit(@, add, remove)]
  <2>1. Edit(labels[cur], add, remove) \in SUBSET AllLabels
    BY EditTypes DEF TypeOK
  <2>2. Progress \in Edit(labels[cur], add, remove) => Progress \in labels[cur] \/ pc' \notin Unclaimed
    BY DEF Edit
  <2> QED
    BY <1>2, <2>1, <2>2, NewLabels DEF FaultStep
<1> QED
  BY <1>1, <1>2 DEF LabelEdit

\* Whatever such a step does, it leaves verdicts, branch and scheduler alone.
LEMMA IssueStep ==
  ASSUME IInv, FaultStep,
         UNCHANGED <<blockedBy, unitPR, trailers, unit, pending, scheduler, cur, crashes, acts>>,
         labels' \in [Issues -> SUBSET AllLabels], OnlyClaims,
         pr' \in [Issues -> {"none", "open", "merged"}],
         failures' \in [Issues -> 0..MaxFailures],
         redispatches' \in [Issues -> 0..MaxRedispatch],
         launches' \in [Issues -> Nat],
         park' \in ParkClasses \cup {NoPark}, edit' \in Edits,
         pc \in InHandPcs \ {"verify"}, pc' \in InHandPcs \ {"verify"},
         pc' \in {"persist", "merged"} => cur \in trailers,
         BeforeGate' => BeforeGate, pc' \in Unclaimed => pc \in Unclaimed,
         pc' = "park" => park' \in ParkClasses,
         pc' = "edit" => Progress \in edit'.remove /\ Progress \notin edit'.add
  PROVE  IInv'
<1>1. cur \in Issues /\ cur # NoIssue /\ ~ NoSched /\ ~ NoSched' /\ pc # "setup" /\ pc' # "setup"
  BY HasIssue DEF InHandPcs, NoSched
<1>2. TypeOK'
  <2>1. faults' \in Seq(Calls) /\ Len(faults') <= MaxFaults
    BY FaultsGrow DEF IInv
  <2>2. TypeOK /\ InHandPcs \subseteq Pcs
    BY DEF IInv, InHandPcs
  <2>3. (cur' = NoIssue) = (pc' \in {"idle", "recheck", "begin", "setup", "frontier", "pick", "complete"})
    BY <1>1 DEF InHandPcs
  <2> QED
    BY <1>1, <2>1, <2>2, <2>3 DEF TypeOK, unit
<1>3. SchedulerOK'
  BY <1>1, SP!StutterInv DEF IInv, SchedulerOK, SP!vars, scheduler
<1>4. GraphOfUnit'
  BY <1>1, FaultsGrow DEF IInv, GraphOfUnit, scheduler
<1>5. InHand'
  BY DEF IInv, InHand, scheduler
<1>6. VerdictsMerged' /\ MergeOrder'
  BY FaultsGrow DEF IInv, VerdictsMerged, DoneIsMerged, MergeOrder, unit, scheduler
<1>7. MergedOnce'
  BY <1>1, FaultsGrow DEF IInv, MergedOnce, Waiting, unit, scheduler
<1>8. ParkOK' /\ ProgressOK'
  BY FaultsGrow DEF IInv, ParkOK, ProgressOK, OnlyClaims, Orphans
<1> QED
  BY <1>2, <1>3, <1>4, <1>5, <1>6, <1>7, <1>8 DEF IInv

\* What IssueStep asks of a step, but for what it does to labels, pull requests
\* and counters.
OneIssue ==
  /\ UNCHANGED <<blockedBy, unitPR, trailers, unit, pending, scheduler, cur, crashes, acts>>
  /\ park' \in ParkClasses \cup {NoPark} /\ edit' \in Edits
  /\ pc \in InHandPcs \ {"verify"} /\ pc' \in InHandPcs \ {"verify"}
  /\ pc' \in {"persist", "merged"} => cur \in trailers
  /\ BeforeGate' => BeforeGate
  /\ pc' \in Unclaimed => pc \in Unclaimed
  /\ pc' = "park" => park' \in ParkClasses
  /\ pc' = "edit" => Progress \in edit'.remove /\ Progress \notin edit'.add

\* A step that touches neither labels nor counts keeps the invariant.
LEMMA QuietStep ==
  ASSUME IInv, OneIssue, FaultStep, UNCHANGED <<labels, pr, failures, redispatches, launches>>
  PROVE  IInv'
<1>1. /\ pr \in [Issues -> {"none", "open", "merged"}] /\ failures \in [Issues -> 0..MaxFailures]
      /\ redispatches \in [Issues -> 0..MaxRedispatch] /\ launches \in [Issues -> Nat]
  BY DEF IInv, TypeOK
<1> QED
  BY <1>1, SameLabels, IssueStep DEF IInv, OneIssue

\* A step that only edits the labels of the issue in hand keeps it.
LEMMA LabelStep ==
  ASSUME IInv, OneIssue, FaultStep, UNCHANGED <<pr, failures, redispatches, launches>>,
         labels' \in [Issues -> SUBSET AllLabels], OnlyClaims
  PROVE  IInv'
<1>1. /\ pr \in [Issues -> {"none", "open", "merged"}] /\ failures \in [Issues -> 0..MaxFailures]
      /\ redispatches \in [Issues -> 0..MaxRedispatch] /\ launches \in [Issues -> Nat]
  BY DEF IInv, TypeOK
<1> QED
  BY <1>1, IssueStep DEF OneIssue

LEMMA ReentryInv == IInv /\ Reentry => IInv'
<1> SUFFICES ASSUME IInv, Reentry PROVE IInv'
  OBVIOUS
<1>1. FaultStep
  BY FaultSeen DEF IInv, Reentry, FaultStep
<1>2. OneIssue
  BY DEF IInv, TypeOK, Reentry, OneIssue, Goto, Park, task, github, disk, unit, history, InHandPcs, Pcs,
         BeforeGate, Unclaimed, ParkClasses
<1> QED
  BY <1>1, <1>2, QuietStep DEF Reentry, github, disk, history

LEMMA RedispatchInv == IInv /\ Redispatch => IInv'
<1> SUFFICES ASSUME IInv, Redispatch PROVE IInv'
  OBVIOUS
<1>1. OneIssue
  BY DEF IInv, TypeOK, Redispatch, OneIssue, Goto, Park, task, github, unit, history, InHandPcs, Pcs,
         BeforeGate, Unclaimed, ParkClasses
<1>2. cur \in Issues /\ redispatches \in [Issues -> 0..MaxRedispatch]
  BY <1>1, HasIssue DEF OneIssue, IInv, TypeOK
<1>3. redispatches' \in [Issues -> 0..MaxRedispatch]
  BY <1>2, Constants DEF Redispatch
<1>4. /\ FaultStep /\ UNCHANGED <<labels, pr, failures, launches>>
      /\ pr \in [Issues -> {"none", "open", "merged"}] /\ failures \in [Issues -> 0..MaxFailures]
      /\ launches \in [Issues -> Nat]
  BY DEF Redispatch, FaultStep, Succeeds, github, history, IInv, TypeOK
<1> QED
  BY <1>1, <1>3, <1>4, SameLabels, IssueStep DEF IInv, OneIssue

\* The steps that make one label edit and go on.
LEMMA EditStepsInv == IInv /\ (ClearOrphan \/ Refused \/ Converge) => IInv'
<1> SUFFICES ASSUME IInv, ClearOrphan \/ Refused \/ Converge PROVE IInv'
  OBVIOUS
<1>1. OneIssue
  BY DEF IInv, TypeOK, ClearOrphan, Refused, Converge, OneIssue, Goto, Park, task, disk, unit, history,
         InHandPcs, Pcs, BeforeGate, Unclaimed, ParkClasses
<1>2. cur \in Issues
  BY <1>1, HasIssue DEF OneIssue
<1>3. PICK add \in SUBSET {Ready, Done}, remove \in SUBSET AllLabels : LabelEdit(cur, add, remove)
  BY LabelNames DEF ClearOrphan, Refused, Converge, TargetState
<1>4. Progress \notin add /\ add \in SUBSET AllLabels
  BY LabelNames DEF Progress, Ready, Done
<1>5. FaultStep /\ labels' \in [Issues -> SUBSET AllLabels] /\ OnlyClaims
  BY <1>2, <1>3, <1>4, EditedLabels DEF IInv
<1> QED
  BY <1>1, <1>5, LabelStep DEF ClearOrphan, Refused, Converge, disk, history

LEMMA PreDispatchInv == IInv /\ PreDispatch => IInv'
<1> SUFFICES ASSUME IInv, PreDispatch PROVE IInv'
  OBVIOUS
<1>1. FaultStep
  BY FaultSeen DEF IInv, PreDispatch, FaultStep
<1>2. OneIssue
  BY DEF IInv, TypeOK, PreDispatch, OneIssue, Goto, Park, task, github, disk, unit, history, InHandPcs,
         Pcs, BeforeGate, Unclaimed, ParkClasses
<1> QED
  BY <1>1, <1>2, QuietStep DEF PreDispatch, github, disk, history

LEMMA LaunchInv == IInv /\ Launch => IInv'
<1> SUFFICES ASSUME IInv, Launch PROVE IInv'
  OBVIOUS
<1>1. FaultStep
  BY FaultSeen DEF IInv, Launch, FaultStep
<1>2. OneIssue
  BY DEF IInv, TypeOK, Launch, OneIssue, Goto, Park, task, github, disk, unit, InHandPcs, Pcs,
         BeforeGate, Unclaimed, ParkClasses
<1>3. cur \in Issues /\ launches \in [Issues -> Nat]
  BY <1>2, HasIssue DEF OneIssue, IInv, TypeOK
<1>4. launches' \in [Issues -> Nat]
  BY <1>3 DEF Launch
<1>5. /\ UNCHANGED <<labels, pr, failures, redispatches>>
      /\ pr \in [Issues -> {"none", "open", "merged"}] /\ failures \in [Issues -> 0..MaxFailures]
      /\ redispatches \in [Issues -> 0..MaxRedispatch]
  BY DEF Launch, github, disk, IInv, TypeOK
<1> QED
  BY <1>1, <1>2, <1>4, <1>5, SameLabels, IssueStep DEF IInv, OneIssue

LEMMA WorkerInv == IInv /\ Worker => IInv'
<1> SUFFICES ASSUME IInv, Worker PROVE IInv'
  OBVIOUS
<1>1. OneIssue
  BY DEF IInv, TypeOK, Worker, OneIssue, Goto, Park, task, disk, unit, history, InHandPcs, Pcs,
         BeforeGate, Unclaimed, ParkClasses
<1>2. cur \in Issues /\ FaultStep
  BY <1>1, HasIssue DEF OneIssue, Worker, FaultStep, Succeeds
<1>3. pr' \in [Issues -> {"none", "open", "merged"}]
  BY <1>2 DEF Worker, IInv, TypeOK
<1>4. labels' \in [Issues -> SUBSET AllLabels] /\ OnlyClaims
  <2>1. labels[cur] \cup {Blocked} \in SUBSET AllLabels
    BY <1>2, LabelNames DEF IInv, TypeOK
  <2>2. Progress # Blocked
    BY DEF Progress, Blocked
  <2>3. labels' \in {labels, [labels EXCEPT ![cur] = labels[cur] \cup {Blocked}]}
    BY DEF Worker
  <2> QED
    BY <1>2, <2>1, <2>2, <2>3, SameLabels, NewLabels DEF IInv
<1>5. /\ UNCHANGED <<failures, redispatches, launches>>
      /\ failures \in [Issues -> 0..MaxFailures] /\ launches \in [Issues -> Nat]
      /\ redispatches \in [Issues -> 0..MaxRedispatch]
  BY DEF Worker, disk, history, IInv, TypeOK
<1> QED
  BY <1>1, <1>2, <1>3, <1>4, <1>5, IssueStep DEF OneIssue

LEMMA HookInv == IInv /\ Hook => IInv'
<1> SUFFICES ASSUME IInv, Hook PROVE IInv'
  OBVIOUS
<1>1. FaultStep
  BY FaultSeen DEF IInv, Hook, FaultStep
<1>2. OneIssue
  BY DEF IInv, TypeOK, Hook, OneIssue, Goto, Park, task, disk, unit, history, InHandPcs, Pcs,
         BeforeGate, Unclaimed, ParkClasses
<1>3. cur \in Issues /\ labels[cur] \in SUBSET AllLabels
  BY <1>2, HasIssue DEF OneIssue, IInv, TypeOK
<1>4. PICK L : /\ labels' = [labels EXCEPT ![cur] = L]
               /\ \/ L \in HookOutcomes(labels[cur], pr[cur] = "open")
                  \/ L \in HookRemnants(labels[cur])
  BY DEF Hook
<1>5. L \in SUBSET AllLabels /\ (Progress \in L => Progress \in labels[cur])
  <2>1. Progress # Done /\ Progress # Blocked
    BY DEF Progress, Blocked, Done
  <2> QED
    BY <1>3, <1>4, <2>1, LabelNames DEF HookOutcomes, HookRemnants, Edit
<1>6. labels' \in [Issues -> SUBSET AllLabels] /\ OnlyClaims
  BY <1>3, <1>4, <1>5, NewLabels DEF IInv
<1> QED
  BY <1>1, <1>2, <1>6, LabelStep DEF Hook, disk, history

LEMMA OutcomeInv == IInv /\ Outcome => IInv'
<1> SUFFICES ASSUME IInv, Outcome PROVE IInv'
  OBVIOUS
<1>1. FaultStep
  BY FaultSeen DEF IInv, Outcome, FaultStep
<1>2. OneIssue
  BY DEF IInv, TypeOK, Outcome, OneIssue, Goto, Park, task, github, disk, unit, history, InHandPcs,
         Pcs, BeforeGate, Unclaimed, ParkClasses
<1> QED
  BY <1>1, <1>2, QuietStep DEF Outcome, github, disk, history

LEMMA PersistInv == IInv /\ Persist => IInv'
<1> SUFFICES ASSUME IInv, Persist PROVE IInv'
  OBVIOUS
<1>1. FaultStep
  BY FaultSeen DEF IInv, Persist, FaultStep
<1>2. OneIssue
  BY DEF IInv, TypeOK, VerdictsMerged, Persist, OneIssue, Goto, Park, task, disk, unit, history,
         InHandPcs, Pcs, BeforeGate, Unclaimed, ParkClasses
<1>3. cur \in Issues
  BY <1>2, HasIssue DEF OneIssue
<1>4. labels' \in [Issues -> SUBSET AllLabels] /\ OnlyClaims
  <2>1. labels[cur] \cup {Merged} \in SUBSET AllLabels
    BY <1>3, LabelNames DEF IInv, TypeOK
  <2>2. Progress # Merged
    BY DEF Progress, Merged
  <2>3. labels' \in {labels, [labels EXCEPT ![cur] = labels[cur] \cup {Merged}]}
    BY DEF Persist
  <2> QED
    BY <1>3, <2>1, <2>2, <2>3, SameLabels, NewLabels DEF IInv
<1> QED
  BY <1>1, <1>2, <1>4, LabelStep DEF Persist, disk, history

LEMMA ParkDecideInv == IInv /\ ParkDecide => IInv'
<1> SUFFICES ASSUME IInv, ParkDecide PROVE IInv'
  OBVIOUS
<1>1. FaultStep
  BY FaultSeen DEF IInv, ParkDecide, FaultStep
<1>2. /\ cur \in Issues /\ labels[cur] \in SUBSET AllLabels /\ failures \in [Issues -> 0..MaxFailures]
      /\ pc = "park" /\ pc' = "edit" /\ UNCHANGED <<cur, park>>
  BY HasIssue DEF ParkDecide, IInv, TypeOK, InHandPcs, Pcs
<1>3. PICK readable \in BOOLEAN, exhausted \in BOOLEAN :
        /\ failures' = [failures EXCEPT ![cur] =
                          IF park = "CHARGED" /\ @ < MaxFailures THEN failures[cur] + 1 ELSE @]
        /\ edit' = [add       |-> ParkAdd(park, readable, labels[cur], exhausted),
                    remove    |-> ParkRemove(park, readable, labels[cur], exhausted),
                    exhausted |-> exhausted]
  BY DEF ParkDecide
<1>4. failures' \in [Issues -> 0..MaxFailures]
  BY <1>2, <1>3, Constants
<1>5. edit' \in Edits /\ Progress \in edit'.remove /\ Progress \notin edit'.add
  <2>1. park \in ParkClasses
    BY <1>2 DEF IInv, ParkOK
  <2> QED
    BY <1>2, <1>3, <2>1, ParkTypes, ParkEditShape
<1>6. OneIssue
  BY <1>2, <1>5 DEF IInv, TypeOK, ParkDecide, OneIssue, github, unit, history,
         InHandPcs, Pcs, BeforeGate, Unclaimed, ParkClasses
<1>7. /\ UNCHANGED <<labels, pr, redispatches, launches>>
      /\ pr \in [Issues -> {"none", "open", "merged"}] /\ launches \in [Issues -> Nat]
      /\ redispatches \in [Issues -> 0..MaxRedispatch]
  BY DEF ParkDecide, github, history, IInv, TypeOK
<1> QED
  BY <1>1, <1>4, <1>6, <1>7, SameLabels, IssueStep DEF IInv, OneIssue

-----------------------------------------------------------------------------
(* The end of a unit, however it ends: the locals are gone, the branch and *)
(* the labels are not.                                                     *)

LEMMA LeaveInv ==
  ASSUME IInv, Leave, FaultStep, UNCHANGED <<blockedBy, trailers>>,
         TypeOK', DoneIsMerged',
         crashes' = 0 /\ ~ CallFailed("edit")' => Orphans' = {}
  PROVE  IInv'
<1>1. NoSched' /\ pc' = "idle" /\ cur' = NoIssue
  BY DEF Leave, NoSched
<1>2. SchedulerOK' /\ GraphOfUnit'
  BY <1>1 DEF Leave, SchedulerOK, GraphOfUnit
<1>3. InHand' /\ MergedOnce' /\ ParkOK' /\ ProgressOK'
  BY <1>1 DEF Leave, InHand, MergedOnce, ParkOK, ProgressOK, BeforeGate, Unclaimed
<1>4. VerdictsMerged'
  BY <1>1 DEF Leave, VerdictsMerged, Fresh
<1>5. MergeOrder'
  BY FaultsGrow DEF IInv, MergeOrder
<1> QED
  BY <1>2, <1>3, <1>4, <1>5 DEF IInv

LEMMA ClaimInv == IInv /\ Claim => IInv'
<1> SUFFICES ASSUME IInv, Claim PROVE IInv'
  OBVIOUS
<1>1. pc = "claim" /\ cur \in Issues /\ UNCHANGED <<blockedBy, pr, unitPR, disk, history>>
  BY HasIssue DEF Claim, InHandPcs, Pcs
<1>2. CASE LabelEdit(cur, {Progress}, {Ready}) /\ Goto("launch") /\ UNCHANGED <<unit, pending, scheduler>>
  <2>1. labels' \in [Issues -> SUBSET AllLabels] /\ OnlyClaims /\ FaultStep
    <3>1. pc' \notin Unclaimed /\ {Progress} \in SUBSET AllLabels
      BY <1>2, LabelNames DEF Goto, Unclaimed
    <3> QED
      BY <1>1, <1>2, <3>1, EditedLabels DEF IInv
  <2>2. OneIssue
    BY <1>1, <1>2 DEF IInv, TypeOK, OneIssue, Goto, task, disk, unit, history, InHandPcs, Pcs,
         BeforeGate, Unclaimed, ParkClasses
  <2> QED
    BY <1>1, <2>1, <2>2, LabelStep DEF disk, history
<1>3. CASE CheckoutFails /\ UNCHANGED labels
  <2>1. FaultStep /\ Leave
    BY <1>3, FaultSeen DEF IInv, CheckoutFails
  <2>2. TypeOK'
    BY <1>1, <1>3, <2>1, FaultsGrow, LeaveTypes DEF IInv, TypeOK, disk, history, Pcs
  <2>3. DoneIsMerged'
    BY <1>1, <2>1 DEF IInv, VerdictsMerged, DoneIsMerged, Leave, disk
  <2>4. crashes' = 0 /\ ~ CallFailed("edit")' => Orphans' = {}
    BY <1>1, <1>3, <2>1, FaultsGrow DEF IInv, ProgressOK, Unclaimed, Orphans, history
  <2> QED
    BY <1>1, <1>3, <2>1, <2>2, <2>3, <2>4, LeaveInv DEF disk
<1> QED
  BY <1>2, <1>3 DEF Claim

LEMMA CrashInv == IInv /\ Crash => IInv'
<1> SUFFICES ASSUME IInv, Crash PROVE IInv'
  OBVIOUS
<1>1. FaultStep /\ Leave /\ UNCHANGED <<github, disk, launches, acts, faults>>
  BY DEF Crash, FaultStep, Succeeds
<1>2. crashes' \in 0..MaxCrashes /\ crashes' # 0
  BY Constants DEF Crash, IInv, TypeOK
<1>3. TypeOK'
  BY <1>1, <1>2, LeaveTypes DEF IInv, TypeOK, github, disk, Pcs
<1>4. DoneIsMerged'
  BY <1>1 DEF IInv, VerdictsMerged, DoneIsMerged, Leave, github, disk
<1> QED
  BY <1>1, <1>2, <1>3, <1>4, LeaveInv DEF github, disk

LEMMA CompleteInv == IInv /\ Complete => IInv'
<1> SUFFICES ASSUME IInv, Complete PROVE IInv'
  OBVIOUS
<1>1. FaultStep
  BY FaultSeen DEF IInv, Complete, FaultStep
<1>2. Leave /\ UNCHANGED <<blockedBy, labels, disk, history>> /\ pc = "complete"
  BY DEF Complete
<1>3. done \subseteq Issues /\ done \subseteq trailers
  BY HandedAreIssues DEF IInv, VerdictsMerged, DoneIsMerged
<1>4. /\ pr' \in [Issues -> {"none", "open", "merged"}]
      /\ unitPR' \in [open : BOOLEAN, closes : SUBSET Issues]
      /\ unitPR'.closes \subseteq trailers
  <2>1. Published \in [Issues -> {"none", "open", "merged"}]
    BY DEF Published, IInv, TypeOK
  <2>2. /\ unitPR \in [open : BOOLEAN, closes : SUBSET Issues]
        /\ unitPR.closes \subseteq trailers
        /\ pr \in [Issues -> {"none", "open", "merged"}]
    BY DEF IInv, TypeOK, VerdictsMerged, DoneIsMerged
  <2>3. pr' \in {pr, Published} /\ unitPR' \in {unitPR, [open |-> TRUE, closes |-> done]}
    BY DEF Complete, UnitPullRequest
  <2>4. [open |-> TRUE, closes |-> done] \in [open : BOOLEAN, closes : SUBSET Issues]
    BY <1>3
  <2>5. pr' \in [Issues -> {"none", "open", "merged"}]
    BY <2>1, <2>2, <2>3
  <2>6. CASE unitPR' = unitPR
    BY <2>2, <2>5, <2>6
  <2>7. CASE unitPR' = [open |-> TRUE, closes |-> done]
    BY <1>3, <2>4, <2>5, <2>7
  <2> QED
    BY <2>3, <2>6, <2>7
<1>5. TypeOK'
  BY <1>1, <1>2, <1>4, FaultsGrow, LeaveTypes DEF IInv, TypeOK, disk, history, Pcs
<1>6. DoneIsMerged'
  BY <1>2, <1>4 DEF DoneIsMerged, Leave, disk
<1>7. crashes' = 0 /\ ~ CallFailed("edit")' => Orphans' = {}
  <2>1. cur \notin Issues
    BY <1>2, Constants DEF IInv, TypeOK
  <2> QED
    BY <1>1, <1>2, <2>1, FaultsGrow DEF IInv, ProgressOK, Unclaimed, Orphans, history
<1> QED
  BY <1>1, <1>2, <1>5, <1>6, <1>7, LeaveInv DEF disk

LEMMA HumanInv ==
  ASSUME IInv, NEW i \in Issues, Human(i)
  PROVE  IInv'
<1>1. PICK act \in HumanActs :
        /\ labels' = [labels EXCEPT ![i] = HumanEdit(act, @)]
        /\ launches' = IF act \in {"greenlight", "requeue"} THEN [launches EXCEPT ![i] = 0] ELSE launches
        /\ acts' = Append(acts, act)
  BY DEF Human
<1>2. Len(acts) < MaxActs /\ FaultStep
      /\ UNCHANGED <<blockedBy, pr, unitPR, disk, pc, unit, pending, task, scheduler, crashes, faults>>
  BY DEF Human, FaultStep, Succeeds
<1>3. HumanEdit(act, labels[i]) \in SUBSET AllLabels
  <2>1. labels[i] \in SUBSET AllLabels
    BY DEF IInv, TypeOK
  <2>2. {Ready} \in SUBSET AllLabels /\ {Blocked} \in SUBSET AllLabels
    BY LabelNames
  <2> QED
    BY <2>1, <2>2, EditTypes DEF HumanEdit
<1>4. Progress \in HumanEdit(act, labels[i]) => Progress \in labels[i]
  BY DEF HumanEdit, Edit, Progress, Ready, Blocked
<1>5. labels' \in [Issues -> SUBSET AllLabels] /\ Orphans' \subseteq Orphans
  BY <1>1, <1>3, <1>4 DEF IInv, TypeOK, Orphans
<1>6. acts' \in Seq(Acts) /\ Len(acts') <= MaxActs /\ launches' \in [Issues -> Nat]
  <2>1. act \in Acts /\ acts \in Seq(Acts) /\ launches \in [Issues -> Nat] /\ Len(acts) \in Nat
    BY Constants DEF IInv, TypeOK
  <2> QED
    BY <1>1, <1>2, <2>1, Constants
<1>7. TypeOK'
  BY <1>2, <1>5, <1>6 DEF IInv, TypeOK, disk, unit, task
<1>8. SchedulerOK'
  BY <1>2, SP!StutterInv DEF IInv, SchedulerOK, NoSched, SP!vars, scheduler, unit
<1>9. (GraphOfUnit /\ InHand /\ VerdictsMerged /\ MergeOrder /\ MergedOnce /\ ParkOK)'
  BY <1>2 DEF IInv, GraphOfUnit, InHand, VerdictsMerged, DoneIsMerged, MergeOrder, MergedOnce, Waiting,
              ParkOK, NoSched, BeforeGate, CallFailed, disk, unit, task, scheduler
<1>10. ProgressOK'
  BY <1>2, <1>5 DEF IInv, ProgressOK, CallFailed, task
<1> QED
  BY <1>7, <1>8, <1>9, <1>10 DEF IInv

-----------------------------------------------------------------------------
(* The start of a unit.                                                    *)

LEMMA TickInv == IInv /\ Tick => IInv'
<1> SUFFICES ASSUME IInv, Tick PROVE IInv'
  OBVIOUS
<1>1. /\ pc = "idle" /\ pc' \in {"recheck", "begin"} /\ NoSched /\ NoSched'
      /\ UNCHANGED <<github, disk, class, pending, task, scheduler, history, faults>>
  BY DEF Tick, Goto, NoSched
<1>2. TypeOK'
  BY TickTypes
<1>3. (SchedulerOK /\ GraphOfUnit /\ InHand /\ VerdictsMerged /\ MergeOrder)'
  BY <1>1 DEF IInv, SchedulerOK, GraphOfUnit, InHand, VerdictsMerged, DoneIsMerged, MergeOrder,
              CallFailed, github, disk, task, scheduler
<1>4. (MergedOnce /\ ParkOK /\ ProgressOK)'
  BY <1>1 DEF IInv, MergedOnce, ParkOK, ProgressOK, BeforeGate, Unclaimed, Orphans, CallFailed,
              github, task, history
<1> QED
  BY <1>2, <1>3, <1>4 DEF IInv

LEMMA RecheckInv == IInv /\ Recheck => IInv'
<1> SUFFICES ASSUME IInv, Recheck PROVE IInv'
  OBVIOUS
<1>1. /\ pc = "recheck" /\ pc' \in {"idle", "begin"} /\ NoSched /\ NoSched'
      /\ UNCHANGED <<blockedBy, pr, unitPR, disk, class, pending, task, scheduler, history>>
  BY DEF Recheck, Goto, NoSched
<1>2. FaultStep
  BY FaultSeen DEF Recheck, FaultStep, IInv
<1>3. Orphans' \subseteq Orphans
  <2>1. PICK T : \/ UNCHANGED labels
                 \/ labels' = [i \in Issues |-> IF i \in T THEN labels[i] \ {Progress} ELSE labels[i]]
    BY DEF Recheck
  <2> QED
    BY <2>1 DEF Orphans
<1>4. TypeOK'
  BY TickTypes
<1>5. (SchedulerOK /\ GraphOfUnit /\ InHand /\ VerdictsMerged /\ MergeOrder)'
  BY <1>1, <1>2, FaultsGrow DEF IInv, SchedulerOK, GraphOfUnit, InHand, VerdictsMerged, DoneIsMerged,
              MergeOrder, disk, task, scheduler
<1>6. (MergedOnce /\ ParkOK /\ ProgressOK)'
  BY <1>1, <1>2, <1>3, FaultsGrow DEF IInv, MergedOnce, ParkOK, ProgressOK, BeforeGate, Unclaimed,
              task, history
<1> QED
  BY <1>4, <1>5, <1>6 DEF IInv

\* prepare() accepted the graph of the members: nothing has been handed out.
LEMMA StartUnitInv ==
  ASSUME IInv, NEW m \in SUBSET Issues, StartUnit(m), ~ Leave, pc = "begin", FaultStep,
         UNCHANGED <<github, disk, history>>, m = Issues \/ CallFailed("members")', TypeOK'
  PROVE  IInv'
<1> DEFINE g == Sched!BuildDag(m, blockedBy)
<1>1. /\ Sched!Acyclic(g) /\ graph' = g /\ phase' = "prepared" /\ pc' = "setup"
      /\ UNCHANGED <<unit, pending, task, consumed, handed, done, parked>>
  BY DEF StartUnit
<1>2. /\ consumed = {} /\ handed = {} /\ done = {} /\ parked = {} /\ pending = {} /\ class = Fresh
      /\ cur = NoIssue /\ NoSched /\ ~ NoSched'
  BY <1>1 DEF IInv, SchedulerOK, NoSched, TypeOK
<1>3. DOMAIN g = m /\ g = [i \in m |-> blockedBy[i] \cap m] /\ g \in [m -> SUBSET m]
  BY DEF Sched!BuildDag
<1>4. SP!IInv'
  <2>1. SP!TypeOK'
    <3>1. graph' \in SP!Graphs
      BY <1>1, <1>3 DEF SP!Graphs
    <3> QED
      BY <1>1, <1>2, <3>1 DEF SP!TypeOK
  <2>2. SP!PreparedAcyclic'
    BY <1>1 DEF SP!PreparedAcyclic, SP!Acyclic, Sched!Acyclic
  <2>3. (SP!ConsumedInOrder /\ SP!WithheldParked /\ SP!OneTerminalState /\ SP!ParkedSubtreeCut)'
    BY <1>1, <1>2 DEF SP!ConsumedInOrder, SP!WithheldParked, SP!OneTerminalState, SP!ParkedSubtreeCut
  <2> QED
    BY <2>1, <2>2, <2>3 DEF SP!IInv
<1>5. SchedulerOK' /\ GraphOfUnit'
  BY <1>1, <1>2, <1>3, <1>4 DEF SchedulerOK, GraphOfUnit, github
<1>6. InHand' /\ MergedOnce' /\ ParkOK'
  BY <1>1, <1>2 DEF InHand, MergedOnce, ParkOK, BeforeGate, task
<1>7. VerdictsMerged' /\ MergeOrder'
  BY <1>1, <1>2, FaultsGrow DEF IInv, VerdictsMerged, DoneIsMerged, MergeOrder, unit, github, disk
<1>8. ProgressOK'
  BY <1>1, FaultsGrow DEF IInv, ProgressOK, Orphans, Unclaimed, github, history, task
<1> QED
  BY <1>5, <1>6, <1>7, <1>8 DEF IInv

LEMMA BeginInv == IInv /\ Begin => IInv'
<1> SUFFICES ASSUME IInv, Begin PROVE IInv'
  OBVIOUS
<1>1. pc = "begin" /\ UNCHANGED <<github, disk, history>>
  BY DEF Begin
<1>2. FaultStep
  BY FaultSeen DEF Begin, BlockersFail, FaultStep, IInv
<1>3. TypeOK'
  BY TickTypes
<1>4. CASE Leave
  <2>1. DoneIsMerged'
    BY <1>1, <1>4 DEF IInv, VerdictsMerged, DoneIsMerged, Leave, github, disk
  <2>2. crashes' = 0 /\ ~ CallFailed("edit")' => Orphans' = {}
    <3>1. cur \notin Issues
      BY <1>1, Constants DEF IInv, TypeOK
    <3> QED
      BY <1>1, <1>2, <3>1, FaultsGrow DEF IInv, ProgressOK, Unclaimed, Orphans, github, history
  <2> QED
    BY <1>1, <1>2, <1>3, <1>4, <2>1, <2>2, LeaveInv DEF github, disk
<1>5. CASE ~ Leave
  <2>1. PICK m \in SUBSET Issues : StartUnit(m) /\ (m = Issues \/ CallFailed("members")')
    BY <1>5, FaultSeen DEF Begin, BlockersFail, IInv, TypeOK, Orphans
  <2> QED
    BY <1>1, <1>2, <1>3, <1>5, <2>1, StartUnitInv
<1> QED
  BY <1>4, <1>5

\* Recovery reads what the crash left; the branch it needs exists.
LEMMA ReconstructInv == IInv /\ SetUp /\ ~ Leave => IInv'
<1> SUFFICES ASSUME IInv, SetUp, ~ Leave PROVE IInv'
  OBVIOUS
<1>1. /\ pc = "setup" /\ pc' = "frontier" /\ ~ NoSched /\ ~ NoSched'
      /\ UNCHANGED <<blockedBy, labels, unitPR, disk, greenlit, pending, scheduler, history, task>>
  BY DEF SetUp, BranchFails, Goto, NoSched
<1>2. FaultStep
  BY FaultSeen DEF SetUp, BranchFails, FaultStep, IInv
<1>3. PICK merged, open, unreadable :
        /\ Reconstruct(merged, open, unreadable)
        /\ merged = trailers \/ (merged = {} /\ CallFailed("provenance")')
        /\ pr' \in {pr, Published}
  BY FaultSeen DEF SetUp, BranchFails, IInv
<1>4. \A i \in Issues : /\ class'[i] \in {"fresh", "done", "gate", "parked", "redispatch"}
                        /\ class'[i] = "done" => i \in merged
                        /\ i \in DOMAIN graph /\ i \in merged => class'[i] \in {"done", "gate"}
  BY <1>3 DEF Reconstruct, Rule
<1>5. TypeOK'
  <2>1. Published \in [Issues -> {"none", "open", "merged"}]
    BY DEF Published, IInv, TypeOK
  <2>2. class' \in [Issues -> {"fresh", "done", "gate", "parked", "redispatch"}]
    BY <1>3, <1>4 DEF Reconstruct
  <2> QED
    BY <1>1, <1>2, <1>3, <2>1, <2>2, FaultsGrow DEF IInv, TypeOK, disk, task, history, Pcs
<1>6. SchedulerOK'
  BY <1>1, SP!StutterInv DEF IInv, SchedulerOK, SP!vars, scheduler
<1>7. (GraphOfUnit /\ InHand /\ MergeOrder /\ ParkOK)'
  BY <1>1, <1>2, FaultsGrow DEF IInv, GraphOfUnit, InHand, MergeOrder, ParkOK, scheduler, disk, task
<1>8. VerdictsMerged'
  BY <1>1, <1>3, <1>4 DEF IInv, VerdictsMerged, DoneIsMerged, scheduler, disk
<1>9. MergedOnce'
  <2>1. Waiting' \subseteq DOMAIN graph /\ Waiting' \subseteq Issues
    BY <1>1, HandedAreIssues DEF Waiting, IInv, InHand, scheduler
  <2> QED
    BY <1>1, <1>3, <1>4, <2>1 DEF MergedOnce, BeforeGate, disk
<1>10. ProgressOK'
  BY <1>1, <1>2, FaultsGrow DEF IInv, ProgressOK, Orphans, Unclaimed, history, task
<1> QED
  BY <1>5, <1>6, <1>7, <1>8, <1>9, <1>10 DEF IInv

LEMMA SetUpInv == IInv /\ SetUp => IInv'
<1> SUFFICES ASSUME IInv, SetUp, Leave PROVE IInv'
  BY ReconstructInv
<1>1. /\ pc = "setup" /\ pr' \in {pr, Published}
      /\ UNCHANGED <<blockedBy, labels, unitPR, disk, history>>
  BY DEF SetUp
<1>2. FaultStep
  BY FaultSeen DEF SetUp, BranchFails, FaultStep, IInv
<1>3. TypeOK'
  <2>1. Published \in [Issues -> {"none", "open", "merged"}]
    BY DEF Published, IInv, TypeOK
  <2> QED
    BY <1>1, <1>2, <2>1, FaultsGrow, LeaveTypes DEF IInv, TypeOK, disk, history, Pcs
<1>4. DoneIsMerged'
  BY <1>1 DEF IInv, VerdictsMerged, DoneIsMerged, Leave, disk
<1>5. crashes' = 0 /\ ~ CallFailed("edit")' => Orphans' = {}
  <2>1. cur \notin Issues
    BY <1>1, Constants DEF IInv, TypeOK
  <2> QED
    BY <1>1, <1>2, <2>1, FaultsGrow DEF IInv, ProgressOK, Unclaimed, Orphans, history
<1> QED
  BY <1>1, <1>2, <1>3, <1>4, <1>5, LeaveInv DEF disk

-----------------------------------------------------------------------------
(* The serial loop against the scheduler.                                  *)

LEMMA FrontierInv == IInv /\ Frontier => IInv'
<1> SUFFICES ASSUME IInv, Frontier PROVE IInv'
  OBVIOUS
<1>1. /\ pc = "frontier" /\ pc' \in {"pick", "complete"} /\ ~ NoSched /\ ~ NoSched' /\ cur = NoIssue
      /\ UNCHANGED <<github, disk, unit, history, faults, task>>
  BY DEF Frontier, Goto, NoSched, IInv, TypeOK
<1>2. phase = "prepared" /\ SP!IInv
  BY <1>1 DEF IInv, SchedulerOK
<1>3. \/ UNCHANGED <<pending, scheduler>>
      \/ Sched!GetReady /\ pending' = (pending \cup (handed' \ handed)) \ parked
  BY DEF Frontier
<1>4. /\ phase' = "prepared" /\ SP!IInv' /\ UNCHANGED <<graph, done, parked>>
      /\ handed \subseteq handed' /\ handed' \subseteq DOMAIN graph
  <2>1. CASE UNCHANGED <<pending, scheduler>>
    BY <1>1, <1>2, <2>1, SP!StutterInv, HandedAreIssues DEF SP!vars, scheduler
  <2>2. CASE Sched!GetReady
    <3>1. SP!IInv'
      BY <1>2, <2>2, SP!GetReadyInv
         DEF Sched!GetReady, SP!GetReady, Sched!RawReady, SP!RawReady, Sched!Nodes, SP!Nodes
    <3> QED
      BY <1>2, <2>2, <3>1, HandedAreIssues DEF Sched!GetReady, Sched!RawReady, Sched!Nodes
  <2> QED
    BY <1>3, <2>1, <2>2
<1>5. /\ pending' \subseteq handed' \ (done \cup parked)
      /\ pending' \subseteq pending \cup (handed' \ handed)
  BY <1>3, <1>4, HandedAreIssues DEF IInv, InHand, scheduler
<1>6. TypeOK'
  <2>1. pending' \subseteq Issues
    BY <1>1, <1>4, <1>5, HandedAreIssues
  <2> QED
    BY <1>1, <2>1 DEF IInv, TypeOK, github, disk, unit, history, task, Pcs
<1>7. (SchedulerOK /\ GraphOfUnit /\ InHand)'
  BY <1>1, <1>4, <1>5 DEF IInv, SchedulerOK, GraphOfUnit, InHand, CallFailed, github, task
<1>8. (VerdictsMerged /\ MergeOrder /\ ParkOK /\ ProgressOK)'
  BY <1>1, <1>4 DEF IInv, VerdictsMerged, DoneIsMerged, MergeOrder, ParkOK, ProgressOK, CallFailed,
                    Orphans, Unclaimed, github, disk, unit, history, task
<1>9. MergedOnce'
  <2>1. Waiting' \subseteq Waiting
    BY <1>4, <1>5 DEF Waiting
  <2> QED
    BY <1>1, <2>1 DEF IInv, MergedOnce, BeforeGate, CallFailed, disk, unit
<1> QED
  BY <1>6, <1>7, <1>8, <1>9 DEF IInv

LEMMA PickInv == IInv /\ Pick => IInv'
<1> SUFFICES ASSUME IInv, Pick PROVE IInv'
  OBVIOUS
<1>1. PICK i \in pending :
        /\ pending' = pending \ {i}
        /\ \/ UNCHANGED scheduler /\ NextIssue
           \/ class[i] = "done" /\ MarkDone(i) /\ NextIssue
           \/ /\ Actionable(i) /\ class[i] # "done"
              /\ cur' = i /\ UNCHANGED <<edit, scheduler>>
              /\ pc' = CASE class[i] = "parked"     -> "park"
                         [] class[i] = "gate"       -> "reentry"
                         [] class[i] = "redispatch" -> "redispatch"
                         [] OTHER                   -> "predispatch"
              /\ park' = IF class[i] = "parked" THEN "STATE_INTACT" ELSE NoPark
  BY DEF Pick
<1>2. /\ pc = "pick" /\ ~ NoSched /\ cur = NoIssue
      /\ UNCHANGED <<github, disk, unit, history, faults>>
  BY DEF Pick, NoSched, IInv, TypeOK
<1>3. phase = "prepared" /\ SP!IInv
  BY <1>2 DEF IInv, SchedulerOK
<1>4. i \in Issues /\ i # NoIssue /\ i \in handed /\ i \notin done /\ i \notin parked
  BY Constants DEF IInv, TypeOK, InHand
<1>5. ProgressOK' <=> pc' # "edit" \/ (Progress \in edit'.remove /\ Progress \notin edit'.add)
  <2>1. crashes = 0 /\ ~ CallFailed("edit") => Orphans = {}
    BY <1>2, Constants DEF IInv, ProgressOK, Orphans, Unclaimed
  <2> QED
    BY <1>2, <2>1 DEF ProgressOK, CallFailed, Orphans, github, history
<1>6. CASE NextIssue
  <2>1. pc' = "frontier" /\ cur' = NoIssue /\ park' = NoPark /\ edit' = NoEdit /\ ~ NoSched'
    BY <1>6 DEF NextIssue, NoSched
  <2>2. /\ phase' = "prepared" /\ SP!IInv' /\ UNCHANGED <<graph, handed, parked>>
        /\ done \subseteq done' /\ done' \subseteq done \cup {i} /\ (i \in done' => class[i] = "done")
    <3>1. CASE UNCHANGED scheduler
      BY <1>3, <1>4, <3>1, SP!StutterInv DEF SP!vars, scheduler
    <3>2. CASE class[i] = "done" /\ MarkDone(i)
      <4>1. SP!MarkDone(i)
        BY <1>3, <1>4, <3>2 DEF SP!MarkDone, MarkDone, SP!InFlight, SP!Terminal
      <4>2. SP!IInv'
        BY <1>3, <1>4, <4>1, SP!MarkDoneInv
      <4> QED
        BY <1>3, <3>2, <4>2 DEF MarkDone
    <3> QED
      BY <1>1, <2>1, <3>1, <3>2, <1>4
  <2>3. TypeOK'
    BY <1>1, <1>2, <2>1, NoEditType DEF IInv, TypeOK, github, disk, unit, history, Pcs
  <2>4. (SchedulerOK /\ GraphOfUnit /\ InHand /\ MergeOrder /\ ParkOK /\ ProgressOK)'
    BY <1>1, <1>2, <1>5, <2>1, <2>2 DEF IInv, SchedulerOK, GraphOfUnit, InHand, MergeOrder, ParkOK,
       CallFailed, github, disk
  <2>5. VerdictsMerged'
    BY <1>2, <1>4, <2>1, <2>2 DEF IInv, VerdictsMerged, DoneIsMerged, github, disk, unit
  <2>6. MergedOnce'
    BY <1>1, <1>2, <2>1, <2>2 DEF IInv, MergedOnce, Waiting, BeforeGate, CallFailed, disk, unit
  <2> QED
    BY <2>3, <2>4, <2>5, <2>6 DEF IInv
<1>7. CASE ~ NextIssue
  <2>1. /\ class[i] # "done" /\ cur' = i /\ UNCHANGED <<edit, scheduler>>
        /\ pc' \in {"park", "reentry", "redispatch", "predispatch"}
        /\ class[i] = "gate" => pc' = "reentry"
        /\ park' \in {"STATE_INTACT", NoPark} /\ (pc' = "park" => park' = "STATE_INTACT")
        /\ ~ NoSched'
    BY <1>1, <1>7 DEF NoSched
  <2>2. TypeOK'
    BY <1>1, <1>2, <1>4, <2>1 DEF IInv, TypeOK, github, disk, unit, history, Pcs, ParkClasses
  <2>3. SchedulerOK'
    BY <1>3, <2>1, SP!StutterInv DEF SchedulerOK, SP!vars, scheduler
  <2>4. (GraphOfUnit /\ InHand /\ MergeOrder /\ ParkOK /\ ProgressOK)'
    BY <1>1, <1>2, <1>4, <1>5, <2>1 DEF IInv, GraphOfUnit, InHand, MergeOrder, ParkOK, ParkClasses,
       CallFailed, github, disk, scheduler
  <2>5. VerdictsMerged'
    BY <1>2, <2>1 DEF IInv, VerdictsMerged, DoneIsMerged, github, disk, unit, scheduler
  <2>6. MergedOnce'
    <3>1. ~ CallFailed("provenance") => i \notin trailers \/ class[i] \in {"done", "gate"}
      BY <1>2 DEF IInv, MergedOnce, Waiting
    <3> QED
      BY <1>1, <1>2, <2>1, <3>1 DEF IInv, MergedOnce, Waiting, BeforeGate, CallFailed, disk, unit, scheduler
  <2> QED
    BY <2>2, <2>3, <2>4, <2>5, <2>6 DEF IInv
<1> QED
  BY <1>6, <1>7

\* Unless the members could not be listed, the graph keeps every blocker.
LEMMA GraphOfMilestone ==
  ASSUME IInv, cur \in Issues, ~ NoSched, ~ CallFailed("members")
  PROVE  blockedBy[cur] = graph[cur]
<1>1. graph = [i \in Issues |-> blockedBy[i] \cap Issues]
  BY DEF IInv, GraphOfUnit
<1>2. blockedBy \in [Issues -> SUBSET Issues]
  BY Constants DEF IInv, TypeOK
<1>3. blockedBy[cur] \subseteq Issues
  BY <1>2
<1> QED
  BY <1>1, <1>3

LEMMA GateInv == IInv /\ Gate => IInv'
<1> SUFFICES ASSUME IInv, Gate PROVE IInv'
  OBVIOUS
<1>1. /\ pc \in {"gate", "regate"} /\ FaultStep
      /\ UNCHANGED <<github, failures, redispatches, unit, pending, scheduler, history, faults>>
  BY DEF Gate, FaultStep, Succeeds
<1>2. cur \in Issues /\ cur # NoIssue /\ ~ NoSched /\ pc # "setup"
  BY <1>1, HasIssue DEF InHandPcs, Pcs
<1>3. CASE UNCHANGED trailers /\ \E c \in ParkClasses : Park(c)
  <2>1. OneIssue
    BY <1>1, <1>3 DEF IInv, TypeOK, OneIssue, Park, github, unit, history, InHandPcs,
         Pcs, BeforeGate, Unclaimed, ParkClasses
  <2> QED
    BY <1>1, <1>3, <2>1, QuietStep DEF github, history
<1>4. CASE trailers' = trailers \cup {cur} /\ Goto("persist")
  <2>1. pc' = "persist" /\ UNCHANGED <<cur, park, edit>> /\ ~ NoSched'
    BY <1>4 DEF Goto, task, NoSched
  <2>2. TypeOK'
    BY <1>1, <1>2, <1>4, <2>1 DEF IInv, TypeOK, github, unit, history, Pcs
  <2>3. SchedulerOK'
    BY <1>1, <1>2, <2>1, SP!StutterInv DEF IInv, SchedulerOK, SP!vars, scheduler
  <2>4. (GraphOfUnit /\ InHand /\ ParkOK /\ ProgressOK)'
    BY <1>1, <1>2, <2>1 DEF IInv, GraphOfUnit, InHand, ParkOK, ProgressOK, CallFailed, Orphans, Unclaimed,
         github, scheduler, history
  <2>5. VerdictsMerged'
    BY <1>1, <1>4, <2>1 DEF IInv, VerdictsMerged, DoneIsMerged, github, unit, scheduler
  <2>6. MergeOrder'
    <3>1. graph[cur] \subseteq trailers
      BY <1>2, HandedAreIssues DEF IInv, InHand, SchedulerOK, SP!IInv, SP!ConsumedInOrder, VerdictsMerged,
           DoneIsMerged
    <3>2. ~ CallFailed("members") => blockedBy[cur] = graph[cur]
      BY <1>2, GraphOfMilestone
    <3> QED
      BY <1>1, <1>4, <3>1, <3>2 DEF IInv, MergeOrder, CallFailed, github
  <2>7. MergedOnce'
    BY <1>1, <1>2, <1>4, <2>1 DEF IInv, InHand, MergedOnce, Waiting, BeforeGate, CallFailed, unit, scheduler
  <2> QED
    BY <2>2, <2>3, <2>4, <2>5, <2>6, <2>7 DEF IInv
<1> QED
  BY <1>3, <1>4 DEF Gate, ParkClasses

\* An edit that takes agent-in-progress off the issue in hand leaves nothing in
\* progress, unless it failed.
LEMMA Released ==
  ASSUME IInv, cur \in Issues, UNCHANGED crashes,
         NEW add \in SUBSET AllLabels, NEW remove,
         LabelEdit(cur, add, remove), Progress \in remove, Progress \notin add
  PROVE  /\ labels' \in [Issues -> SUBSET AllLabels] /\ FaultStep
         /\ crashes' = 0 /\ ~ CallFailed("edit")' => Orphans' = {}
<1>1. labels' \in [Issues -> SUBSET AllLabels] /\ FaultStep
  BY LabelEditTypes DEF IInv
<1>2. CASE Fails("edit")
  BY <1>1, <1>2, FaultSeen DEF IInv
<1>3. CASE Succeeds /\ labels' = [labels EXCEPT ![cur] = Edit(@, add, remove)]
  <2>1. \A i \in Issues : Progress \in labels'[i] => i # cur /\ Progress \in labels[i]
    BY <1>3 DEF Edit, IInv, TypeOK
  <2>2. crashes = 0 /\ ~ CallFailed("edit") => Orphans \subseteq {cur}
    BY DEF IInv, ProgressOK
  <2> QED
    BY <1>1, <1>3, <2>1, <2>2 DEF Orphans, Succeeds, CallFailed
<1> QED
  BY <1>2, <1>3 DEF LabelEdit

LEMMA MarkMergedInv == IInv /\ MarkMerged => IInv'
<1> SUFFICES ASSUME IInv, MarkMerged PROVE IInv'
  OBVIOUS
<1>1. /\ pc = "merged" /\ LabelEdit(cur, {}, {Progress, Done}) /\ MarkDone(cur) /\ NextIssue
      /\ failures' = [failures EXCEPT ![cur] = 0]
      /\ UNCHANGED <<blockedBy, pr, unitPR, trailers, redispatches, unit, pending, history>>
  BY DEF MarkMerged
<1>2. /\ cur \in Issues /\ cur # NoIssue /\ ~ NoSched /\ ~ NoSched' /\ pc' = "frontier"
      /\ cur' = NoIssue /\ park' = NoPark /\ edit' = NoEdit
  BY <1>1, HasIssue DEF InHandPcs, Pcs, NextIssue, NoSched
<1>3. cur \in handed \ pending /\ cur \notin done \cup parked /\ cur \in trailers
  BY <1>1, <1>2 DEF IInv, InHand, VerdictsMerged
<1>4. /\ labels' \in [Issues -> SUBSET AllLabels] /\ FaultStep
      /\ crashes' = 0 /\ ~ CallFailed("edit")' => Orphans' = {}
  BY <1>1, <1>2, Released DEF history
<1>5. TypeOK'
  <2>1. failures' \in [Issues -> 0..MaxFailures]
    BY <1>1, <1>2, Constants DEF IInv, TypeOK
  <2> QED
    BY <1>1, <1>2, <1>4, <2>1, FaultsGrow, NoEditType DEF IInv, TypeOK, unit, history, Pcs
<1>6. SchedulerOK'
  <2>1. phase = "prepared" /\ SP!IInv
    BY <1>2 DEF IInv, SchedulerOK
  <2>2. SP!MarkDone(cur)
    BY <1>1, <1>3, <2>1 DEF SP!MarkDone, MarkDone, SP!InFlight, SP!Terminal
  <2>3. SP!IInv'
    BY <1>2, <2>1, <2>2, SP!MarkDoneInv
  <2> QED
    BY <1>1, <1>2, <2>1, <2>3 DEF SchedulerOK, MarkDone
<1>7. (GraphOfUnit /\ InHand /\ MergeOrder /\ ParkOK)'
  BY <1>1, <1>2, <1>3, <1>4, FaultsGrow DEF IInv, GraphOfUnit, InHand, MergeOrder, ParkOK, MarkDone
<1>8. VerdictsMerged'
  BY <1>1, <1>2, <1>3 DEF IInv, VerdictsMerged, DoneIsMerged, MarkDone, unit
<1>9. MergedOnce'
  BY <1>1, <1>2, <1>4, FaultsGrow DEF IInv, MergedOnce, Waiting, BeforeGate, MarkDone, unit
<1>10. ProgressOK'
  BY <1>2, <1>4 DEF ProgressOK
<1> QED
  BY <1>5, <1>6, <1>7, <1>8, <1>9, <1>10 DEF IInv

LEMMA ParkEditInv == IInv /\ ParkEdit => IInv'
<1> SUFFICES ASSUME IInv, ParkEdit PROVE IInv'
  OBVIOUS
<1>1. /\ pc = "edit" /\ LabelEdit(cur, edit.add, edit.remove) /\ MarkParked(cur)
      /\ Goto("verify") \/ NextIssue
      /\ UNCHANGED <<blockedBy, pr, unitPR, disk, unit, pending, history>>
  BY DEF ParkEdit
<1>2. /\ cur \in Issues /\ cur # NoIssue /\ ~ NoSched /\ ~ NoSched'
      /\ \/ pc' = "frontier" /\ cur' = NoIssue
         \/ pc' = "verify" /\ cur' = cur
  BY <1>1, HasIssue DEF InHandPcs, Pcs, NextIssue, NoSched, Goto, task
<1>3. cur \in handed \ pending /\ cur \notin done \cup parked
  BY <1>1, <1>2 DEF IInv, InHand
<1>4. /\ labels' \in [Issues -> SUBSET AllLabels] /\ FaultStep
      /\ crashes' = 0 /\ ~ CallFailed("edit")' => Orphans' = {}
  <2>1. Progress \in edit.remove /\ Progress \notin edit.add /\ edit.add \in SUBSET AllLabels
    BY <1>1 DEF IInv, ProgressOK, TypeOK, Edits
  <2> QED
    BY <1>1, <1>2, <2>1, Released DEF history
<1>5. TypeOK'
  <2>1. park' \in ParkClasses \cup {NoPark} /\ edit' \in Edits
    BY <1>1, NoEditType DEF IInv, TypeOK, NextIssue, Goto, task
  <2> QED
    BY <1>1, <1>2, <1>4, <2>1, FaultsGrow DEF IInv, TypeOK, unit, disk, history, Pcs
<1>6. phase = "prepared" /\ SP!IInv
  BY <1>2 DEF IInv, SchedulerOK
<1>7. SchedulerOK'
  <2>1. cur \in DOMAIN graph
    BY <1>3, HandedAreIssues
  <2>2. SP!MarkParked(cur)
    BY <1>1, <1>6, <2>1 DEF SP!MarkParked, MarkParked, SP!Nodes, SP!Subtree, Sched!Subtree,
       SP!Live, Sched!Live, SP!Terminal, Sched!Terminal, Sched!Nodes, SP!ClosedDownstream,
       Sched!ClosedDownstream, SP!Dependents, Sched!Dependents
  <2>3. SP!IInv'
    BY <1>2, <1>6, <2>2, SP!MarkParkedInv
  <2> QED
    BY <1>1, <1>2, <1>6, <2>3 DEF SchedulerOK, MarkParked
<1>8. InHand'
  <2>1. pending \cap Sched!Subtree(cur) = {}
    BY <1>3, <1>6, ParkedAreNotHanded, HandedAreIssues DEF IInv, InHand
  <2> QED
    BY <1>1, <1>2, <1>3, <2>1 DEF IInv, InHand, MarkParked
<1>9. (GraphOfUnit /\ MergeOrder /\ ParkOK)'
  BY <1>1, <1>2, <1>4, FaultsGrow DEF IInv, GraphOfUnit, MergeOrder, ParkOK, MarkParked, disk
<1>10. VerdictsMerged'
  BY <1>1, <1>2 DEF IInv, VerdictsMerged, DoneIsMerged, MarkParked, unit, disk
<1>11. MergedOnce'
  BY <1>1, <1>2, <1>4, FaultsGrow DEF IInv, MergedOnce, Waiting, BeforeGate, MarkParked, unit, disk
<1>12. ProgressOK'
  BY <1>2, <1>4 DEF ProgressOK
<1> QED
  BY <1>5, <1>7, <1>8, <1>9, <1>10, <1>11, <1>12 DEF IInv

LEMMA ParkVerifyInv == IInv /\ ParkVerify => IInv'
<1> SUFFICES ASSUME IInv, ParkVerify PROVE IInv'
  OBVIOUS
<1>1. /\ pc = "verify" /\ NextIssue
      /\ UNCHANGED <<github, trailers, redispatches, unit, pending, scheduler, history>>
  BY DEF ParkVerify
<1>2. FaultStep
  BY FaultSeen DEF ParkVerify, FaultStep, IInv
<1>3. /\ cur \in Issues /\ ~ NoSched /\ ~ NoSched' /\ pc' = "frontier" /\ cur' = NoIssue
      /\ park' = NoPark /\ edit' = NoEdit
  BY <1>1, HasIssue DEF InHandPcs, Pcs, NextIssue, NoSched
<1>4. TypeOK'
  <2>1. failures' \in [Issues -> 0..MaxFailures]
    <3>1. failures \in [Issues -> 0..MaxFailures] /\ 0 \in 0..MaxFailures
      BY Constants DEF IInv, TypeOK
    <3>2. failures' = failures \/ failures' = [failures EXCEPT ![cur] = 0]
      BY <3>1 DEF ParkVerify
    <3> QED
      BY <1>3, <3>1, <3>2
  <2> QED
    BY <1>1, <1>2, <1>3, <2>1, FaultsGrow, NoEditType DEF IInv, TypeOK, github, unit, history, Pcs
<1>5. SchedulerOK'
  BY <1>1, <1>3, SP!StutterInv DEF IInv, SchedulerOK, SP!vars, scheduler
<1>6. (GraphOfUnit /\ InHand /\ VerdictsMerged /\ MergeOrder /\ MergedOnce /\ ParkOK)'
  BY <1>1, <1>2, <1>3, FaultsGrow DEF IInv, GraphOfUnit, InHand, VerdictsMerged, DoneIsMerged, MergeOrder,
     MergedOnce, Waiting, BeforeGate, ParkOK, github, unit, scheduler
<1>7. ProgressOK'
  BY <1>1, <1>2, <1>3, FaultsGrow DEF IInv, ProgressOK, Orphans, Unclaimed, github, history
<1> QED
  BY <1>4, <1>5, <1>6, <1>7 DEF IInv

-----------------------------------------------------------------------------
LEMMA InitInv == Init => IInv
<1> SUFFICES ASSUME Init PROVE IInv
  OBVIOUS
<1>1. NoSched /\ cur = NoIssue /\ pc = "idle"
  BY DEF Init, NoSched
<1>2. TypeOK
  <2>1. labels \in [Issues -> SUBSET AllLabels]
    BY LabelNames DEF Init
  <2>2. faults = <<>> /\ acts = <<>>
    BY DEF Init
  <2>3. faults \in Seq(Calls) /\ Len(faults) = 0 /\ acts \in Seq(Acts) /\ Len(acts) = 0
    BY <2>2
  <2> QED
    BY <1>1, <2>1, <2>3, Constants, NoEditType DEF Init, TypeOK, Pcs, Fresh, NoUnitPR
<1>3. Orphans = {}
  BY DEF Init, Orphans, Progress, Ready
<1> QED
  BY <1>1, <1>2, <1>3 DEF Init, IInv, SchedulerOK, GraphOfUnit, InHand, VerdictsMerged, DoneIsMerged, Fresh,
     MergeOrder, MergedOnce, BeforeGate, ParkOK, ProgressOK, NoUnitPR

LEMMA IdleInv == IInv /\ UNCHANGED vars => IInv'
<1> SUFFICES ASSUME IInv, UNCHANGED vars PROVE IInv'
  OBVIOUS
<1>1. UNCHANGED <<github, disk, pc, unit, pending, task, scheduler, history, faults>>
  BY DEF vars
<1>2. TypeOK'
  BY <1>1 DEF IInv, TypeOK, github, disk, unit, task, history
<1>3. SchedulerOK'
  BY <1>1, SP!StutterInv DEF IInv, SchedulerOK, NoSched, SP!vars, scheduler, unit
<1>4. (GraphOfUnit /\ InHand /\ VerdictsMerged /\ MergeOrder /\ MergedOnce /\ ParkOK /\ ProgressOK)'
  BY <1>1 DEF IInv, GraphOfUnit, InHand, VerdictsMerged, DoneIsMerged, MergeOrder, MergedOnce, Waiting,
              ParkOK, NoSched, BeforeGate, CallFailed, ProgressOK, Orphans, github, disk, unit, task,
              scheduler, history
<1> QED
  BY <1>2, <1>3, <1>4 DEF IInv

LEMMA NextInv == IInv /\ [Next]_vars => IInv'
BY TickInv, RecheckInv, BeginInv, SetUpInv, FrontierInv, PickInv, ReentryInv, RedispatchInv,
   PreDispatchInv, ClaimInv, LaunchInv, EditStepsInv, WorkerInv, HookInv, OutcomeInv, GateInv,
   PersistInv, MarkMergedInv, ParkDecideInv, ParkEditInv, ParkVerifyInv, CompleteInv, CrashInv,
   HumanInv, IdleInv DEF Next, Daemon

\* Every reachable state of the loop satisfies the invariant: no crash, failed
\* call or human edit of work_unit.py's issues takes the loop out of it.
THEOREM Inductive == Spec => []IInv
BY InitInv, NextInv, PTL DEF Spec

-----------------------------------------------------------------------------
\* Every field of the loop keeps its type.
THEOREM TypeCorrect == Spec => []TypeOK
<1>1. IInv => TypeOK
  BY DEF IInv
<1> QED
  BY <1>1, Inductive, PTL

\* On the feature branch an issue comes after everything that blocks it, as
\* long as the members could be listed (_process_issue's gate re-entry included).
THEOREM MergesInOrder == Spec => []MergeOrder
<1>1. IInv => MergeOrder
  BY DEF IInv
<1> QED
  BY <1>1, Inductive, PTL

\* No worker starts before its issue's blockers are merged, nor on an issue
\* that is merged already (the classification and the frontier of run_work_unit).
THEOREM DispatchesInOrder == Spec => []DispatchOrder
<1>1. IInv => DispatchOrder
  <2> SUFFICES ASSUME IInv, Dispatching
               PROVE  /\ CallFailed("members") \/ blockedBy[cur] \subseteq trailers
                      /\ CallFailed("provenance") \/ cur \notin trailers
    BY DEF DispatchOrder
  <2>1. cur \in Issues /\ cur # NoIssue /\ ~ NoSched
    BY HasIssue DEF Dispatching, InHandPcs, Pcs
  <2>2. graph[cur] \subseteq trailers
    BY <2>1, HandedAreIssues DEF IInv, InHand, SchedulerOK, SP!IInv, SP!ConsumedInOrder, VerdictsMerged,
         DoneIsMerged
  <2>3. ~ CallFailed("members") => blockedBy[cur] = graph[cur]
    BY <2>1, GraphOfMilestone
  <2>4. ~ CallFailed("provenance") => cur \notin trailers
    BY DEF IInv, MergedOnce, Dispatching, BeforeGate
  <2> QED
    BY <2>2, <2>3, <2>4
<1> QED
  BY <1>1, Inductive, PTL

\* A verdict "done", by a gate or by recovery, is borne out by the branch, and
\* so is every issue the unit's pull request closes.
THEOREM VerdictsAreMerged == Spec => []DoneIsMerged
<1>1. IInv => DoneIsMerged
  BY DEF IInv, VerdictsMerged
<1> QED
  BY <1>1, Inductive, PTL

\* agent-in-progress is on no issue but the one in hand, until a crash or a
\* refused edit: every park and every merge takes it away.
THEOREM OnlyTheCurrentInProgress == Spec => []InProgressIsCurrent
<1>1. IInv => InProgressIsCurrent
  BY DEF IInv, ProgressOK, InProgressIsCurrent
<1> QED
  BY <1>1, Inductive, PTL

\* Each action that touches the scheduler is one of its calls, made where its
\* contract allows it.
LEMMA SchedulerCalls == IInv /\ [Next]_vars => [Sched!Next \/ FreshScheduler \/ phase' = "new"]_scheduler
<1> SUFFICES ASSUME IInv, Next, ~ UNCHANGED scheduler
             PROVE  Sched!Next \/ FreshScheduler \/ phase' = "new"
  BY DEF vars
<1>1. Tick \/ Recheck \/ Reentry \/ Redispatch \/ ClearOrphan \/ PreDispatch \/ Launch
      \/ Refused \/ Worker \/ Hook \/ Outcome \/ Converge \/ Gate \/ Persist \/ ParkDecide \/ ParkVerify
      \/ (\E i \in Issues : Human(i)) => UNCHANGED scheduler
  BY DEF Tick, Recheck, Reentry, Redispatch, ClearOrphan, PreDispatch, Launch,
      Refused, Worker, Hook, Outcome, Converge, Gate, Persist, ParkDecide, ParkVerify, Human
<1>2. Leave => phase' = "new"
  BY DEF Leave
<1>3. Begin => FreshScheduler \/ phase' = "new"
  <2> SUFFICES ASSUME NEW m, StartUnit(m), ~ Leave, pc = "begin" PROVE FreshScheduler
    BY <1>2 DEF Begin, BlockersFail
  <2> QED
    BY DEF StartUnit, FreshScheduler, IInv, SchedulerOK, NoSched
<1>4. Frontier => UNCHANGED scheduler \/ Sched!Next
  BY DEF Frontier, Sched!Next
<1>5. Pick => UNCHANGED scheduler \/ Sched!Next
  <2> SUFFICES ASSUME pc = "pick", NEW i \in pending, MarkDone(i) PROVE Sched!Next
    BY DEF Pick
  <2>1. i \in Issues /\ i \in handed \ (done \cup parked) /\ phase = "prepared"
    BY DEF IInv, TypeOK, InHand, SchedulerOK, NoSched
  <2> QED
    BY <2>1 DEF MarkDone, Sched!Next, Sched!MarkDone, Sched!InFlight, Sched!Terminal
<1>6. MarkMerged => Sched!Next
  <2> SUFFICES ASSUME MarkMerged PROVE Sched!Next
    OBVIOUS
  <2>1. MarkDone(cur) /\ cur \in Issues /\ cur # NoIssue /\ ~ NoSched /\ pc # "verify"
    BY HasIssue DEF MarkMerged, InHandPcs, Pcs
  <2>2. cur \in handed \ (done \cup parked) /\ phase = "prepared"
    BY <2>1 DEF IInv, InHand, SchedulerOK
  <2> QED
    BY <2>1, <2>2 DEF MarkDone, Sched!Next, Sched!MarkDone, Sched!InFlight, Sched!Terminal
<1>7. ParkEdit => Sched!Next
  <2> SUFFICES ASSUME ParkEdit PROVE Sched!Next
    OBVIOUS
  <2>1. MarkParked(cur) /\ cur \in Issues /\ cur # NoIssue /\ ~ NoSched
    BY HasIssue DEF ParkEdit, InHandPcs, Pcs
  <2>2. cur \in DOMAIN graph /\ phase = "prepared"
    BY <2>1, HandedAreIssues DEF IInv, InHand, SchedulerOK
  <2> QED
    BY <2>1, <2>2 DEF MarkParked, Sched!Next, Sched!MarkParked, Sched!Nodes
<1>8. SetUp \/ Claim \/ Complete \/ Crash => UNCHANGED scheduler \/ Leave
  BY DEF SetUp, BranchFails, Claim, CheckoutFails, Complete, Crash
<1> QED
  BY <1>1, <1>2, <1>3, <1>4, <1>5, <1>6, <1>7, <1>8 DEF Next, Daemon

\* Every step of the loop is a step of IssueScheduler, a fresh scheduler, or
\* its disposal at the end of a unit, so that what is proved of the scheduler
\* holds of the loop's.
THEOREM LoopUsesScheduler == Spec => UsesScheduler
BY SchedulerCalls, Inductive, PTL DEF Spec, UsesScheduler
-----------------------------------------------------------------------------
(* Bounded rework.  The launches of an issue are paid for: by a failure    *)
(* that was charged, or by a crash or a failed call.  While an issue may   *)
(* get another worker without a human asking for one, there is credit left *)
(* for that worker.                                                        *)

Mishaps == crashes + Len(faults)

\* The failures that count: the last one is only reached with the issue.
Charged(i) == IF failures[i] < MaxFailures THEN failures[i] ELSE MaxFailures - 1

BeforeLaunch == {"redispatch", "clear", "predispatch", "claim", "launch", "refused"}
AtWork == pc \in {"worker", "hook", "failedhook"} \/ (pc = "park" /\ park = "CHARGED")

\* A worker may be started on the issue: it is the one in hand and not claimed
\* yet, or goes back to agent-ready; or a tick has it, or will find it.
InHandEligible ==
  \/ /\ Ready \in labels[cur] /\ ~ AtWork
     /\ ~ (pc = "edit" /\ Ready \in edit.remove)
  \/ pc \in BeforeLaunch
  \/ pc = "park" /\ park = "UNCHARGED" /\ Done \notin labels[cur]
  \/ pc = "edit" /\ Ready \in edit.add
Eligible(i) ==
  IF cur = i THEN InHandEligible
  ELSE \/ {Ready, Progress} \cap labels[i] # {}
       \/ i \in greenlit /\ (NoSched \/ i \in Waiting)
       \/ i \in Waiting /\ class[i] = "redispatch"

\* It takes one failed call or a crash to make it so.
Engaged(i) ==
  \/ {Ready, Progress, Done} \cap labels[i] # {}
  \/ cur = i /\ (AtWork \/ pc \in {"pr_created", "no_pr", "converge"})

\* A merged issue that this unit takes for an unmerged one.
Mistaken(i) ==
  IF cur = i THEN pc \in BeforeLaunch
  ELSE i \in Waiting /\ ~ NoSched /\ pc # "setup" /\ class[i] \notin {"done", "gate"}

Paid(i) ==
  /\ launches[i] <= MaxFailures + Mishaps
  /\ i \notin trailers =>
       /\ Eligible(i) => launches[i] <= Charged(i) + Mishaps
       /\ Engaged(i) => launches[i] <= Charged(i) + 1 + Mishaps
  /\ i \in trailers /\ Mistaken(i) => launches[i] <= MaxFailures - 1 + Mishaps

\* Whoever re-enters the gate carries agent-done, so that an uncharged park
\* does not make it ready.
GatedIsDone ==
  \A i \in Issues \ trailers :
    IF cur = i THEN pc \in {"reentry", "regate"} => Done \in labels[i]
    ELSE i \in Waiting /\ class[i] = "gate" => Done \in labels[i]

PInv ==
  /\ \A i \in Issues : Paid(i)
  /\ GatedIsDone
  /\ pc = "edit" => edit.add \subseteq {Ready, Failed}
  /\ pc = "verify" => Progress \notin labels[cur]

\* Mishaps only add up, and a failed call is one.
LEMMA MishapsAdd ==
  ASSUME TypeOK, TypeOK', FaultStep, crashes' = crashes
  PROVE  /\ Mishaps \in Nat /\ Mishaps' \in Nat /\ Mishaps' >= Mishaps
         /\ \A c : Fails(c) => Mishaps' > Mishaps
<1>1. faults \in Seq(Calls) /\ Len(faults) \in Nat /\ crashes \in Nat
  BY Constants DEF TypeOK
<1>2. ASSUME NEW c, Fails(c) PROVE Len(faults') = Len(faults) + 1
  BY <1>1, <1>2, Constants DEF Fails
<1>3. CASE Succeeds
  BY <1>1, <1>2, <1>3 DEF Succeeds, Mishaps
<1>4. CASE \E c \in Calls : Fails(c)
  BY <1>1, <1>2, <1>4 DEF Mishaps
<1> QED
  BY <1>3, <1>4 DEF FaultStep

\* What an account is made of.
LEMMA PaidTypes ==
  ASSUME TypeOK, NEW i \in Issues
  PROVE  /\ launches[i] \in Nat /\ Mishaps \in Nat /\ MaxFailures \in Nat \ {0}
         /\ failures[i] \in 0..MaxFailures /\ Charged(i) \in 0..(MaxFailures - 1)
<1>1. launches[i] \in Nat /\ failures[i] \in 0..MaxFailures /\ crashes \in Nat /\ Len(faults) \in Nat
  BY Constants DEF TypeOK
<1> QED
  BY <1>1, Constants DEF Mishaps, Charged

\* A step that launches nothing keeps the account of an issue, if it makes no
\* more launches possible, or is itself a mishap.
LEMMA PaidStays ==
  ASSUME TypeOK, TypeOK', NEW i \in Issues, Paid(i), launches'[i] = launches[i],
         failures'[i] = failures[i], i \in trailers' <=> i \in trailers, Mishaps' >= Mishaps,
         \/ /\ i \notin trailers => /\ Eligible(i)' => Eligible(i)
                                    /\ Engaged(i)' => Engaged(i) \/ Eligible(i)
            /\ i \in trailers => (Mistaken(i)' => Mistaken(i))
         \/ /\ Mishaps' > Mishaps
            /\ i \notin trailers => (Eligible(i)' \/ Engaged(i)' => Engaged(i) \/ Eligible(i))
  PROVE  Paid(i)'
<1>1. /\ launches[i] \in Nat /\ Mishaps \in Nat /\ MaxFailures \in Nat \ {0}
      /\ Charged(i) \in 0..(MaxFailures - 1)
  BY PaidTypes
<1>2. Mishaps' \in Nat
  <2>1. crashes' \in Nat /\ Len(faults') \in Nat
    BY Constants DEF TypeOK
  <2> QED
    BY <2>1 DEF Mishaps
<1>3. Charged(i)' = Charged(i)
  BY DEF Charged
<1> HIDE DEF Charged, Mishaps, Eligible, Engaged, Mistaken
<1> QED
  BY <1>1, <1>2, <1>3 DEF Paid

\* What a step on the issue in hand leaves alone: the unit, and the others.
OnlyInHand ==
  /\ pc \in InHandPcs /\ FaultStep
  /\ UNCHANGED <<unit, pending, graph, handed, crashes>>
  /\ \A i \in Issues \ {cur} : /\ labels'[i] = labels[i] /\ launches'[i] = launches[i]
                               /\ failures'[i] = failures[i] /\ (i \in trailers' <=> i \in trailers)

\* The accounts of the others stay as they are, whether the issue stays in hand
\* or is let go.
LEMMA OthersPaid ==
  ASSUME IInv, TypeOK', PInv, OnlyInHand, cur' \in {cur, NoIssue}, ~ NoSched', pc' # "setup",
         NEW i \in Issues, i # cur
  PROVE  Paid(i)'
<1>1. Mishaps' >= Mishaps
  BY MishapsAdd DEF IInv, OnlyInHand
<1>2. Waiting' = Waiting /\ cur # i /\ cur' # i /\ ~ NoSched /\ pc # "setup"
  BY HasIssue, Constants DEF Waiting, OnlyInHand
<1>3. Eligible(i)' = Eligible(i) /\ Engaged(i)' = Engaged(i) /\ Mistaken(i)' = Mistaken(i)
  BY <1>2 DEF Eligible, Engaged, Mistaken, unit, OnlyInHand
<1> QED
  BY <1>1, <1>3, PaidStays DEF IInv, PInv, OnlyInHand

\* A step that keeps the issue in hand, once its own account is settled.
LEMMA TurnPays ==
  ASSUME IInv, TypeOK', PInv, OnlyInHand, cur' = cur, pc' \in InHandPcs, Paid(cur)',
         pc' = "edit" => edit'.add \subseteq {Ready, Failed},
         pc' = "verify" => Progress \notin labels'[cur],
         pc' \in {"reentry", "regate"} /\ cur \notin trailers' => Done \in labels'[cur]
  PROVE  PInv'
<1>1. Waiting' = Waiting /\ ~ NoSched' /\ pc' # "setup" /\ cur \in Issues
  BY HasIssue DEF Waiting, OnlyInHand, InHandPcs, NoSched
<1>2. \A i \in Issues : Paid(i)'
  <2> SUFFICES ASSUME NEW i \in Issues, i # cur PROVE Paid(i)'
    OBVIOUS
  <2> QED
    BY <1>1, OthersPaid
<1>3. GatedIsDone'
  BY <1>1 DEF GatedIsDone, PInv, unit, OnlyInHand
<1> QED
  BY <1>2, <1>3 DEF PInv

\* A step that lets it go: the unit will not turn to it again, so only its
\* labels can make it eligible.
LEMMA Dropped ==
  ASSUME IInv, OnlyInHand, NEW j \in Issues, cur = j, cur' = NoIssue, pc' = "frontier"
  PROVE  /\ Eligible(j)' = ({Ready, Progress} \cap labels'[j] # {})
         /\ Engaged(j)' = ({Ready, Progress, Done} \cap labels'[j] # {})
         /\ ~ Mistaken(j)' /\ j \notin Waiting'
<1>1. Waiting' = Waiting /\ ~ NoSched /\ ~ NoSched' /\ cur' # j
  BY HasIssue DEF Waiting, OnlyInHand, NoSched
<1>2. j \notin Waiting
  BY HasIssue DEF Waiting, IInv, InHand, OnlyInHand
<1> QED
  BY <1>1, <1>2 DEF Eligible, Engaged, Mistaken

\* ... once its account is settled.
LEMMA DropPays ==
  ASSUME IInv, TypeOK', PInv, OnlyInHand, NEW j \in Issues, cur = j, cur' = NoIssue,
         pc' = "frontier", Paid(j)'
  PROVE  PInv'
<1>1. Waiting' = Waiting /\ ~ NoSched'
  BY DEF Waiting, OnlyInHand, NoSched
<1>2. \A i \in Issues : Paid(i)'
  <2> SUFFICES ASSUME NEW i \in Issues, i # cur PROVE Paid(i)'
    OBVIOUS
  <2> QED
    BY <1>1, OthersPaid
<1>3. GatedIsDone'
  <2> SUFFICES ASSUME NEW i \in Issues, i \notin trailers', i \in Waiting', class'[i] = "gate"
               PROVE  Done \in labels'[i]
    BY Constants DEF GatedIsDone
  <2>1. i # cur /\ i \notin trailers
    BY Dropped DEF OnlyInHand
  <2> QED
    BY <1>1, <2>1 DEF GatedIsDone, PInv, unit, OnlyInHand
<1> QED
  BY <1>2, <1>3 DEF PInv

\* A step on the issue in hand that counts nothing and makes no more launches
\* possible, or is a mishap.
LEMMA QuietTurn ==
  ASSUME IInv, IInv', PInv, OnlyInHand, cur' = cur, pc' \in InHandPcs,
         UNCHANGED <<launches, failures, trailers>>,
         \/ /\ cur \notin trailers => /\ InHandEligible' => InHandEligible
                                      /\ Engaged(cur)' => Engaged(cur) \/ InHandEligible
            /\ cur \in trailers => (pc' \in BeforeLaunch => pc \in BeforeLaunch)
         \/ /\ \E c : Fails(c)
            /\ cur \notin trailers => (InHandEligible' \/ Engaged(cur)' => Engaged(cur) \/ InHandEligible),
         pc' = "edit" => edit'.add \subseteq {Ready, Failed},
         pc' = "verify" => Progress \notin labels'[cur],
         pc' \in {"reentry", "regate"} /\ cur \notin trailers' => Done \in labels'[cur]
  PROVE  PInv'
<1>1. cur \in Issues /\ TypeOK /\ TypeOK' /\ Paid(cur)
  BY HasIssue DEF IInv, PInv, OnlyInHand
<1>2. Mishaps' >= Mishaps /\ \A c : Fails(c) => Mishaps' > Mishaps
  BY <1>1, MishapsAdd DEF OnlyInHand
<1>3. /\ Eligible(cur) = InHandEligible /\ Eligible(cur)' = InHandEligible'
      /\ Mistaken(cur) = (pc \in BeforeLaunch) /\ Mistaken(cur)' = (pc' \in BeforeLaunch)
  BY DEF Eligible, Mistaken
<1>4. PICK j \in Issues : j = cur
  BY <1>1
<1>5. Paid(j)'
  <2> HIDE DEF Eligible, Engaged, Mistaken, Paid, Mishaps, InHandEligible
  <2>1. /\ Eligible(j) = InHandEligible /\ Eligible(j)' = InHandEligible'
        /\ Mistaken(j) = (pc \in BeforeLaunch) /\ Mistaken(j)' = (pc' \in BeforeLaunch)
        /\ Engaged(j) = Engaged(cur) /\ Engaged(j)' = Engaged(cur)'
        /\ Paid(j)
    BY <1>1, <1>3, <1>4
  <2> QED
    BY <1>1, <1>2, <1>4, <2>1, PaidStays
<1>6. Paid(cur)'
  BY <1>4, <1>5
<1> QED
  BY <1>1, <1>6, TurnPays DEF IInv

\* Step by step.  Those that only pass the issue on make nothing possible.
LEMMA PassOnPays ==
  ASSUME IInv, IInv', PInv, Reentry \/ Redispatch \/ ClearOrphan \/ PreDispatch \/ Refused
  PROVE  PInv'
<1>1. /\ pc \in InHandPcs /\ cur' = cur /\ pc' \in InHandPcs \ {"edit", "verify"}
      /\ UNCHANGED <<launches, failures, trailers, unit, pending, graph, handed, crashes>>
  BY DEF Reentry, Redispatch, ClearOrphan, PreDispatch, Refused, Goto, Park, task, disk, history, scheduler,
         InHandPcs, Pcs
<1>2. FaultStep
  BY FaultSeen DEF IInv, FaultStep, Reentry, Redispatch, ClearOrphan, PreDispatch, Refused, LabelEdit, Succeeds
<1>3. cur \in Issues
  BY <1>1, HasIssue
<1>4. OnlyInHand
  <2>1. \A i \in Issues \ {cur} : labels'[i] = labels[i]
    BY <1>3 DEF Reentry, Redispatch, ClearOrphan, PreDispatch, Refused, LabelEdit, github, IInv, TypeOK
  <2> QED
    BY <1>1, <1>2, <2>1 DEF OnlyInHand
<1>5. CASE Reentry
  <2>1. labels' = labels /\ pc = "reentry"
        /\ (pc' = "regate" \/ (pc' = "park" /\ park' = "UNCHARGED"))
    BY <1>5 DEF Reentry, Goto, Park, github
  <2>2. cur \notin trailers => Done \in labels[cur]
    BY <1>3, <2>1 DEF PInv, GatedIsDone
  <2>3. cur \notin trailers => /\ InHandEligible' => InHandEligible
                               /\ Engaged(cur)' => Engaged(cur) \/ InHandEligible
    BY <1>1, <2>1, <2>2 DEF InHandEligible, Engaged, AtWork, BeforeLaunch
  <2> QED
    BY <1>1, <1>4, <2>1, <2>2, <2>3, QuietTurn DEF BeforeLaunch
<1>6. CASE pc \in BeforeLaunch /\ pc' \notin {"reentry", "regate"}
  BY <1>1, <1>4, <1>6, QuietTurn DEF InHandEligible
<1>7. ~ Reentry => pc \in BeforeLaunch /\ pc' \notin {"reentry", "regate"}
  BY DEF Redispatch, ClearOrphan, PreDispatch, Refused, Goto, Park, BeforeLaunch
<1> QED
  BY <1>5, <1>6, <1>7

\* The claim; a failed checkout ends the unit and is a mishap.
LEMMA ClaimPays ==
  ASSUME IInv, IInv', PInv, Claim, ~ Leave
  PROVE  PInv'
<1>1. /\ pc = "claim" /\ cur' = cur /\ pc' = "launch" /\ LabelEdit(cur, {Progress}, {Ready})
      /\ UNCHANGED <<launches, failures, trailers, unit, pending, graph, handed, crashes>>
  BY DEF Claim, CheckoutFails, Goto, task, disk, history, scheduler
<1>2. pc \in InHandPcs /\ pc' \in InHandPcs /\ cur \in Issues
  BY <1>1, HasIssue DEF InHandPcs, Pcs
<1>3. OnlyInHand
  <2>1. FaultStep
    BY <1>1, FaultSeen DEF IInv, FaultStep, LabelEdit
  <2>2. \A i \in Issues \ {cur} : labels'[i] = labels[i]
    BY <1>1, <1>2 DEF LabelEdit, IInv, TypeOK
  <2> QED
    BY <1>1, <1>2, <2>1, <2>2 DEF OnlyInHand
<1> QED
  BY <1>1, <1>2, <1>3, QuietTurn DEF InHandEligible, BeforeLaunch

\* A launch uses up the credit of an eligible issue.
LEMMA LaunchPays ==
  ASSUME IInv, IInv', PInv, Launch
  PROVE  PInv'
<1>1. /\ pc = "launch" /\ cur' = cur /\ pc' \in {"worker", "park", "refused"}
      /\ UNCHANGED <<labels, failures, trailers, unit, pending, graph, handed, crashes>>
  BY DEF Launch, Goto, Park, task, disk, github, scheduler
<1>2. pc \in InHandPcs /\ pc' \in InHandPcs /\ cur \in Issues /\ TypeOK /\ TypeOK'
  BY <1>1, HasIssue DEF InHandPcs, Pcs, IInv
<1>3. OnlyInHand
  <2>1. FaultStep
    BY FaultSeen DEF IInv, FaultStep, Launch
  <2>2. \A i \in Issues \ {cur} : launches'[i] = launches[i]
    BY <1>2 DEF Launch, IInv, TypeOK
  <2> QED
    BY <1>1, <1>2, <2>1, <2>2 DEF OnlyInHand
<1>4. CASE Succeeds /\ Goto("worker") /\ launches' = [launches EXCEPT ![cur] = @ + 1]
  <2>1. launches'[cur] = launches[cur] + 1 /\ pc' = "worker" /\ Mishaps' = Mishaps
        /\ Charged(cur)' = Charged(cur)
    BY <1>1, <1>2, <1>4 DEF TypeOK, Goto, Mishaps, Succeeds, Charged
  <2>2. Eligible(cur) /\ ~ Eligible(cur)' /\ Mistaken(cur) /\ ~ Mistaken(cur)'
    BY <1>1, <2>1 DEF Eligible, InHandEligible, Mistaken, AtWork, BeforeLaunch
  <2>3. /\ launches[cur] \in Nat /\ Mishaps \in Nat /\ MaxFailures \in Nat \ {0}
        /\ Charged(cur) \in 0..(MaxFailures - 1) /\ Paid(cur)
    BY <1>2, PaidTypes DEF PInv
  <2>4. Paid(cur)'
    <3> HIDE DEF Eligible, Engaged, Mistaken, Charged, Mishaps
    <3>1. PICK j \in Issues : j = cur
      BY <1>2
    <3>2. Paid(j)'
      BY <1>1, <2>1, <2>2, <2>3, <3>1 DEF Paid
    <3> QED
      BY <1>1, <3>1, <3>2
  <2> QED
    BY <1>1, <1>2, <1>3, <2>1, <2>4, TurnPays DEF IInv
<1>5. CASE UNCHANGED launches
  BY <1>1, <1>2, <1>3, <1>5, QuietTurn DEF InHandEligible, BeforeLaunch
<1> QED
  BY <1>4, <1>5 DEF Launch

\* While the worker is at work the issue is not eligible, and its outcome does
\* not make it so: the hook takes agent-ready away, or is itself a mishap.
LEMMA WorkPays ==
  ASSUME IInv, IInv', PInv, Worker \/ Hook
  PROVE  PInv'
<1>1. /\ pc \in {"worker", "hook", "failedhook"} /\ cur' = cur
      /\ pc' \in {"hook", "failedhook", "park", "pr_created", "no_pr"}
      /\ pc' = "park" => park' = "CHARGED"
      /\ UNCHANGED <<launches, failures, trailers, unit, pending, graph, handed, crashes>>
  BY DEF Worker, Hook, Goto, Park, task, disk, history, scheduler
<1>2. pc \in InHandPcs /\ pc' \in InHandPcs /\ cur \in Issues /\ Engaged(cur)
  BY <1>1, HasIssue DEF InHandPcs, Pcs, Engaged, AtWork
<1>3. OnlyInHand
  <2>1. FaultStep
    BY FaultSeen DEF IInv, FaultStep, Worker, Hook, Succeeds
  <2>2. \A i \in Issues \ {cur} : labels'[i] = labels[i]
    <3>1. \E L : labels' = labels \/ labels' = [labels EXCEPT ![cur] = L]
      BY DEF Worker, Hook
    <3> QED
      BY <1>2, <3>1 DEF IInv, TypeOK
  <2> QED
    BY <1>1, <1>2, <2>1, <2>2 DEF OnlyInHand
<1>4. CASE Worker
  <2>1. ~ InHandEligible'
    BY <1>1, <1>4 DEF InHandEligible, AtWork, BeforeLaunch, Worker, Goto, Park
  <2> QED
    BY <1>1, <1>2, <1>3, <2>1, QuietTurn DEF BeforeLaunch
<1>5. CASE Hook /\ Fails("hook")
  BY <1>1, <1>2, <1>3, <1>5, QuietTurn
<1>6. CASE Hook /\ ~ Fails("hook")
  <2>1. PICK L \in HookOutcomes(labels[cur], pr[cur] = "open") : labels' = [labels EXCEPT ![cur] = L]
    BY <1>6 DEF Hook
  <2>2. Ready \notin L
    BY LabelsDiffer DEF HookOutcomes, Edit
  <2>3. labels'[cur] = L
    BY <1>2, <2>1 DEF IInv, TypeOK
  <2>4. ~ InHandEligible'
    BY <1>1, <1>6, <2>2, <2>3 DEF InHandEligible, BeforeLaunch, Hook, Goto, Park
  <2> QED
    BY <1>1, <1>2, <1>3, <2>4, QuietTurn DEF BeforeLaunch
<1> QED
  BY <1>4, <1>5, <1>6

\* The outcome sends an issue that has a pull request to the gate; an uncharged
\* park is not among its ends.
LEMMA OutcomePays ==
  ASSUME IInv, IInv', PInv, Outcome \/ Converge
  PROVE  PInv'
<1>1. /\ pc \in {"pr_created", "no_pr", "converge"} /\ cur' = cur
      /\ pc' \in {"park", "converge", "gate"}
      /\ pc' = "park" => park' # "UNCHARGED"
      /\ UNCHANGED <<launches, failures, trailers, unit, pending, graph, handed, crashes>>
  BY DEF Outcome, Converge, Goto, Park, task, github, disk, history, scheduler
<1>2. pc \in InHandPcs /\ pc' \in InHandPcs /\ cur \in Issues /\ Engaged(cur)
  BY <1>1, HasIssue DEF InHandPcs, Pcs, Engaged
<1>3. OnlyInHand
  <2>1. FaultStep
    BY FaultSeen DEF IInv, FaultStep, Outcome, Converge, LabelEdit
  <2>2. \A i \in Issues \ {cur} : labels'[i] = labels[i]
    BY <1>2 DEF Outcome, Converge, LabelEdit, github, IInv, TypeOK
  <2> QED
    BY <1>1, <1>2, <2>1, <2>2 DEF OnlyInHand
<1>4. Ready \in labels'[cur] => Ready \in labels[cur]
  BY <1>2, LabelsDiffer DEF Outcome, Converge, LabelEdit, Edit, TargetState, github, IInv, TypeOK
<1>5. InHandEligible' => InHandEligible
  BY <1>1, <1>4 DEF InHandEligible, AtWork, BeforeLaunch
<1> QED
  BY <1>1, <1>2, <1>3, <1>5, QuietTurn DEF BeforeLaunch

\* A gate that fails parks an issue that carries agent-done, or merges it.
LEMMA GatePays ==
  ASSUME IInv, IInv', PInv, Gate \/ Persist
  PROVE  PInv'
<1>1. /\ pc \in {"gate", "regate", "persist"} /\ cur' = cur
      /\ pc' \in {"park", "persist", "merged"}
      /\ UNCHANGED <<launches, failures, unit, pending, graph, handed, crashes>>
  BY DEF Gate, Persist, Goto, Park, task, github, disk, history, scheduler
<1>2. pc \in InHandPcs /\ pc' \in InHandPcs /\ cur \in Issues
  BY <1>1, HasIssue DEF InHandPcs, Pcs
<1>3. OnlyInHand
  <2>1. FaultStep
    BY FaultSeen DEF IInv, FaultStep, Gate, Persist, Succeeds
  <2>2. \A i \in Issues \ {cur} : labels'[i] = labels[i] /\ (i \in trailers' <=> i \in trailers)
    <3>1. trailers' \in {trailers, trailers \cup {cur}}
      BY DEF Gate, Persist, disk
    <3>2. labels' \in {labels, [labels EXCEPT ![cur] = @ \cup {Merged}]}
      BY DEF Gate, Persist, github
    <3>3. labels \in [Issues -> SUBSET AllLabels]
      BY DEF IInv, TypeOK
    <3> QED
      BY <1>2, <3>1, <3>2, <3>3
  <2> QED
    BY <1>1, <1>2, <2>1, <2>2 DEF OnlyInHand
<1>4. CASE pc' = "park"
  <2>1. /\ UNCHANGED <<labels, trailers>> /\ pc \in {"gate", "regate"}
        /\ park' = IF pc = "regate" THEN "UNCHARGED" ELSE "STATE_INTACT"
    BY <1>4 DEF Gate, Persist, Goto, Park, github
  <2>2. cur \notin trailers /\ pc = "regate" => Done \in labels[cur]
    BY <1>2 DEF PInv, GatedIsDone
  <2>3. cur \notin trailers => /\ InHandEligible' => InHandEligible
                               /\ Engaged(cur)' => Engaged(cur) \/ InHandEligible
    BY <1>1, <1>4, <2>1, <2>2 DEF InHandEligible, Engaged, AtWork, BeforeLaunch
  <2> QED
    BY <1>1, <1>2, <1>3, <1>4, <2>1, <2>3, QuietTurn DEF BeforeLaunch
<1>5. CASE pc' \in {"persist", "merged"}
  <2>1. cur \in trailers' /\ cur \in Issues
    BY <1>1, <1>2, <1>5 DEF IInv, VerdictsMerged
  <2>2. Paid(cur)'
    <3>1. PICK j \in Issues : j = cur
      BY <1>2
    <3>2. Mishaps' >= Mishaps /\ Mishaps \in Nat /\ Mishaps' \in Nat
      BY <1>3, MishapsAdd DEF IInv, OnlyInHand
    <3>3. launches'[j] <= MaxFailures + Mishaps'
      <4>1. launches[j] \in Nat /\ MaxFailures \in Nat /\ Paid(j)
        BY PaidTypes DEF IInv, PInv
      <4> HIDE DEF Mishaps
      <4> QED
        BY <1>1, <3>2, <4>1 DEF Paid
    <3>4. ~ Mistaken(j)' /\ j \in trailers'
      BY <1>1, <1>5, <2>1, <3>1 DEF Mistaken, BeforeLaunch
    <3> HIDE DEF Mistaken, Mishaps
    <3>5. Paid(j)'
      BY <3>3, <3>4 DEF Paid
    <3> QED
      BY <1>1, <3>1, <3>5
  <2> QED
    BY <1>1, <1>2, <1>3, <1>5, <2>2, TurnPays DEF IInv
<1> QED
  BY <1>1, <1>4, <1>5

\* A merge starts the count of failures over, but no worker follows it.
LEMMA MarkMergedPays ==
  ASSUME IInv, IInv', PInv, MarkMerged
  PROVE  PInv'
<1>1. /\ pc = "merged" /\ NextIssue /\ failures' = [failures EXCEPT ![cur] = 0]
      /\ LabelEdit(cur, {}, {Progress, Done})
      /\ UNCHANGED <<launches, trailers, unit, pending, graph, handed, crashes>>
  BY DEF MarkMerged, MarkDone, history
<1>2. pc \in InHandPcs /\ cur \in Issues
  BY <1>1, HasIssue DEF InHandPcs, Pcs
<1>3. PICK j \in Issues : cur = j
  BY <1>2
<1>4. OnlyInHand
  <2>1. FaultStep
    BY <1>1, FaultSeen DEF IInv, FaultStep, LabelEdit
  <2>2. \A i \in Issues \ {cur} : labels'[i] = labels[i] /\ failures'[i] = failures[i]
    <3>1. labels \in [Issues -> SUBSET AllLabels] /\ failures \in [Issues -> 0..MaxFailures]
      BY DEF IInv, TypeOK
    <3> QED
      BY <1>1, <1>2, <3>1 DEF LabelEdit
  <2> QED
    BY <1>1, <1>2, <2>1, <2>2 DEF OnlyInHand
<1>5. Paid(j)'
  <2>1. ~ Mistaken(j)' /\ j \in trailers'
    BY <1>1, <1>3, <1>4, Dropped DEF NextIssue, IInv, VerdictsMerged
  <2>2. Mishaps' >= Mishaps /\ Mishaps \in Nat /\ Mishaps' \in Nat
    BY <1>4, MishapsAdd DEF IInv, OnlyInHand
  <2>3. launches[j] \in Nat /\ MaxFailures \in Nat /\ Paid(j)
    BY PaidTypes DEF IInv, PInv
  <2> HIDE DEF Mistaken, Mishaps
  <2> QED
    BY <1>1, <2>1, <2>2, <2>3 DEF Paid
<1> QED
  BY <1>1, <1>3, <1>4, <1>5, DropPays DEF NextIssue, IInv

\* A charged park pays for the launch it follows, up to the last failure, which
\* takes agent-ready away instead.
LEMMA ParkDecidePays ==
  ASSUME IInv, IInv', PInv, ParkDecide
  PROVE  PInv'
<1>1. /\ pc = "park" /\ cur' = cur /\ pc' = "edit"
      /\ UNCHANGED <<labels, launches, trailers, unit, pending, graph, handed, crashes>>
  BY DEF ParkDecide, github, history, scheduler
<1>2. pc \in InHandPcs /\ pc' \in InHandPcs /\ cur \in Issues /\ park \in ParkClasses
      /\ labels[cur] \in SUBSET AllLabels
  BY <1>1, HasIssue DEF InHandPcs, Pcs, IInv, ParkOK, TypeOK
<1>3. PICK readable \in BOOLEAN, exhausted \in BOOLEAN :
        /\ exhausted = (park = "CHARGED" /\ failures[cur] + 1 >= MaxFailures)
        /\ IF readable THEN Succeeds ELSE Fails("labels")
        /\ failures' = [failures EXCEPT ![cur] = IF park = "CHARGED" /\ @ < MaxFailures
                                                   THEN failures[cur] + 1 ELSE @]
        /\ edit' = [add       |-> ParkAdd(park, readable, labels[cur], exhausted),
                    remove    |-> ParkRemove(park, readable, labels[cur], exhausted),
                    exhausted |-> exhausted]
  BY DEF ParkDecide
<1>4. edit'.add = ParkAdd(park, readable, labels[cur], exhausted)
      /\ edit'.remove = ParkRemove(park, readable, labels[cur], exhausted)
  BY <1>3
<1>5. edit'.add \subseteq {Ready, Failed}
  BY <1>2, <1>4, ParkEditShape
<1>6. OnlyInHand
  <2>1. FaultStep
    BY <1>3, FaultSeen DEF IInv, FaultStep
  <2>2. \A i \in Issues \ {cur} : failures'[i] = failures[i]
    BY <1>3 DEF IInv, TypeOK
  <2> QED
    BY <1>1, <1>2, <2>1, <2>2 DEF OnlyInHand
<1>7. CASE park = "CHARGED"
  <2>1. PICK j \in Issues : cur = j
    BY <1>2
  <2>2. /\ launches[j] \in Nat /\ Mishaps \in Nat /\ MaxFailures \in Nat \ {0}
        /\ failures[j] \in 0..MaxFailures /\ Charged(j) \in 0..(MaxFailures - 1) /\ Paid(j)
    BY PaidTypes DEF IInv, PInv
  <2>3. Mishaps' >= Mishaps /\ Mishaps' \in Nat
    BY <1>6, MishapsAdd DEF IInv, OnlyInHand
  <2>4. Engaged(j) /\ ~ Mistaken(j)'
    BY <1>1, <1>7, <2>1 DEF Engaged, AtWork, Mistaken, BeforeLaunch
  <2>5. failures'[j] = IF failures[j] < MaxFailures THEN failures[j] + 1 ELSE failures[j]
    BY <1>3, <1>7, <2>1 DEF IInv, TypeOK
  <2>6. Charged(j)' >= Charged(j) /\ (~ exhausted => Charged(j)' = Charged(j) + 1)
        /\ Charged(j)' \in Nat
    <3>1. /\ Charged(j) = IF failures[j] < MaxFailures THEN failures[j] ELSE MaxFailures - 1
          /\ Charged(j)' = IF failures'[j] < MaxFailures THEN failures'[j] ELSE MaxFailures - 1
      BY DEF Charged
    <3>2. ~ exhausted => failures[j] + 1 < MaxFailures
      <4>1. ~ exhausted => ~ (failures[j] + 1 >= MaxFailures)
        BY <1>3, <1>7, <2>1
      <4> QED
        BY <2>2, <4>1
    <3> HIDE DEF Charged
    <3>3. failures[j] \in 0..MaxFailures /\ MaxFailures \in Nat \ {0}
      BY <2>2
    <3> QED
      BY <2>5, <3>1, <3>2, <3>3
  <2>7. exhausted => ~ Eligible(j)'
    <3> SUFFICES ASSUME exhausted PROVE ~ InHandEligible'
      BY <1>1, <2>1 DEF Eligible
    <3>1. Ready \notin edit'.add
      BY <1>4, <1>7, LabelsDiffer DEF ParkAdd
    <3>2. Ready \in labels[cur] => Ready \in edit'.remove
      BY <1>4, <1>7, <3>1 DEF ParkRemove, StateLabels
    <3> QED
      BY <1>1, <3>1, <3>2 DEF InHandEligible, BeforeLaunch
  <2>8. Paid(j)'
    <3> HIDE DEF Eligible, Engaged, Mistaken, Charged, Mishaps
    <3>1. launches'[j] = launches[j] /\ (j \in trailers' <=> j \in trailers)
      BY <1>1
    <3> QED
      BY <2>2, <2>3, <2>4, <2>6, <2>7, <3>1 DEF Paid
  <2>9. Paid(cur)'
    BY <1>1, <2>1, <2>8
  <2> QED
    BY <1>1, <1>2, <1>5, <1>6, <2>9, TurnPays DEF IInv
<1>8. CASE park # "CHARGED"
  <2>1. UNCHANGED failures
    BY <1>2, <1>3, <1>8 DEF IInv, TypeOK
  <2>2. Ready \in edit'.add => park = "UNCHARGED" /\ labels[cur] \cap StateLabels = {}
    BY <1>4, <1>8, LabelsDiffer DEF ParkAdd
  <2>3. Ready \in edit'.add => InHandEligible
    BY <1>1, <2>2 DEF InHandEligible, StateLabels
  <2>4. InHandEligible' => InHandEligible
    BY <1>1, <1>8, <2>3 DEF InHandEligible, AtWork, BeforeLaunch
  <2>5. Engaged(cur)' => Engaged(cur)
    BY <1>1 DEF Engaged, AtWork
  <2> QED
    BY <1>1, <1>2, <1>5, <1>6, <2>1, <2>4, <2>5, QuietTurn DEF BeforeLaunch
<1> QED
  BY <1>7, <1>8

\* The edit of a park carries out what was decided.
LEMMA ParkEditPays ==
  ASSUME IInv, IInv', PInv, ParkEdit
  PROVE  PInv'
<1>1. /\ pc = "edit" /\ LabelEdit(cur, edit.add, edit.remove)
      /\ (cur' = cur /\ edit' = edit /\ pc' = "verify" /\ Succeeds) \/ (cur' = NoIssue /\ pc' = "frontier")
      /\ UNCHANGED <<launches, failures, trailers, unit, pending, graph, handed, crashes>>
  BY DEF ParkEdit, MarkParked, Goto, NextIssue, task, disk, history
<1>2. /\ pc \in InHandPcs /\ cur \in Issues /\ labels[cur] \in SUBSET AllLabels
      /\ edit.add \subseteq {Ready, Failed} /\ Progress \in edit.remove /\ Progress \notin edit.add
  BY <1>1, HasIssue DEF InHandPcs, Pcs, IInv, PInv, ProgressOK, TypeOK
<1>3. PICK j \in Issues : cur = j
  BY <1>2
<1>4. OnlyInHand
  <2>1. FaultStep
    BY <1>1, FaultSeen DEF IInv, FaultStep, LabelEdit
  <2>2. \A i \in Issues \ {cur} : labels'[i] = labels[i]
    BY <1>1, <1>2 DEF LabelEdit, IInv, TypeOK
  <2> QED
    BY <1>1, <1>2, <2>1, <2>2 DEF OnlyInHand
<1>5. /\ Mishaps' >= Mishaps /\ (Fails("edit") => Mishaps' > Mishaps)
      /\ TypeOK /\ TypeOK' /\ Paid(j)
  BY <1>4, MishapsAdd DEF IInv, PInv, OnlyInHand
<1>6. CASE Succeeds /\ labels' = [labels EXCEPT ![cur] = Edit(@, edit.add, edit.remove)]
  <2>1. labels'[j] = (labels[j] \ edit.remove) \cup edit.add
    BY <1>3, <1>6 DEF Edit, IInv, TypeOK
  <2>2. /\ Progress \notin labels'[j] /\ (Done \in labels'[j] => Done \in labels[j])
        /\ Ready \in labels'[j] => InHandEligible
    BY <1>1, <1>2, <1>3, <2>1, LabelsDiffer DEF InHandEligible, AtWork
  <2>3. CASE pc' = "verify"
    <3>1. /\ InHandEligible' => InHandEligible
          /\ Engaged(cur)' => Engaged(cur) \/ InHandEligible
      BY <1>1, <1>3, <2>2, <2>3 DEF InHandEligible, Engaged, AtWork, BeforeLaunch
    <3> QED
      BY <1>1, <1>2, <1>3, <1>4, <2>2, <2>3, <3>1, QuietTurn, HasIssue DEF InHandPcs, Pcs, BeforeLaunch
  <2>4. CASE pc' = "frontier" /\ cur' = NoIssue
    <3>1. /\ Eligible(j)' => Eligible(j)
          /\ Engaged(j)' => Engaged(j) \/ Eligible(j)
          /\ ~ Mistaken(j)'
      <4>1. Eligible(j) = InHandEligible
        BY <1>3 DEF Eligible
      <4>2. Done \in labels[j] => Engaged(j)
        BY DEF Engaged
      <4> QED
        BY <1>3, <1>4, <2>2, <2>4, <4>1, <4>2, Dropped
    <3>2. Paid(j)'
      BY <1>1, <1>5, <3>1, PaidStays
    <3> QED
      BY <1>3, <1>4, <1>5, <2>4, <3>2, DropPays
  <2> QED
    BY <1>1, <2>3, <2>4
<1>7. CASE Fails("edit") /\ UNCHANGED labels
  <2>1. pc' = "frontier" /\ cur' = NoIssue
    <3>1. ~ Succeeds
      BY <1>7 DEF Fails, Succeeds, IInv, TypeOK
    <3> QED
      BY <1>1, <3>1
  <2>2. Eligible(j)' \/ Engaged(j)' => Engaged(j)
    BY <1>3, <1>4, <1>7, <2>1, Dropped DEF Engaged
  <2>3. Paid(j)'
    BY <1>1, <1>5, <1>7, <2>2, PaidStays
  <2> QED
    BY <1>3, <1>4, <1>5, <2>1, <2>3, DropPays
<1> QED
  BY <1>1, <1>6, <1>7 DEF LabelEdit

\* The count starts over only for an issue nobody can start a worker on.
LEMMA ParkVerifyPays ==
  ASSUME IInv, IInv', PInv, ParkVerify
  PROVE  PInv'
<1>1. /\ pc = "verify" /\ NextIssue
      /\ UNCHANGED <<labels, launches, trailers, unit, pending, graph, handed, crashes>>
  BY DEF ParkVerify, github, history, scheduler
<1>2. pc \in InHandPcs /\ cur \in Issues /\ Progress \notin labels[cur]
  BY <1>1, HasIssue DEF InHandPcs, Pcs, PInv
<1>3. PICK j \in Issues : cur = j
  BY <1>2
<1>4. OnlyInHand
  <2>1. FaultStep
    BY FaultSeen DEF IInv, FaultStep, ParkVerify
  <2>2. \A i \in Issues \ {cur} : failures'[i] = failures[i]
    BY <1>2 DEF ParkVerify, IInv, TypeOK
  <2> QED
    BY <1>1, <1>2, <2>1, <2>2 DEF OnlyInHand
<1>5. /\ Mishaps' >= Mishaps /\ TypeOK /\ TypeOK' /\ Paid(j)
      /\ pc' = "frontier" /\ cur' = NoIssue
  BY <1>1, <1>4, MishapsAdd DEF IInv, PInv, OnlyInHand, NextIssue
<1>6. /\ Eligible(j)' = (Ready \in labels[j])
      /\ Engaged(j)' = ({Ready, Done} \cap labels[j] # {})
      /\ ~ Mistaken(j)'
  BY <1>1, <1>2, <1>3, <1>4, <1>5, Dropped
<1>7. Paid(j)'
  <2>1. CASE failures'[j] = failures[j]
    <3>1. Ready \in labels[j] => Eligible(j)
      BY <1>1, <1>3 DEF Eligible, InHandEligible, AtWork
    <3>2. {Ready, Done} \cap labels[j] # {} => Engaged(j)
      BY DEF Engaged
    <3> QED
      BY <1>1, <1>5, <1>6, <2>1, <3>1, <3>2, PaidStays
  <2>2. CASE labels[j] \cap StateLabels = {Failed}
    <3>1. ~ Eligible(j)' /\ ~ Engaged(j)'
      BY <1>6, <2>2, LabelsDiffer DEF StateLabels
    <3>2. /\ launches[j] \in Nat /\ Mishaps \in Nat /\ MaxFailures \in Nat
          /\ Mishaps' \in Nat
      BY <1>4, <1>5, PaidTypes, MishapsAdd DEF OnlyInHand
    <3> HIDE DEF Eligible, Engaged, Mistaken, Mishaps
    <3> QED
      BY <1>1, <1>5, <1>6, <3>1, <3>2 DEF Paid
  <2> QED
    BY <1>3, <2>1, <2>2 DEF ParkVerify, IInv, TypeOK
<1> QED
  BY <1>3, <1>4, <1>5, <1>7, DropPays

\* A step of the unit as a whole: it counts nothing.
LEMMA UnitPays ==
  ASSUME IInv, IInv', PInv, Mishaps' >= Mishaps, UNCHANGED <<launches, failures, trailers>>,
         pc' \notin {"edit", "verify"}, GatedIsDone',
         \A i \in Issues :
           \/ /\ i \notin trailers => /\ Eligible(i)' => Eligible(i)
                                      /\ Engaged(i)' => Engaged(i) \/ Eligible(i)
              /\ i \in trailers => (Mistaken(i)' => Mistaken(i))
           \/ /\ Mishaps' > Mishaps
              /\ i \notin trailers => (Eligible(i)' \/ Engaged(i)' => Engaged(i) \/ Eligible(i))
  PROVE  PInv'
<1>1. ASSUME NEW i \in Issues PROVE Paid(i)'
  <2>1. TypeOK /\ TypeOK' /\ Paid(i)
    BY DEF IInv, PInv
  <2> HIDE DEF Eligible, Engaged, Mistaken, Mishaps
  <2> QED
    BY <2>1, PaidStays
<1> QED
  BY <1>1 DEF PInv

\* Outside a dispatch an issue is judged by its labels and by the unit's lists.
LEMMA NotInHand ==
  ASSUME NEW i \in Issues, cur = NoIssue
  PROVE  /\ Eligible(i) = \/ {Ready, Progress} \cap labels[i] # {}
                          \/ i \in greenlit /\ (NoSched \/ i \in Waiting)
                          \/ i \in Waiting /\ class[i] = "redispatch"
         /\ Engaged(i) = ({Ready, Progress, Done} \cap labels[i] # {})
         /\ Mistaken(i) = (i \in Waiting /\ ~ NoSched /\ pc # "setup" /\ class[i] \notin {"done", "gate"})
BY Constants DEF Eligible, Engaged, Mistaken

\* The same after a step.
LEMMA NotInHandNext ==
  ASSUME NEW i \in Issues, cur' = NoIssue
  PROVE  /\ Eligible(i)' = \/ {Ready, Progress} \cap labels'[i] # {}
                           \/ i \in greenlit' /\ (NoSched' \/ i \in Waiting')
                           \/ i \in Waiting' /\ class'[i] = "redispatch"
         /\ Engaged(i)' = ({Ready, Progress, Done} \cap labels'[i] # {})
         /\ Mistaken(i)' = (i \in Waiting' /\ ~ NoSched' /\ pc' # "setup" /\ class'[i] \notin {"done", "gate"})
BY Constants DEF Eligible, Engaged, Mistaken

\* The end of a unit leaves what the labels say; cutting a dispatch short is a
\* mishap.
LEMMA LeavePays ==
  ASSUME IInv, IInv', PInv, Leave, UNCHANGED <<labels, launches, failures, trailers>>,
         Mishaps' >= Mishaps, cur = NoIssue \/ Mishaps' > Mishaps
  PROVE  PInv'
<1>1. /\ pc' = "idle" /\ cur' = NoIssue /\ greenlit' = {} /\ \A i \in Issues : class'[i] = "fresh"
      /\ NoSched'
  BY DEF Leave, Fresh, NoSched
<1>2. GatedIsDone'
  BY <1>1, Constants DEF GatedIsDone
<1>3. ASSUME NEW i \in Issues
      PROVE  /\ Eligible(i)' = ({Ready, Progress} \cap labels[i] # {})
             /\ Engaged(i)' = ({Ready, Progress, Done} \cap labels[i] # {})
             /\ ~ Mistaken(i)'
  BY <1>1, NotInHandNext
<1>4. ASSUME NEW i \in Issues PROVE Eligible(i)' \/ Engaged(i)' => Engaged(i)
  BY <1>3 DEF Engaged
<1>5. ASSUME NEW i \in Issues, cur = NoIssue PROVE Eligible(i)' => Eligible(i)
  BY <1>3, <1>5, NotInHand
<1> HIDE DEF Eligible, Engaged, Mistaken, Mishaps
<1> QED
  BY <1>1, <1>2, <1>3, <1>4, <1>5, UnitPays

\* A tick takes what is labelled ready, or an orphan.
LEMMA SelectPays ==
  ASSUME IInv, IInv', PInv, Tick \/ Recheck
  PROVE  PInv'
<1>1. /\ NoSched /\ NoSched' /\ cur = NoIssue /\ cur' = NoIssue
      /\ pc' \notin {"edit", "verify"}
      /\ UNCHANGED <<launches, failures, trailers, class, pending, graph, handed, crashes>>
      /\ \A i \in Issues : class[i] = "fresh"
  BY DEF Tick, Recheck, Goto, task, disk, history, scheduler, NoSched, IInv, TypeOK, SchedulerOK, Fresh
<1>2. Mishaps' >= Mishaps
  <2>1. FaultStep
    BY FaultSeen DEF IInv, FaultStep, Tick, Recheck, Succeeds
  <2> QED
    BY <1>1, <2>1, MishapsAdd DEF IInv
<1>3. ASSUME NEW i \in Issues
      PROVE  labels'[i] \subseteq labels[i] /\ (i \in greenlit' => i \in greenlit \/ Ready \in labels[i])
  <2>1. CASE Tick
    BY <2>1 DEF Tick, Snapshot, github
  <2>2. CASE Recheck
    <3>1. PICK T : /\ greenlit' = greenlit \/ greenlit' = greenlit \ T
                   /\ \/ UNCHANGED labels
                      \/ labels' = [k \in Issues |-> IF k \in T THEN labels[k] \ {Progress} ELSE labels[k]]
      BY <2>2 DEF Recheck
    <3> QED
      BY <3>1
  <2> QED
    BY <2>1, <2>2
<1>4. GatedIsDone'
  BY <1>1, Constants DEF GatedIsDone
<1>5. ASSUME NEW i \in Issues
      PROVE  /\ Eligible(i)' => Eligible(i)
             /\ Engaged(i)' => Engaged(i)
             /\ ~ Mistaken(i)'
  BY <1>1, <1>3, NotInHand, NotInHandNext
<1> HIDE DEF Eligible, Engaged, Mistaken, Mishaps
<1> QED
  BY <1>1, <1>2, <1>4, <1>5, UnitPays

\* A unit starts on what the tick selected.
LEMMA BeginPays ==
  ASSUME IInv, IInv', PInv, Begin, ~ Leave
  PROVE  PInv'
<1>1. /\ NoSched /\ pc' = "setup" /\ cur = NoIssue /\ cur' = NoIssue
      /\ UNCHANGED <<labels, launches, failures, trailers, greenlit, class, crashes>>
      /\ \A i \in Issues : class[i] = "fresh"
  BY DEF Begin, BlockersFail, StartUnit, github, disk, unit, task, history, NoSched, IInv, TypeOK,
         SchedulerOK, Fresh
<1>2. Mishaps' >= Mishaps
  <2>1. FaultStep
    BY FaultSeen DEF IInv, FaultStep, Begin, BlockersFail
  <2> QED
    BY <1>1, <2>1, MishapsAdd DEF IInv
<1>3. GatedIsDone'
  BY <1>1, Constants DEF GatedIsDone
<1>4. ASSUME NEW i \in Issues
      PROVE  /\ Eligible(i)' => Eligible(i)
             /\ Engaged(i)' => Engaged(i)
             /\ ~ Mistaken(i)'
  BY <1>1, NotInHand, NotInHandNext
<1> HIDE DEF Eligible, Engaged, Mistaken, Mishaps
<1> QED
  BY <1>1, <1>2, <1>3, <1>4, UnitPays

\* Recovery resumes what it finds in progress, gates what it finds done, and
\* takes a merged issue for another only where it could not read the branch.
LEMMA ReconstructPays ==
  ASSUME IInv, IInv', PInv, SetUp, ~ Leave
  PROVE  PInv'
<1>1. /\ ~ NoSched /\ ~ NoSched' /\ pc' = "frontier" /\ cur = NoIssue /\ cur' = NoIssue
      /\ UNCHANGED <<labels, launches, failures, trailers, greenlit, pending, graph, handed, crashes>>
  BY DEF SetUp, BranchFails, Goto, disk, task, scheduler, history, NoSched, IInv, TypeOK
<1>2. FaultStep
  BY FaultSeen DEF IInv, FaultStep, SetUp, BranchFails
<1>3. Mishaps' >= Mishaps /\ (Fails("provenance") => Mishaps' > Mishaps)
  BY <1>1, <1>2, MishapsAdd DEF IInv
<1>4. Waiting' = Waiting /\ Waiting \subseteq DOMAIN graph
  BY <1>1, HandedAreIssues DEF Waiting, IInv, InHand
<1>5. PICK merged, open, unreadable :
        /\ Reconstruct(merged, open, unreadable)
        /\ merged = trailers \/ (merged = {} /\ Fails("provenance"))
  BY DEF SetUp, BranchFails
<1>6. ASSUME NEW i \in Issues, i \in Waiting
      PROVE  /\ class'[i] = "redispatch" => Progress \in labels[i]
             /\ class'[i] = "gate" /\ i \notin trailers => Done \in labels[i]
             /\ i \in trailers /\ ~ Fails("provenance") => class'[i] \in {"done", "gate"}
  <2> DEFINE s == Seen(i, unreadable)
  <2>1. class'[i] = Rule(i, merged, open, s) /\ s \subseteq labels[i]
    BY <1>4, <1>5, <1>6 DEF Reconstruct, Seen
  <2> HIDE DEF s
  <2>2. i \in merged => i \in trailers
    BY <1>5
  <2> QED
    BY <1>5, <2>1, <2>2 DEF Rule
<1>7. GatedIsDone'
  BY <1>1, <1>4, <1>6, Constants DEF GatedIsDone
<1>8. ASSUME NEW i \in Issues
      PROVE  /\ Eligible(i)' => Eligible(i)
             /\ Engaged(i)' => Engaged(i)
             /\ i \in trailers /\ ~ Fails("provenance") => ~ Mistaken(i)'
  <2>1. Eligible(i)' => Eligible(i)
    BY <1>1, <1>4, <1>6, NotInHand, NotInHandNext
  <2>2. Engaged(i)' => Engaged(i)
    BY <1>1, NotInHand, NotInHandNext
  <2>3. i \in trailers /\ ~ Fails("provenance") => ~ Mistaken(i)'
    BY <1>1, <1>4, <1>6, NotInHandNext
  <2> QED
    BY <2>1, <2>2, <2>3
<1> HIDE DEF Eligible, Engaged, Mistaken, Mishaps
<1> QED
  BY <1>1, <1>3, <1>7, <1>8, UnitPays

\* Polling the scheduler leaves fewer issues to turn to.
LEMMA FrontierPays ==
  ASSUME IInv, IInv', PInv, Frontier
  PROVE  PInv'
<1>1. /\ ~ NoSched /\ ~ NoSched' /\ cur = NoIssue /\ cur' = NoIssue
      /\ pc # "setup" /\ pc' \notin {"edit", "verify", "setup"}
      /\ UNCHANGED <<labels, launches, failures, trailers, greenlit, class, crashes, faults>>
  BY DEF Frontier, Goto, github, disk, unit, task, history, NoSched, IInv, TypeOK
<1>2. Waiting' \subseteq Waiting
  <2>1. CASE Sched!GetReady /\ pending' = (pending \cup (handed' \ handed)) \ parked
    <3>1. graph' = graph /\ handed \subseteq handed' /\ handed' \subseteq DOMAIN graph
      <4>1. graph' = graph /\ handed \subseteq handed'
        BY <2>1 DEF Sched!GetReady
      <4>2. handed' \subseteq consumed' /\ consumed' \subseteq DOMAIN graph'
        BY <1>1 DEF IInv, SchedulerOK, SP!IInv, SP!TypeOK, SP!Nodes
      <4> QED
        BY <4>1, <4>2
    <3> QED
      BY <2>1, <3>1 DEF Waiting
  <2>2. CASE UNCHANGED <<pending, scheduler>>
    BY <2>2 DEF Waiting, scheduler
  <2> QED
    BY <2>1, <2>2 DEF Frontier
<1>3. Mishaps' = Mishaps /\ Mishaps \in Nat
  <2>1. Len(faults) \in Nat /\ crashes \in Nat
    BY Constants DEF IInv, TypeOK
  <2> QED
    BY <1>1, <2>1 DEF Mishaps
<1>4. GatedIsDone'
  <2> SUFFICES ASSUME NEW i \in Issues, i \notin trailers, i \in Waiting', class[i] = "gate"
               PROVE  Done \in labels[i]
    BY <1>1, Constants DEF GatedIsDone
  <2> QED
    BY <1>1, <1>2, Constants DEF GatedIsDone, PInv
<1>5. ASSUME NEW i \in Issues
      PROVE  /\ Eligible(i)' => Eligible(i)
             /\ Engaged(i)' => Engaged(i)
             /\ Mistaken(i)' => Mistaken(i)
  BY <1>1, <1>2, NotInHand, NotInHandNext
<1> HIDE DEF Eligible, Engaged, Mistaken, Mishaps
<1> QED
  BY <1>1, <1>3, <1>4, <1>5, UnitPays

\* What the loop turns to was waiting, and gets a worker only if the tick has it
\* or recovery resumes it.
LEMMA PickPays ==
  ASSUME IInv, IInv', PInv, Pick
  PROVE  PInv'
<1>1. /\ ~ NoSched /\ ~ NoSched' /\ cur = NoIssue
      /\ pc # "setup" /\ pc' \notin {"edit", "verify", "setup", "regate", "hook", "failedhook", "worker",
                                     "pr_created", "no_pr", "converge"}
      /\ UNCHANGED <<labels, launches, failures, trailers, greenlit, class, crashes, faults, graph, handed>>
  BY DEF Pick, NextIssue, MarkDone, github, disk, unit, history, scheduler, NoSched, IInv, TypeOK
<1>2. PICK j \in pending :
        /\ pending' = pending \ {j}
        /\ \/ cur' = NoIssue
           \/ /\ cur' = j /\ Actionable(j) /\ class[j] # "done"
              /\ pc' = "reentry" => class[j] = "gate"
              /\ pc' \in BeforeLaunch => class[j] \in {"redispatch", "fresh"}
              /\ pc' \in {"park", "reentry", "redispatch", "predispatch"}
              /\ park' \in {"STATE_INTACT", NoPark}
  <2>1. PICK j \in pending :
        /\ pending' = pending \ {j}
        /\ \/ NextIssue
           \/ /\ cur' = j /\ Actionable(j) /\ class[j] # "done"
              /\ pc' = CASE class[j] = "parked"     -> "park"
                         [] class[j] = "gate"       -> "reentry"
                         [] class[j] = "redispatch" -> "redispatch"
                         [] OTHER                   -> "predispatch"
              /\ park' = IF class[j] = "parked" THEN "STATE_INTACT" ELSE NoPark
    BY DEF Pick
  <2>2. class[j] \in {"fresh", "done", "gate", "parked", "redispatch"}
    BY DEF IInv, TypeOK
  <2> QED
    BY <2>1, <2>2 DEF NextIssue, BeforeLaunch
<1>3. Waiting' \subseteq Waiting /\ j \in Waiting /\ j \in Issues
  BY <1>1, <1>2 DEF Waiting, IInv, TypeOK
<1>4. Mishaps' = Mishaps /\ Mishaps \in Nat
  <2>1. Len(faults) \in Nat /\ crashes \in Nat
    BY Constants DEF IInv, TypeOK
  <2> QED
    BY <1>1, <2>1 DEF Mishaps
<1>5. GatedIsDone'
  <2> SUFFICES ASSUME NEW i \in Issues, i \notin trailers,
                      \/ i \in Waiting' /\ class[i] = "gate"
                      \/ cur' = i /\ pc' = "reentry"
               PROVE  Done \in labels[i]
    BY <1>1 DEF GatedIsDone
  <2>1. i \in Waiting /\ class[i] = "gate"
    BY <1>2, <1>3, Constants
  <2> QED
    BY <1>1, <2>1, Constants DEF GatedIsDone, PInv
<1>6. ASSUME NEW i \in Issues, cur' # i
      PROVE  /\ Eligible(i)' => Eligible(i)
             /\ Engaged(i)' => Engaged(i)
             /\ Mistaken(i)' => Mistaken(i)
  BY <1>1, <1>3, <1>6, Constants DEF Eligible, Engaged, Mistaken
<1>7. ASSUME cur' = j
      PROVE  /\ Eligible(j)' => Eligible(j)
             /\ Engaged(j)' => Engaged(j)
             /\ Mistaken(j)' => Mistaken(j)
  <2>1. pc' \in BeforeLaunch => Eligible(j) /\ Mistaken(j)
    BY <1>1, <1>2, <1>3, <1>7, NotInHand, Constants DEF Actionable
  <2>2. Eligible(j)' => Ready \in labels[j] \/ pc' \in BeforeLaunch
    BY <1>1, <1>2, <1>3, <1>7, Constants DEF Eligible, InHandEligible, NoPark
  <2>3. Engaged(j)' => Engaged(j)
    BY <1>1, <1>2, <1>3, <1>7, Constants DEF Engaged, AtWork, NoPark
  <2>4. Mistaken(j)' => pc' \in BeforeLaunch
    BY <1>7 DEF Mistaken
  <2>5. Ready \in labels[j] => Eligible(j)
    BY <1>1, <1>3, NotInHand
  <2> QED
    BY <2>1, <2>2, <2>3, <2>4, <2>5
<1>8. ASSUME NEW i \in Issues
      PROVE  /\ Eligible(i)' => Eligible(i)
             /\ Engaged(i)' => Engaged(i)
             /\ Mistaken(i)' => Mistaken(i)
  <2>1. CASE cur' # i
    BY <1>6, <2>1
  <2>2. CASE cur' = i
    <3>1. i = j
      BY <1>2, <2>2, Constants
    <3> QED
      BY <1>7, <2>2, <3>1
  <2> QED
    BY <2>1, <2>2
<1> HIDE DEF Eligible, Engaged, Mistaken, Mishaps
<1> QED
  BY <1>1, <1>4, <1>5, <1>8, UnitPays

\* However a unit ends: returned, raised or killed.
LEMMA EndPays ==
  ASSUME IInv, IInv', PInv, Leave, Begin \/ SetUp \/ Claim \/ Complete \/ Crash
  PROVE  PInv'
<1>1. UNCHANGED <<labels, launches, failures, trailers>>
  <2>1. CASE Claim
    <3>1. pc' # "launch"
      BY DEF Leave
    <3> QED
      BY <2>1, <3>1 DEF Claim, CheckoutFails, Goto, disk, history
  <2>2. CASE Begin \/ SetUp \/ Complete \/ Crash
    BY <2>2 DEF Begin, SetUp, Complete, Crash, github, disk, history
  <2> QED
    BY <2>1, <2>2
<1>2. CASE Crash
  <2>1. crashes' = crashes + 1 /\ faults' = faults /\ crashes \in Nat /\ Len(faults) \in Nat
    BY <1>2, Constants DEF Crash, IInv, TypeOK
  <2>2. Mishaps' > Mishaps /\ Mishaps' >= Mishaps
    BY <2>1 DEF Mishaps
  <2> QED
    BY <1>1, <2>2, LeavePays
<1>3. CASE Claim
  <2>1. Fails("checkout") /\ crashes' = crashes
    <3>1. pc' # "launch"
      BY DEF Leave
    <3> QED
      BY <1>3, <3>1 DEF Claim, CheckoutFails, Goto, history
  <2>2. Mishaps' > Mishaps /\ Mishaps' >= Mishaps
    BY <2>1, FaultSeen, MishapsAdd DEF IInv
  <2> QED
    BY <1>1, <2>2, LeavePays
<1>4. CASE Begin \/ SetUp \/ Complete
  <2>1. FaultStep /\ crashes' = crashes
    BY <1>4, FaultSeen DEF Begin, BlockersFail, SetUp, BranchFails, Complete, history, FaultStep, IInv
  <2>2. Mishaps' >= Mishaps
    BY <2>1, MishapsAdd DEF IInv
  <2>3. cur = NoIssue
    BY <1>4 DEF Begin, SetUp, Complete, IInv, TypeOK
  <2> QED
    BY <1>1, <2>2, <2>3, LeavePays
<1> QED
  BY <1>2, <1>3, <1>4

\* A human who asks for a worker opens a new account; whatever else one does
\* gives no issue a label that a worker could be started on.
LEMMA HumanEditShape ==
  ASSUME NEW act \in Acts, NEW L \in SUBSET AllLabels, HumanEdit(act, L) # L
  PROVE  /\ Done \in HumanEdit(act, L) <=> Done \in L
         /\ Progress \in HumanEdit(act, L) => Progress \in L
         /\ act \notin {"greenlight", "requeue"} => HumanEdit(act, L) \cap {Ready} \subseteq L
<1>1. Done \in AllLabels /\ Progress \in AllLabels
  BY LabelNames
<1>2. Done \notin Excluded /\ Done # Ready /\ Done # Blocked /\ Done # Failed
      /\ Progress # Ready /\ Progress # Blocked /\ Ready # Blocked
  BY LabelsDiffer DEF Excluded, StateLabels
<1> QED
  BY <1>1, <1>2 DEF HumanEdit, Edit, Acts

\* Who asks for a worker starts the count of launches over.
LEMMA HumanPays ==
  ASSUME IInv, IInv', PInv, NEW h \in Issues, Human(h)
  PROVE  PInv'
<1>1. UNCHANGED <<failures, trailers, pc, greenlit, class, pending, cur, park, edit, graph, handed,
                  crashes, faults>>
  BY DEF Human, disk, unit, task, scheduler
<1>2. PICK act \in Acts :
        /\ HumanEdit(act, labels[h]) # labels[h]
        /\ labels' = [labels EXCEPT ![h] = HumanEdit(act, @)]
        /\ launches' = IF act \in {"greenlight", "requeue"} THEN [launches EXCEPT ![h] = 0] ELSE launches
  BY Constants DEF Human
<1>3. labels[h] \in SUBSET AllLabels /\ labels'[h] = HumanEdit(act, labels[h])
      /\ \A i \in Issues \ {h} : labels'[i] = labels[i] /\ launches'[i] = launches[i]
  BY <1>2 DEF IInv, TypeOK
<1>4. /\ Done \in labels'[h] <=> Done \in labels[h]
      /\ Progress \in labels'[h] => Progress \in labels[h]
      /\ act \notin {"greenlight", "requeue"} => (Ready \in labels'[h] => Ready \in labels[h])
  BY <1>2, <1>3, HumanEditShape
<1>5. Mishaps' = Mishaps /\ Mishaps \in Nat /\ Waiting' = Waiting /\ NoSched' = NoSched
  <2>1. Len(faults) \in Nat /\ crashes \in Nat
    BY Constants DEF IInv, TypeOK
  <2> QED
    BY <1>1, <2>1 DEF Mishaps, Waiting, NoSched
<1>6. ASSUME NEW i \in Issues,
             i # h \/ act \notin {"greenlight", "requeue"}
      PROVE  Paid(i)'
  <2>1. /\ launches'[i] = launches[i]
        /\ {Ready, Progress, Done} \cap labels'[i] \subseteq labels[i]
        /\ Done \in labels[i] => Done \in labels'[i]
    BY <1>2, <1>3, <1>4, <1>6
  <2>2. InHandEligible' /\ cur = i => InHandEligible
    BY <1>1, <2>1 DEF InHandEligible, AtWork
  <2>3. /\ Eligible(i)' => Eligible(i)
        /\ Engaged(i)' => Engaged(i)
        /\ Mistaken(i)' => Mistaken(i)
    BY <1>1, <1>5, <2>1, <2>2 DEF Eligible, Engaged, AtWork, Mistaken
  <2>4. TypeOK /\ TypeOK' /\ Paid(i)
    BY DEF IInv, PInv
  <2> HIDE DEF Eligible, Engaged, Mistaken, Mishaps
  <2> QED
    BY <1>1, <1>5, <2>1, <2>3, <2>4, PaidStays
<1>7. ASSUME act \in {"greenlight", "requeue"} PROVE Paid(h)'
  <2>1. launches'[h] = 0
    BY <1>2, <1>7 DEF IInv, TypeOK
  <2>2. MaxFailures \in Nat \ {0} /\ Charged(h)' \in Nat
    BY <1>1, PaidTypes DEF Charged, IInv
  <2> HIDE DEF Eligible, Engaged, Mistaken, Mishaps, Charged
  <2> QED
    BY <1>5, <2>1, <2>2 DEF Paid
<1>8. \A i \in Issues : Paid(i)'
  BY <1>6, <1>7
<1>9. GatedIsDone'
  <2>1. \A i \in Issues : Done \in labels[i] => Done \in labels'[i]
    BY <1>3, <1>4
  <2> QED
    BY <1>1, <1>5, <2>1 DEF GatedIsDone, PInv
<1>10. pc = "verify" => Progress \notin labels'[cur]
  <2>1. pc = "verify" => cur \in Issues /\ Progress \notin labels[cur]
    BY HasIssue DEF InHandPcs, Pcs, PInv
  <2> QED
    BY <1>3, <1>4, <2>1
<1> QED
  BY <1>1, <1>8, <1>9, <1>10 DEF PInv

\* Nothing has been launched yet.
LEMMA InitPays == Init => PInv
<1> SUFFICES ASSUME Init PROVE PInv
  OBVIOUS
<1>1. IInv
  BY InitInv
<1>2. ASSUME NEW i \in Issues PROVE Paid(i)
  <2>1. launches[i] = 0 /\ trailers = {}
    BY DEF Init
  <2>2. Mishaps \in Nat /\ MaxFailures \in Nat \ {0} /\ Charged(i) \in 0..(MaxFailures - 1)
    BY <1>1, PaidTypes DEF IInv
  <2> HIDE DEF Eligible, Engaged, Mistaken, Mishaps, Charged
  <2> QED
    BY <2>1, <2>2 DEF Paid
<1> QED
  BY <1>2, Constants DEF Init, PInv, GatedIsDone, Fresh

\* A stuttering step keeps the accounts.
LEMMA IdlePays == PInv /\ UNCHANGED vars => PInv'
<1> SUFFICES ASSUME PInv, UNCHANGED vars PROVE PInv'
  OBVIOUS
<1>1. UNCHANGED <<labels, launches, failures, trailers, pc, greenlit, class, pending, cur, park, edit,
                  graph, handed, crashes, faults>>
  BY DEF vars, github, disk, unit, task, scheduler, history
<1> QED
  BY <1>1 DEF PInv, GatedIsDone, Paid, Eligible, InHandEligible, Engaged, AtWork, Mistaken, Charged, Mishaps,
              Waiting, NoSched

\* Every step keeps the accounts.
LEMMA NextPays == IInv /\ IInv' /\ PInv /\ [Next]_vars => PInv'
BY SelectPays, BeginPays, ReconstructPays, FrontierPays, PickPays, PassOnPays, ClaimPays, LaunchPays,
   WorkPays, OutcomePays, GatePays, MarkMergedPays, ParkDecidePays, ParkEditPays, ParkVerifyPays,
   EndPays, HumanPays, IdlePays DEF Next, Daemon, Complete, Crash

\* Between two human requests an issue gets a worker at most once per failure
\* that park_issue charges, and once more per crash or failed call: no order of
\* parks, relabellings, recoveries and restarts runs workers on it for ever.
THEOREM ReworkIsBounded == Spec => []LaunchBound
<1>1. IInv /\ PInv => LaunchBound
  <2> SUFFICES ASSUME IInv, PInv, NEW i \in Issues
               PROVE  launches[i] <= MaxFailures + crashes + Len(faults)
    BY DEF LaunchBound
  <2>1. /\ launches[i] <= MaxFailures + Mishaps
        /\ MaxFailures \in Nat /\ crashes \in Nat /\ Len(faults) \in Nat
    BY Constants DEF PInv, Paid, IInv, TypeOK
  <2> QED
    BY <2>1 DEF Mishaps
<1>2. Init => IInv /\ PInv
  BY InitInv, InitPays
<1>3. IInv /\ PInv /\ [Next]_vars => (IInv /\ PInv)'
  BY NextInv, NextPays
<1> QED
  BY <1>1, <1>2, <1>3, PTL DEF Spec

=============================================================================
