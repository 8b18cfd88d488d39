------------------------------ MODULE PollLoop ------------------------------
(***************************************************************************)
(* The daemon's process and its ticks (chain/daemon/poll.py), with the     *)
(* start-up checks (chain/reconcile.py) and the worktree sweep             *)
(* (chain/recovery.py).                                                    *)
(*                                                                         *)
(* A tick lists the greenlit issues, reads each one's labels again, and    *)
(* drains them: milestones first, then single issues, one work unit after  *)
(* the other.  Before every unit but the first, the labels are read once   *)
(* more, for hours may have passed.  Then it looks for orphans, issues in  *)
(* progress that no unit of the tick has taken care of, runs their units,  *)
(* and sweeps the worktrees, each with three probes and a removal, while   *)
(* processes left over from an earlier daemon may still write to it.       *)
(* WorkUnit has one work unit in detail; here one is a few steps that      *)
(* leave any labels a work unit leaves.                                    *)
(***************************************************************************)
EXTENDS Labels, Naturals, FiniteSets, FiniteSetsExt

CONSTANTS
  Issues,         \* issue numbers
  MilestoneOf,    \* the milestone of each issue, 0 for none
  Left,           \* what a dispatch may leave in its worktree
  Reclaim,        \* BH_WORKTREE_GC = "reclaim"
  Possible,       \* the troubles that may happen: calls that fail, signals, humans
  MaxTroubles     \* how many of them do

\* A worktree is the set of what is in it, and absent when that is nothing: its
\* tree, changes that are not committed, and commits that no upstream has.
Unsaved  == {"edits", "commits"}
Contents == SUBSET ({"tree"} \cup Unsaved)

ASSUME PollConstantsOK ==
  /\ Left \subseteq {w \in Contents : "tree" \in w}
  /\ Issues \subseteq Nat /\ IsFiniteSet(Issues) /\ MilestoneOf \in [Issues -> Nat]
  /\ Reclaim \in BOOLEAN /\ IsFiniteSet(Possible) /\ MaxTroubles \in Nat

VARIABLES
  \* GitHub, and the worktrees of the daemon's machine
  labels, open,
  wt,              \* what is in the worktree of each issue
  \* the process
  pc,
  marker,          \* .baton-harness/daemon.alive
  told,            \* G2 has reported that the run before this one was killed
  \* the tick
  ready,           \* ready_issues, all_ready_nums once re-checked
  unread,          \* issues still to be read again
  remaining,
  drained,         \* _drain_idx > 0
  unit,            \* the work unit in hand
  doneUnits,       \* processed_ms_nums and processed_issue_nums, of the drain
  orphans, seen,   \* orphans_raw still to be looked at; seen_orphan_*
  scan,            \* worktrees still to be examined
  exam,            \* the one under examination, if any
  \* what was true when, for the properties
  prior,           \* how the last run that had begun to work ended
  due, ran, skipped,   \* units owed, run and skipped in this tick
  live,            \* issues that have been dispatchable since the last unit ended
  cut,             \* the tick was cut short by a failing call or an exception
  old,             \* unsaved work under examination that was there at its beginning
  troubles, happened  \* how many there were, and those that a property excuses

world   == <<labels, open, wt>>
process == <<marker, told, prior>>
drain   == <<ready, remaining, drained, doneUnits>>
orphan  == <<orphans, seen>>
tally   == <<due, ran, skipped>>
ends    == <<cut>>
sweep   == <<exam, old>>
trouble == <<troubles, happened>>
vars == <<world, pc, process, drain, unread, unit, orphan, scan, sweep, tally, live, ends, trouble>>

\* A unit is a milestone or a single issue.
UnitOf(n) == IF MilestoneOf[n] # 0 THEN <<"milestone", MilestoneOf[n]>> ELSE <<"issue", n>>
Members(u) == {n \in Issues : UnitOf(n) = u}

NoUnit  == [id |-> <<"none", 0>>, members |-> {}, greenlit |-> {}, todo |-> {}]
Probing == {"status", "ahead", "remove"}
Working == {"tick", "recheck", "select", "check", "unit", "orphan", "sweep", "sleep"} \cup Probing

Goto(p) == pc' = p
Strikes(t) ==
  /\ t \in Possible /\ troubles < MaxTroubles
  /\ troubles' = troubles + 1
  /\ happened' = happened \cup ({t} \cap {"marker", "status"})
Works    == UNCHANGED trouble
Fails(c) == Strikes(c)

Dispatchable(n) == Ready \in labels[n] /\ labels[n] \cap Excluded = {}
ExcludedNow(n)  == Ready \in labels[n] /\ labels[n] \cap Excluded # {}

\* The issues that have been dispatchable at some moment, kept up to date by
\* every step that changes labels.
Lively == live' = live \cup {n \in Issues : Dispatchable(n)'}

-----------------------------------------------------------------------------
(* The process.                                                            *)

\* Nothing of a tick outlives it.
NoTick ==
  /\ ready' = {} /\ unread' = {} /\ remaining' = {} /\ drained' = FALSE /\ unit' = NoUnit
  /\ doneUnits' = {} /\ orphans' = {} /\ seen' = {} /\ scan' = {} /\ exam' = {} /\ old' = {}
  /\ due' = {} /\ ran' = {} /\ skipped' = {} /\ live' = {} /\ cut' = FALSE

InTick == UNCHANGED <<process, open, wt, sweep>>

\* reconcile_startup: the credential gates, each of which exits on failure.  A
\* daemon killed there leaves as little behind.
Boot ==
  /\ pc = "down"
  /\ \/ Works /\ Goto("look")
     \/ Fails("gates") /\ Goto("down")
  /\ told' = FALSE
  /\ NoTick /\ UNCHANGED <<world, marker, prior>>

\* Mutant of Look: the old marker is cleared away once it has been reported.
LookAndClear ==
  /\ pc = "look" /\ Works
  /\ told' = marker /\ marker' = FALSE /\ Goto("write")
  /\ NoTick /\ UNCHANGED <<world, prior>>

\* G2: a marker that is there was left by a run that did not end by itself, and is
\* reported.  An exception skips the rest of G2.
Look ==
  /\ pc = "look"
  /\ \/ Works /\ told' = marker /\ Goto("write")
     \/ Fails("marker") /\ told' \in {FALSE, marker} /\ Goto("started")
  /\ NoTick /\ UNCHANGED <<world, marker, prior>>

\* The end of G2: the marker of this run.
Write ==
  /\ pc = "write" /\ Goto("started")
  /\ \/ Works /\ marker' = TRUE
     \/ Fails("marker") /\ UNCHANGED marker
  /\ NoTick /\ UNCHANGED <<world, told, prior>>

\* G1, which only reports, and run_daemon up to its loop: the signal handler is
\* installed here.
Start ==
  /\ pc = "started" /\ Works /\ Goto("tick")
  /\ NoTick /\ UNCHANGED <<world, process>>

\* SIGTERM raises SystemExit from its handler, or Ctrl-C KeyboardInterrupt.
Terminate ==
  /\ pc \in Working /\ Strikes("term")
  /\ Goto("handler")
  /\ NoTick /\ UNCHANGED <<world, process>>

\* The first to remove the marker: the handler, or else the finally block.
Unlink ==
  /\ pc = "handler" /\ Goto("stopping")
  /\ \/ Works /\ marker' = FALSE
     \/ Fails("marker") /\ UNCHANGED marker
  /\ NoTick /\ UNCHANGED <<world, told, prior>>

\* The rest of the finally block: after a SIGTERM it tries to remove the marker
\* once more; then the report is written and the process ends.
Exit ==
  /\ pc = "stopping" /\ Works
  /\ marker' \in {FALSE, marker} /\ prior' = "clean" /\ Goto("down")
  /\ NoTick /\ UNCHANGED <<world, told>>

\* SIGKILL, the OOM killer or a power cut before the marker of this run is
\* written; a SIGTERM as well, which has no handler yet.
KillStarting ==
  /\ pc \in {"look", "write"} /\ (Strikes("kill") \/ Strikes("term"))
  /\ Goto("down")
  /\ NoTick /\ UNCHANGED <<world, process>>

\* The same for a run that has begun to work.
Kill ==
  /\ \/ pc \in Working \cup {"started", "handler"} /\ Strikes("kill")
     \/ pc = "started" /\ Strikes("term")
  /\ prior' = "killed" /\ Goto("down")
  /\ NoTick /\ UNCHANGED <<world, marker, told>>

\* The same while the finally block runs, after the marker has been removed.
KillStopping ==
  /\ pc = "stopping" /\ Strikes("kill")
  /\ prior' = "late" /\ Goto("down")
  /\ NoTick /\ UNCHANGED <<world, marker, told>>

\* asyncio.sleep between two ticks.
Sleep ==
  /\ pc = "sleep" /\ Works /\ Goto("tick")
  /\ NoTick /\ UNCHANGED world /\ UNCHANGED process

-----------------------------------------------------------------------------
(* Listing and re-check.                                                   *)

\* The tick ends before its time; run_daemon carries on.
CutShort == Goto("sleep") /\ cut' = TRUE

\* gh issue list --label agent-ready.
Snapshot ==
  /\ pc = "tick"
  /\ \/ /\ Works /\ Goto("recheck")
        /\ ready' = {n \in open : Dispatchable(n)}
        /\ unread' = ready' /\ live' = ready'
        /\ UNCHANGED ends
     \/ Fails("list") /\ CutShort /\ UNCHANGED <<ready, unread, live>>
  /\ UNCHANGED <<labels, remaining, drained, doneUnits, unit, orphan, scan, tally>> /\ InTick

\* The live re-check of #128, issue by issue: one that has become excluded loses
\* agent-in-progress and is left out; one that cannot be read stays.
Recheck ==
  /\ pc = "recheck"
  /\ \E n \in unread :
       /\ unread' = unread \ {n}
       /\ \/ ~ ExcludedNow(n) /\ Works /\ UNCHANGED <<labels, ready>>
          \/ Fails("labels") /\ UNCHANGED <<labels, ready>>
          \/ /\ ExcludedNow(n) /\ ready' = ready \ {n}
             /\ \/ Works /\ labels' = [labels EXCEPT ![n] = @ \ {Progress}]
                \/ Fails("edit") /\ UNCHANGED labels
  /\ Lively
  /\ UNCHANGED <<pc, remaining, drained, doneUnits, unit, orphan, scan, tally, ends>> /\ InTick

\* Mutant of BeginDrain: what the re-check left out is drained all the same.
BeginDrainAll ==
  /\ pc = "recheck" /\ unread = {}
  /\ remaining' = {n \in open : Ready \in labels[n]} /\ due' = {UnitOf(n) : n \in remaining'}
  /\ Goto("select") /\ Works
  /\ UNCHANGED <<labels, ready, drained, doneUnits, unread, unit, orphan, scan, ran, skipped, live, ends>>
  /\ InTick

BeginDrain ==
  /\ pc = "recheck" /\ unread = {}
  /\ remaining' = ready /\ due' = {UnitOf(n) : n \in ready}
  /\ Goto("select") /\ Works
  /\ UNCHANGED <<labels, ready, drained, doneUnits, unread, unit, orphan, scan, ran, skipped, live, ends>>
  /\ InTick

-----------------------------------------------------------------------------
(* The drain.                                                              *)

\* _select_work_unit: the lowest milestone, or else the lowest issue.
Selected ==
  LET milestones == {MilestoneOf[n] : n \in remaining} \ {0} IN
  IF milestones # {} THEN <<"milestone", Min(milestones)>> ELSE <<"issue", Min(remaining)>>

\* The open issues of a unit; for a milestone, when they cannot be listed, the
\* ones that are known.
Membership(u, known) ==
  LET all == Members(u) \cap open IN
  \/ u[1] = "issue" /\ Works /\ unit' = [unit EXCEPT !.id = u, !.members = known]
  \/ u[1] = "milestone" /\ Works
       /\ unit' = [unit EXCEPT !.id = u, !.members = IF all # {} THEN all ELSE known]
  \/ u[1] = "milestone" /\ Fails("members") /\ unit' = [unit EXCEPT !.id = u, !.members = known]

\* Mutant of Select: the selected unit stays among the remaining.
SelectKeeps ==
  /\ pc = "select" /\ remaining # {}
  /\ LET u == Selected IN
       /\ Membership(u, Members(u) \cap remaining)
       /\ UNCHANGED remaining
       /\ doneUnits' = doneUnits \cup {u}
  /\ unread' = IF drained THEN unit'.members \cap ready ELSE {}
  /\ drained' = TRUE /\ Goto("check")
  /\ UNCHANGED <<labels, ready, orphan, scan, tally, live, ends>> /\ InTick

\* Mutant of Select: single issues are dropped with the first milestone.
SelectDropsSingles ==
  /\ pc = "select" /\ remaining # {}
  /\ LET u == Selected IN
       /\ Membership(u, Members(u) \cap remaining)
       /\ remaining' = {n \in remaining : UnitOf(n) # u /\ UnitOf(n)[1] = u[1]}
       /\ doneUnits' = doneUnits \cup {u}
  /\ unread' = IF drained THEN unit'.members \cap ready ELSE {}
  /\ drained' = TRUE /\ Goto("check")
  /\ UNCHANGED <<labels, ready, orphan, scan, tally, live, ends>> /\ InTick

Select ==
  /\ pc = "select" /\ remaining # {}
  /\ LET u == Selected IN
       /\ Membership(u, Members(u) \cap remaining)
       /\ remaining' = {n \in remaining : UnitOf(n) # u}
       /\ doneUnits' = doneUnits \cup {u}
  /\ unread' = IF drained THEN unit'.members \cap ready ELSE {}
  /\ drained' = TRUE /\ Goto("check")
  /\ UNCHANGED <<labels, ready, orphan, scan, tally, live, ends>> /\ InTick

\* Mutant of MidDrain: a greenlight that was taken back is not noticed.
MidDrainLenient ==
  /\ pc = "check"
  /\ \E n \in unread :
       \/ ~ ExcludedNow(n) /\ Works /\ unread' = unread \ {n} /\ UNCHANGED <<pc, unit, skipped>>
       \/ /\ (ExcludedNow(n) /\ Works) \/ Fails("labels")
          /\ unread' = {} /\ skipped' = skipped \cup {unit.id} /\ unit' = NoUnit /\ Goto("select")
  /\ UNCHANGED <<labels, drain, orphan, scan, due, ran, live, ends>> /\ InTick

\* The re-check of #132: a greenlit member that is excluded, no longer greenlit
\* or unreadable keeps the whole unit back.
MidDrain ==
  /\ pc = "check"
  /\ \E n \in unread :
       \/ Dispatchable(n) /\ Works /\ unread' = unread \ {n} /\ UNCHANGED <<pc, unit, skipped>>
       \/ /\ (~ Dispatchable(n) /\ Works) \/ Fails("labels")
          /\ unread' = {} /\ skipped' = skipped \cup {unit.id} /\ unit' = NoUnit /\ Goto("select")
  /\ UNCHANGED <<labels, drain, orphan, scan, due, ran, live, ends>> /\ InTick

-----------------------------------------------------------------------------
(* A work unit.                                                            *)

\* In the drain the greenlit members are acted on; an orphan's unit has none.
StartUnit ==
  /\ pc = "check" /\ unread = {}
  /\ unit' = [unit EXCEPT !.greenlit = IF seen = {} THEN ready ELSE {},
                          !.todo = unit.members]
  /\ ran' = ran \cup {unit.id}
  /\ Goto("unit") /\ Works
  /\ UNCHANGED <<labels, drain, unread, orphan, scan, due, skipped, live, ends>> /\ InTick

\* What a dispatch leaves on an issue (greenlit, in progress or parked) and in
\* its worktree.
WorkOn ==
  /\ pc = "unit"
  /\ \E n \in unit.todo :
       /\ n \in unit.greenlit \/ Progress \in labels[n]
       /\ \E left \in {{Ready}, {Progress}, {Blocked}} : labels' = [labels EXCEPT ![n] = left]
       /\ \E w \in Left : wt' = [wt EXCEPT ![n] = w]
       /\ unit' = [unit EXCEPT !.todo = @ \ {n}]
  /\ Lively /\ Works
  /\ UNCHANGED <<open, process, pc, drain, unread, orphan, scan, sweep, tally, ends>>

\* _run_work_unit returns, with or without having come to all its members, or
\* raises.
EndUnit ==
  /\ pc = "unit"
  /\ \/ Works /\ Goto(IF seen = {} THEN "select" ELSE "orphan") /\ UNCHANGED ends
     \/ Fails("unit") /\ CutShort
  /\ unit' = NoUnit /\ live' = {n \in Issues : Dispatchable(n)}
  /\ UNCHANGED <<labels, drain, unread, orphan, scan, tally>> /\ InTick

-----------------------------------------------------------------------------
(* Orphans.                                                                *)

\* gh issue list --label agent-in-progress; without orphans the tick is over.
ListOrphans ==
  /\ pc = "select" /\ remaining = {}
  /\ \/ /\ Works
        /\ orphans' = {n \in open : Progress \in labels[n]}
        /\ due' = due \cup {UnitOf(n) : n \in orphans'}
        /\ Goto(IF orphans' = {} THEN "sleep" ELSE "orphan")
        /\ UNCHANGED ends
     \/ Fails("list") /\ CutShort /\ UNCHANGED <<orphans, due>>
  /\ UNCHANGED <<labels, drain, unread, unit, seen, scan, ran, skipped, live>> /\ InTick

\* Mutant of NextOrphan: what the drain has processed is not passed over.
NextOrphanAnew ==
  /\ pc = "orphan"
  /\ \E n \in orphans :
       LET u == UnitOf(n) IN
       IF u \in seen
         THEN orphans' = orphans \ {n} /\ Works /\ UNCHANGED <<pc, unit, seen>>
         ELSE /\ Membership(u, {n})
              /\ seen' = seen \cup {u} /\ Goto("check") /\ UNCHANGED orphans
  /\ UNCHANGED <<labels, drain, unread, scan, tally, live, ends>> /\ InTick

\* One orphan after the other, passing over the units that the drain has been
\* through and those seeded before.
NextOrphan ==
  /\ pc = "orphan"
  /\ \E n \in orphans :
       LET u == UnitOf(n) IN
       IF u \in doneUnits \cup seen
         THEN orphans' = orphans \ {n} /\ Works /\ UNCHANGED <<pc, unit, seen>>
         ELSE /\ Membership(u, {n})
              /\ seen' = seen \cup {u} /\ Goto("check") /\ UNCHANGED orphans
  /\ UNCHANGED <<labels, drain, unread, scan, tally, live, ends>> /\ InTick

-----------------------------------------------------------------------------
(* The worktree sweep.                                                     *)

\* _parse_worktree_list: only a worktree whose branch is baton/<n> is looked at;
\* which those are is left open, see the README.
Numbered == SUBSET {n \in Issues : wt[n] # {}}

\* git worktree list.
BeginSweep ==
  /\ pc = "orphan" /\ orphans = {}
  /\ \/ /\ Works /\ Goto("sweep")
        /\ \E numbered \in Numbered :
             scan' = {n \in numbered : <<"issue", n>> \notin doneUnits}
     \/ Fails("worktrees") /\ Goto("sleep") /\ UNCHANGED scan
  /\ UNCHANGED <<labels, drain, unread, unit, orphan, tally, live, cut>> /\ InTick

\* _fetch_issue_state_and_labels: the issue is closed and no worker holds it.
Finished(n) == n \notin open /\ Progress \notin labels[n]

\* gh issue view; what cannot be read is kept.
View ==
  /\ pc = "sweep"
  /\ \E n \in scan :
       /\ scan' = scan \ {n}
       /\ \/ /\ Finished(n) /\ Works /\ Goto("status")
             /\ exam' = {n} /\ old' = wt[n] \cap Unsaved
          \/ ((~ Finished(n) /\ Works) \/ Fails("issue")) /\ UNCHANGED <<pc, sweep>>
  /\ UNCHANGED <<world, process, drain, unread, unit, orphan, tally, live, ends>>

\* The examination is over.
Examined == Goto("sweep") /\ exam' = {} /\ old' = {}

InSweep == UNCHANGED <<labels, open, process, drain, unread, unit, orphan, scan, tally, live, ends>>

\* Mutant of Status: changes in the tree are not looked at.
StatusSkipped ==
  /\ pc = "status" /\ Works /\ Goto("ahead")
  /\ UNCHANGED <<wt, sweep>> /\ InSweep

\* _is_worktree_live, git status: changes keep the worktree.  When it fails, the
\* changes are not seen and the examination goes on.
Status ==
  /\ pc = "status"
  /\ \E n \in exam :
       \/ "edits" \in wt[n] /\ Works /\ Examined
       \/ (("edits" \notin wt[n] /\ Works) \/ Fails("status")) /\ Goto("ahead") /\ UNCHANGED sweep
  /\ UNCHANGED wt /\ InSweep

\* _is_worktree_live, git log @{u}..: commits ahead of the upstream, no upstream
\* and a failure all keep the worktree.
Ahead ==
  /\ pc = "ahead"
  /\ \E n \in exam :
       \/ (("commits" \in wt[n] /\ Works) \/ Fails("ahead")) /\ Examined
       \/ "commits" \notin wt[n] /\ Works /\ Goto("remove") /\ UNCHANGED sweep
  /\ UNCHANGED wt /\ InSweep

\* The alert, and then cleanup_worktree: git worktree remove --force, or rmtree.
Remove ==
  /\ pc = "remove" /\ Works /\ Examined
  /\ wt' = IF Reclaim THEN [n \in Issues |-> IF n \in exam THEN {} ELSE wt[n]] ELSE wt
  /\ InSweep

EndSweep ==
  /\ pc = "sweep" /\ scan = {}
  /\ Goto("sleep") /\ Works
  /\ UNCHANGED <<labels, drain, unread, unit, orphan, scan, tally, live, ends>> /\ InTick

-----------------------------------------------------------------------------
\* A process in a worktree that outlived its daemon (G1 reports those, and stops
\* none), or a human, changes files, commits, or pushes.
Stray ==
  /\ Strikes("stray")
  /\ \E n \in Issues :
       \/ /\ wt[n] # {}
          /\ wt' = [wt EXCEPT ![n] = @ \cup {"edits"}] /\ UNCHANGED old
       \/ /\ "edits" \in wt[n]
          /\ wt' = [wt EXCEPT ![n] = (@ \ {"edits"}) \cup {"commits"}]
          /\ old' = IF n \in exam /\ "edits" \in old THEN (old \ {"edits"}) \cup {"commits"} ELSE old
       \/ /\ "commits" \in wt[n]
          /\ wt' = [wt EXCEPT ![n] = @ \ {"commits"}]
          /\ old' = IF n \in exam THEN old \ {"commits"} ELSE old
  /\ UNCHANGED <<labels, open, process, pc, drain, unread, unit, orphan, scan, exam, tally, live, ends>>

\* A human greenlights, takes a greenlight back, blocks, answers, or closes.
Human ==
  /\ \E n \in open :
       \/ Strikes("greenlight") /\ labels' = [labels EXCEPT ![n] = (@ \cup {Ready}) \ Excluded]
            /\ UNCHANGED open
       \/ Strikes("ungreenlight") /\ labels' = [labels EXCEPT ![n] = @ \ {Ready}] /\ UNCHANGED open
       \/ Strikes("block") /\ labels' = [labels EXCEPT ![n] = @ \cup {Blocked}] /\ UNCHANGED open
       \/ Strikes("close") /\ open' = open \ {n} /\ UNCHANGED labels
  /\ Lively
  /\ UNCHANGED <<wt, pc, process, drain, unread, unit, orphan, scan, sweep, tally, ends>>

\* At most one issue was closed before, and has a worktree left over.
Init ==
  /\ \/ /\ labels \in [Issues -> {{}, {Ready}, {Progress}}]
        /\ open = Issues /\ wt = [n \in Issues |-> {}]
     \/ \E n \in Issues, w \in Left :
          /\ labels \in [Issues -> {{Ready}, {Progress}}]
          /\ open = Issues \ {n} /\ wt = [m \in Issues |-> IF m = n THEN w ELSE {}]
  /\ pc = "down" /\ marker = FALSE /\ told = FALSE /\ prior = "clean"
  /\ ready = {} /\ unread = {} /\ remaining = {} /\ drained = FALSE /\ unit = NoUnit
  /\ doneUnits = {} /\ orphans = {} /\ seen = {} /\ scan = {} /\ exam = {} /\ old = {}
  /\ due = {} /\ ran = {} /\ skipped = {} /\ live = {} /\ cut = FALSE
  /\ troubles = 0 /\ happened = {}

Tick ==
  \/ Snapshot \/ Recheck \/ BeginDrain \/ Select \/ MidDrain \/ StartUnit \/ WorkOn \/ EndUnit
  \/ ListOrphans \/ NextOrphan \/ BeginSweep \/ View \/ Status \/ Ahead \/ Remove \/ EndSweep
Process == Boot \/ Look \/ Write \/ Start \/ Sleep \/ Unlink \/ Exit
Killed  == KillStarting \/ Kill \/ KillStopping

Next == Tick \/ Process \/ Terminate \/ Killed \/ Stray \/ Human

Spec == Init /\ [][Next]_vars

\* The daemon is restarted whenever it is down, and its calls return.
FairSpec == Spec /\ WF_vars(Tick) /\ WF_vars(Process)

-----------------------------------------------------------------------------
TypeOK ==
  /\ labels \in [Issues -> SUBSET AllLabels] /\ open \subseteq Issues
  /\ wt \in [Issues -> Contents]
  /\ pc \in Working \cup {"down", "look", "write", "started", "handler", "stopping"}
  /\ marker \in BOOLEAN /\ told \in BOOLEAN /\ prior \in {"clean", "killed", "late"}
  /\ ready \subseteq Issues /\ unread \subseteq ready /\ remaining \subseteq ready
  /\ drained \in BOOLEAN /\ unit.members \subseteq Issues /\ unit.todo \subseteq unit.members
  /\ orphans \subseteq Issues /\ scan \subseteq Issues /\ exam \subseteq Issues /\ old \subseteq Unsaved

\* A tick that is not cut short takes care of every greenlit issue and of every
\* orphan it has listed: their units have run, or were kept back with an alert.
AllServed == pc = "sleep" /\ ~ cut => due \subseteq ran \cup skipped

\* No unit is run twice in a tick, in whatever phase its issues turn up.
OncePerTick == [][ran' = ran \/ pc # "check" \/ unit.id \notin ran]_vars

\* A unit starts only if each of its greenlit members was seen dispatchable by
\* GitHub after the unit before it had ended, however long that one took.
StartsOnLive ==
  [][pc = "check" /\ pc' = "unit" => unit'.members \cap unit'.greenlit \subseteq live]_vars

\* A start-up reports an ungraceful end if and only if the last run that had begun
\* to work was killed before it removed its marker, however many start-ups were
\* refused or killed in between, as long as the marker can be read, written and
\* removed.  A run killed later in its shutdown is not reported.
KillIsTold == pc \in Working /\ "marker" \notin happened => (told <=> prior = "killed")

\* Whatever else writes to a worktree while it is examined, no work is removed
\* with it that was there when its examination began and is still nowhere else,
\* as long as git status does not fail.
NoWorkLost ==
  [][\A n \in Issues : wt[n] # {} /\ wt'[n] = {}
        => n \in exam /\ (old = {} \/ "status" \in happened)]_vars

\* Whatever fails, and whoever kills the daemon, there is always another tick.
KeepsTicking == []<>(pc = "tick")
=============================================================================
