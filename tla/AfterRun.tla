------------------------------ MODULE AfterRun ------------------------------
(***************************************************************************)
(* bh-after-run (after_run.py), the hook that turns what a run produced    *)
(* into labels: it classifies the worktree, looks for the pull request,    *)
(* reads the labels and relabels in up to two edits.  It is a process of   *)
(* its own.  The daemon waits for it, but not longer than the hook timeout *)
(* (vendor/symphony/hooks.py), which kills the shell and not what the shell*)
(* has started: the hook may go on as a stray.                             *)
(***************************************************************************)
EXTENDS IssueState

CONSTANT MaxLookups      \* _GH_PR_LIST_MAX_ATTEMPTS

ASSUME LookupsOK == MaxLookups \in Nat \ {0}

VARIABLES
  hook,      \* the hook's next step, "off" when it is not running
  stray,     \* nobody waits for it any more
  outcome,   \* RunOutcome
  lookups,   \* attempts of gh pr list
  seen       \* the labels _reconcile_labels fetched

hookVars == <<hook, stray, outcome, lookups, seen>>

Outcomes == {"none", "worker-tried-merge", "uncommitted-changes", "no-commits",
             "committed-no-pr", "pr-opened", "transient-error"}

\* The hook ends; hook' and what it leaves behind.
HookExits == hook' = "off" /\ stray' = FALSE /\ outcome' = "none" /\ lookups' = 0 /\ seen' = {}

HookGoes(h) == hook' = h /\ UNCHANGED <<stray, lookups>>

\* Only the hook moves, on nothing but the labels and the fault budget.
OnlyHook == UNCHANGED <<issueOpen, prOpen, prHead, branch, wt, pc>>

\* _classify, first match first: the sentinel, tracked changes, git cherry.
HookClassify ==
  /\ hook = "classify"
  /\ \/ /\ Succeeds
        /\ \/ wt.sentinel /\ outcome' = "worker-tried-merge" /\ HookGoes("labels")
           \/ ~ wt.sentinel /\ wt.dirty /\ outcome' = "uncommitted-changes" /\ HookGoes("labels")
           \/ ~ wt.sentinel /\ ~ wt.dirty /\ head = 0
                /\ outcome' = "no-commits" /\ HookGoes("labels")
           \/ ~ wt.sentinel /\ ~ wt.dirty /\ head # 0
                /\ UNCHANGED outcome /\ HookGoes("lookup")
        /\ UNCHANGED seen
     \/ ~ wt.sentinel /\ ~ wt.dirty /\ Fails("cherry") /\ HookExits
  /\ UNCHANGED labels /\ OnlyHook

\* Mutant of HookLookup: when GitHub cannot be asked, the pull request is taken
\* to be there.
HookLookupOptimist ==
  /\ hook = "lookup"
  /\ \/ Succeeds /\ outcome' = IF prOpen THEN "pr-opened" ELSE "committed-no-pr"
     \/ Fails("lookup") /\ outcome' = "pr-opened"
  /\ HookGoes("labels")
  /\ UNCHANGED <<labels, seen>> /\ OnlyHook

\* The open pull request of the current branch, in up to MaxLookups attempts;
\* a transient error changes no label.
HookLookup ==
  /\ hook = "lookup"
  /\ \/ /\ Succeeds
        /\ outcome' = IF prOpen THEN "pr-opened" ELSE "committed-no-pr"
        /\ HookGoes("labels") /\ UNCHANGED seen
     \/ /\ Fails("lookup")
        /\ IF lookups + 1 < MaxLookups
             THEN lookups' = lookups + 1 /\ UNCHANGED <<hook, stray, outcome, seen>>
             ELSE HookExits
  /\ UNCHANGED labels /\ OnlyHook

\* fetch_after_run_labels, which also returns None for what it cannot read.
HookReads(readable) == IF readable THEN Succeeds ELSE Fails("hooklabels")

Target(o) == IF o = "pr-opened" THEN Done ELSE Blocked

\* Mutant of HookLabels: a blocked issue is relabelled like any other.
HookRelabelsBlocked ==
  /\ hook = "labels"
  /\ Succeeds /\ seen' = labels
  /\ HookGoes(IF Ready \in labels THEN "remove" ELSE "add")
  /\ UNCHANGED <<labels, outcome>> /\ OnlyHook

\* _reconcile_labels reads the labels once: none readable, nothing done; an
\* issue that is blocked already only loses agent-ready.
HookLabels ==
  /\ hook = "labels"
  /\ \/ /\ HookReads(TRUE)
        /\ IF Ready \in labels \/ Blocked \notin labels
             THEN /\ seen' = labels
                  /\ HookGoes(IF Ready \in labels THEN "remove" ELSE "add")
                  /\ UNCHANGED outcome
             ELSE HookExits
     \/ HookReads(FALSE) /\ HookExits
  /\ UNCHANGED labels /\ OnlyHook

\* agent-ready goes first, so that no window shows two state labels.
HookRemove ==
  /\ hook = "remove"
  /\ LabelEdit("hookedit", {}, {Ready})
  /\ IF Succeeds /\ Blocked \notin seen THEN HookGoes("add") /\ UNCHANGED <<outcome, seen>>
                                        ELSE HookExits
  /\ OnlyHook

HookAdd ==
  /\ hook = "add"
  /\ LabelEdit("hookedit", {Target(outcome)}, {})
  /\ HookExits
  /\ OnlyHook

\* The kill of a timed-out hook reached it after all, or it ended by itself.
StrayEnds == stray /\ HookExits /\ UNCHANGED shared

\* The daemon starts the hook, from where the run left it.
StartHook ==
  /\ hook' = "classify" /\ stray' = FALSE
  /\ UNCHANGED <<outcome, lookups, seen>>

HookInit == hook = "off" /\ stray = FALSE /\ outcome = "none" /\ lookups = 0 /\ seen = {}

HookStep == HookClassify \/ HookLookup \/ HookLabels \/ HookRemove \/ HookAdd

HookTypeOK ==
  /\ hook \in {"off", "classify", "lookup", "labels", "remove", "add"}
  /\ stray \in BOOLEAN /\ (stray => hook # "off")
  /\ outcome \in Outcomes /\ lookups \in 0..(MaxLookups - 1)
  /\ seen \subseteq AllLabels
=============================================================================
