----------------------------- MODULE LaunchGate -----------------------------
(***************************************************************************)
(* The decision to launch a worker (chain/daemon/launch_gate.py) and the   *)
(* push-denial probe it rests on (chain/daemon/push_probe.py): a push of a *)
(* throwaway ref under the worker's identity that the remote must be seen  *)
(* to deny.  An outcome that does not prove a denial does not prove its    *)
(* absence either, so the probe deletes the ref it may have left.          *)
(*                                                                         *)
(* A push that timed out here may have been carried out, not carried out,  *)
(* or still be under way at the remote.                                    *)
(***************************************************************************)
EXTENDS IssueState

VARIABLES
  gitRoot,     \* repo_root has a .git entry
  protected,   \* the remote denies the worker's push to the feature namespace
  reply,       \* how the probe's push ended, the reason of the ProbeResult
  ref,         \* the probe's ref: "none", "under way", "on origin" or "late"
  reported     \* a leftover ref has been named in the result's detail

gate == <<gitRoot, protected, reply, ref, reported>>

Replies == {"none", "denied", "accepted", "unrecognized", "transport_error",
            "timeout", "cleanup_failed"}

\* _launch_one_issue and _should_launch_worker up to the probe.  The ruleset
\* comparator only colours the message: with a git root the probe decides, and
\* without one the launch is refused.  A new probe names a new ref.
Preflight ==
  /\ pc = "preflight"
  /\ Goto(IF gitRoot THEN "probe" ELSE "refuse")
  /\ reply' = "none" /\ ref' = "none" /\ reported' = FALSE
  /\ UNCHANGED <<gitRoot, protected, github, branch, wt, trouble>>

\* Mutant of Probe: a push that was not accepted passes for one that was denied.
ProbeByElimination ==
  /\ pc = "probe"
  /\ \/ reply' = "denied" /\ Succeeds /\ UNCHANGED ref
     \/ ~ protected /\ reply' = "accepted" /\ ref' = "on origin" /\ Succeeds
     \/ Fails("probe") /\ reply' = "denied" /\ UNCHANGED ref
  /\ Goto(IF reply' = "denied" THEN "worktree" ELSE "cleanup")
  /\ UNCHANGED <<gitRoot, protected, reported, github, branch, wt>>

\* _probe_worker_push_denied: the push.
Probe ==
  /\ pc = "probe"
  /\ \/ protected /\ Succeeds /\ reply' = "denied" /\ UNCHANGED ref
     \/ ~ protected /\ Succeeds /\ reply' = "accepted" /\ ref' = "on origin"
     \/ /\ Fails("probe")
        /\ \/ reply' = "unrecognized" /\ UNCHANGED ref
           \/ /\ reply' \in {"timeout", "transport_error"}
              /\ ref' \in IF protected THEN {ref} ELSE {ref, "under way", "on origin"}
  /\ Goto(IF reply' = "denied" THEN "worktree" ELSE "cleanup")
  /\ UNCHANGED <<gitRoot, protected, reported, github, branch, wt>>

\* The delete of an accepted probe's ref; its failure becomes the reason.
CleanupAccepted ==
  /\ pc = "cleanup" /\ reply = "accepted"
  /\ \/ Succeeds /\ ref' = "none" /\ UNCHANGED <<reply, reported>>
     \/ Fails("cleanup") /\ reply' = "cleanup_failed" /\ reported' = TRUE /\ UNCHANGED ref
  /\ Goto("refuse")
  /\ UNCHANGED <<gitRoot, protected, github, branch, wt>>

\* Mutant of CleanupUnsure: only an accepted probe cleans up after itself.
CleanupSkipped ==
  /\ pc = "cleanup" /\ reply # "accepted"
  /\ Goto("refuse") /\ Succeeds
  /\ UNCHANGED <<gate, github, branch, wt>>

\* _attempt_probe_ref_cleanup: "does not exist" counts as deleted, and a delete
\* that fails is told of without changing the reason.
CleanupUnsure ==
  /\ pc = "cleanup" /\ reply # "accepted"
  /\ \/ Succeeds /\ ref' = (IF ref = "on origin" THEN "none" ELSE ref) /\ UNCHANGED reported
     \/ Fails("cleanup") /\ reported' = TRUE /\ UNCHANGED ref
  /\ Goto("refuse")
  /\ UNCHANGED <<gitRoot, protected, reply, github, branch, wt>>

\* The remote carries out a push whose client has given up on it: before the
\* delete, or too late for it.
ProbeLands ==
  /\ ref = "under way"
  /\ ref' = IF pc = "cleanup" THEN "on origin" ELSE "late"
  /\ UNCHANGED <<gitRoot, protected, reply, reported, shared>>

\* A refused launch gives the label back and returns None.
Refuse ==
  /\ pc = "refuse"
  /\ LabelEdit("edit", {Ready}, {Progress})
  /\ Goto("intact")
  /\ UNCHANGED <<gate, issueOpen, prOpen, prHead, branch, wt>>

GateInit ==
  /\ gitRoot \in BOOLEAN /\ protected \in BOOLEAN
  /\ reply = "none" /\ ref = "none" /\ reported = FALSE

GateStep == Preflight \/ Probe \/ CleanupAccepted \/ CleanupUnsure \/ Refuse

GateTypeOK ==
  /\ gitRoot \in BOOLEAN /\ protected \in BOOLEAN /\ reported \in BOOLEAN
  /\ reply \in Replies /\ ref \in {"none", "under way", "on origin", "late"}
=============================================================================
