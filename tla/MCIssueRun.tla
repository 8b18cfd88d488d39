----------------------------- MODULE MCIssueRun -----------------------------
(* Everything that may go wrong with the dispatch of an issue.             *)
EXTENDS IssueRun

HookTroubles   == {"hooktimeout", "cherry", "lookup", "hooklabels", "hookedit"}
RunTroubles    == {"worktree", "create", "conflict", "beforerun", "abort",
                   "state", "runlabels", "runprs"}
DaemonTroubles == {"edit", "issue", "labels", "prs", "persist", "probe", "cleanup", "tally", "crash"}
AllTroubles    == HookTroubles \cup RunTroubles \cup DaemonTroubles \cup Acts
=============================================================================
