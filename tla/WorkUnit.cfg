CONSTANTS
  a = a
  b = b
  none = none
  Issues = {a, b}
  NoIssue = none
  BlockerGraphs <- ChainOrCycle
  MaxFailures = 2
  MaxRedispatch = 1
  Faulty = {"edit", "labels", "recovery", "prs", "provenance", "push", "create", "members", "blockers", "branch", "checkout", "issue", "preflight", "hook", "persist"}
  HumanActs = {"greenlight", "requeue", "unblock", "triage", "block", "swap"}
  MaxFaults = 1
  MaxCrashes = 1
  MaxActs = 1
SPECIFICATION Spec
INVARIANTS
  TypeOK
  MergeOrder
  DispatchOrder
  DoneIsMerged
  InProgressIsCurrent
  LaunchBound
PROPERTIES
  UsesScheduler
CHECK_DEADLOCK FALSE
