CONSTANTS
  a = a
  b = b
  none = none
  Issues = {a, b}
  NoIssue = none
  BlockerGraphs <- ChainOnly
  MaxFailures = 2
  MaxRedispatch = 1
  Faulty = {"edit", "labels", "recovery", "prs", "provenance", "push", "create", "members",
            "blockers", "branch", "checkout", "issue", "preflight", "hook", "persist"}
  HumanActs = {"requeue"}
  MaxFaults = 1
  MaxCrashes = 1
  MaxActs = 1
SPECIFICATION FairSpec
PROPERTIES
  TickEnds
  OrphansRecovered
CHECK_DEADLOCK FALSE
