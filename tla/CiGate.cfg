CONSTANTS
  lint = lint
  test = test
  Issues = {i1}
  NoIssue = none
  Required <- LintThenTest
  MaxRuns = 2
  MaxFaults = 1
SPECIFICATION FairSpec
INVARIANTS
  TypeOK
  VerdictIsEarned
  ProvenanceIsTrue
PROPERTIES
  OnlyGreenLands
  GateEnds
CHECK_DEADLOCK FALSE
