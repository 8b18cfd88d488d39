CONSTANTS
  None = None
  Jobs <- TwoJobs
  StallS = 0
  ProgressS = 1
  MaxTime = 2
  MaxFailures = 1
SPECIFICATION Spec
INVARIANTS
  AlertsAreWhole
CHECK_DEADLOCK FALSE
