CONSTANTS
  None = None
  Jobs <- TwoJobs
  StallS = 0
  ProgressS = 1
  MaxTime = 2
  MaxFailures = 1
SPECIFICATION FairSpec
INVARIANTS
  TypeOK
  StallsAreReal
  OneAlertPerEpisode
PROPERTIES
  StallIsAlerted
CHECK_DEADLOCK FALSE
