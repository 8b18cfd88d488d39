CONSTANTS
  a = a
  b = b
  none = none
  Issues = {a, b}
  NoIssue = none
  BlockerGraphs <- ChainOnly
  MaxFailures = 2
  MaxRedispatch = 1
  Faulty = {}
  HumanActs = {}
  MaxFaults = 0
  MaxCrashes = 1
  MaxActs = 0
SPECIFICATION FairSpec
PROPERTIES
  MergesAreRecorded
CHECK_DEADLOCK FALSE
