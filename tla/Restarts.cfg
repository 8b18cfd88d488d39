CONSTANTS
  Issues <- Two
  MilestoneOf <- BothAlone
  Left <- Anything
  Reclaim = TRUE
  Possible <- RestartTroubles
  MaxTroubles = 4
SPECIFICATION Spec
INVARIANTS
  KillIsTold
PROPERTIES
  NoWorkLost
CHECK_DEADLOCK FALSE
