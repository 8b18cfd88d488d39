CONSTANTS
  Issues <- Three
  MilestoneOf <- TwoAndOne
  Left <- CleanOnly
  Reclaim = TRUE
  Possible <- AllTroubles
  MaxTroubles = 1
SPECIFICATION FairSpec
INVARIANTS
  TypeOK
  AllServed
PROPERTIES
  OncePerTick
  StartsOnLive
  KeepsTicking
CHECK_DEADLOCK FALSE
