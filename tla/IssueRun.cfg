CONSTANTS
  MaxCommits = 2
  MaxTurns = 2
  MaxLookups = 2
  MaxFailures = 2
  MaxDispatches = 2
  Possible <- AllTroubles
  MaxTroubles = 2
SPECIFICATION Spec
INVARIANTS
  TypeOK
  LaunchIsProven
  NoSilentRef
  PushedIsTested
  DoneHasPR
  RestsInOneState
PROPERTIES
  KeepsContract
CHECK_DEADLOCK FALSE
