CONSTANTS
  MaxCommits = 2
  MaxTurns = 1
  MaxLookups = 1
  MaxFailures = 2
  MaxDispatches = 2
  Possible <- RunTroubles
  MaxTroubles = 1
SPECIFICATION Spec
INVARIANTS
  TurnsAreGuarded
CHECK_DEADLOCK FALSE
