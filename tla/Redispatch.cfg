CONSTANTS
  i1 = i1
  i2 = i2
  Issues = {i1, i2}
  WindowTicks = 3
  MaxCount = 1
  MaxCycles = 6
  MaxFaults = 2
SPECIFICATION Spec
INVARIANTS
  TypeOK
  RateBound
PROPERTIES
  Limits
CHECK_DEADLOCK FALSE
