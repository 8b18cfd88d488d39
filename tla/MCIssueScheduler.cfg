CONSTANTS
  Issues = {i1, i2, i3}
SPECIFICATION Spec
INVARIANTS
  TypeOK
  HandedOutInOrder
  ParkedSubtreeCut
  NoStall
PROPERTIES
  VerdictsFinal
CHECK_DEADLOCK FALSE
