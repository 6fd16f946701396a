CONSTANTS
  None = None
  Inhibitor = {i1, i2, i3, i4, i5}
SPECIFICATION Spec
CHECK_DEADLOCK FALSE
INVARIANTS
  TypeOK
  InhibitedWhileAsked
