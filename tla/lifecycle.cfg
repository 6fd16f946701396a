CONSTANTS
  None = None
  Inhibitor = {i1, i2, i3}
SPECIFICATION Spec
CHECK_DEADLOCK FALSE
INVARIANTS
  TypeOK
  OrderlyEnd
  NothingIsLeft
PROPERTIES
  EndComesCloser
  StopEnds
