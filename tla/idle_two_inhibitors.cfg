CONSTANTS
  None = None
  Inhibitor = {i1, i2}
SPECIFICATION Spec
CHECK_DEADLOCK FALSE
INVARIANTS
  EveryDestroyIsHandled
