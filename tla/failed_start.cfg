CONSTANTS
  None = None
  Inhibitor = {i1}
SPECIFICATION Spec
CHECK_DEADLOCK FALSE
INVARIANTS
  FailedStartExits
