CONSTANTS
  None = None
  Freed = Freed
  Output = {o1, o2}
  LayerSurface = {l1}
SPECIFICATION Spec
CHECK_DEADLOCK FALSE
INVARIANTS
  HeadsAreOutputs
