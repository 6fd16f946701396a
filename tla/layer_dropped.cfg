CONSTANTS
  None = None
  Freed = Freed
  Output = {o1}
  LayerSurface = {l1}
SPECIFICATION Spec
CHECK_DEADLOCK FALSE
PROPERTY
  NoLayerIsDropped
