CONSTANTS
  None = None
  Dangling = Dangling
  Toplevel = {t1}
  LayerSurface = {l1}
  LayerType <- UpperLayers
  Keyboard = {k1}
  InitialFocusedLayer <- NullFocusedLayer
SPECIFICATION Spec
CHECK_DEADLOCK FALSE
INVARIANTS
  OnlyToplevelsAreHit
