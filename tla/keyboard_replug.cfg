CONSTANTS
  None = None
  Dangling = Dangling
  Toplevel = {t1, t2}
  LayerSurface = {}
  LayerType <- UpperLayers
  Keyboard = {k1}
  InitialFocusedLayer <- NullFocusedLayer
SYMMETRY Symmetry
SPECIFICATION Spec
CHECK_DEADLOCK FALSE
INVARIANTS
  KeyboardFollowsFocus
