CONSTANTS
  None = None
  Dangling = Dangling
  Toplevel = {}
  LayerSurface = {l1, l2}
  LayerType <- UpperLayers
  Keyboard = {k1}
  InitialFocusedLayer <- NullFocusedLayer
SYMMETRY Symmetry
SPECIFICATION Spec
CHECK_DEADLOCK FALSE
PROPERTIES
  OverlayKeepsKeyboard
