CONSTANTS
  None = None
  Dangling = Dangling
  Toplevel = {t1, t2}
  LayerSurface = {l1, l2}
  LayerType <- UpperLayers
  Keyboard = {k1}
  InitialFocusedLayer <- AnyFocusedLayer
SYMMETRY Symmetry
SPECIFICATION Spec
CHECK_DEADLOCK FALSE
INVARIANTS
  FrontIsFocused
  FocusedLayerMapped
  LayerExcludesWindows
PROPERTIES
  ExclusiveLayerKeepsKeyboard
  NewWindowGetsKeyboard
  ImplementsKeyboardFocus
