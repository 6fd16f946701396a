CONSTANTS
  None = None
  Dangling = Dangling
  Toplevel = {t1, t2}
  LayerSurface = {}
  LayerType <- OnlyOverlay
  Keyboard = {k1}
  InitialFocusedLayer <- NullFocusedLayer
SYMMETRY Symmetry
SPECIFICATION DecorSpec
CHECK_DEADLOCK FALSE
PROPERTY
  ModeSetOnInitialized
