CONSTANTS
  None = None
  Dangling = Dangling
  Toplevel = {t1}
  LayerSurface = {l1}
  LayerType <- BelowAndAbove
  Keyboard = {k1}
  InitialFocusedLayer <- NullFocusedLayer
SPECIFICATION StackSpec
CHECK_DEADLOCK FALSE
CONSTRAINT FollowedUp
INVARIANTS
  WindowsBetweenLayers
