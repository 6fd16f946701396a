CONSTANTS
  None = None
  Dangling = Dangling
  Toplevel = {t1, t2}
  LayerSurface = {l1}
  LayerType <- LowestAndHighest
  Keyboard = {k1}
  InitialFocusedLayer <- AnyFocusedLayer
SYMMETRY Symmetry
SPECIFICATION StackSpec
CHECK_DEADLOCK FALSE
CONSTRAINT FollowedUp
INVARIANTS
  StackTypeOK
  FocusedOnTop
  BackgroundBeneath
