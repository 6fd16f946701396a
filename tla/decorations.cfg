CONSTANTS
  None = None
  Dangling = Dangling
  Toplevel = {t1, t2}
  LayerSurface = {l1}
  LayerType <- OnlyOverlay
  Keyboard = {k1}
  InitialFocusedLayer <- AnyFocusedLayer
SYMMETRY Symmetry
SPECIFICATION DecorSpec
CHECK_DEADLOCK FALSE
CONSTRAINT FollowedUp
INVARIANTS
  DecorTypeOK
  RequestServedOrKept
