CONSTANTS
  Axis = {"y"}
  Unit = 2
  Output <- ThreePixels
  Margins <- OnePixelMargins
  Cursor <- OnlyZero
  Position <- Nowhere
  Inset <- OnlyZero
  Extent <- OneAndTwo
  Edges <- NoEdge
  Requests <- FullscreenAndMaximize
SPECIFICATION Spec
CHECK_DEADLOCK FALSE
INVARIANTS
  MaximizedKeepsMargins
