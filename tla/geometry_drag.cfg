CONSTANTS
  Axis = {"y"}
  Unit = 2
  Output <- TwoPixels
  Margins <- OnePixelMargins
  Cursor <- HalfPixels
  Position <- ZeroAndOne
  Inset <- ZeroAndOne
  Extent <- OneAndTwo
  Edges <- AnyEdge
  Requests <- MaximizeOnly
SPECIFICATION Spec
CHECK_DEADLOCK FALSE
PROPERTIES
  ResizeKeepsOppositeEdge
  DraggedEdgeFollowsCursor
