CONSTANTS
  Axis = {"y"}
  Unit = 2
  Output <- TwoPixels
  Margins <- AllKindsOfMargins
  Cursor <- OnlyZero
  Position <- OnlyZero
  Inset <- OnlyZero
  Extent <- OneAndTwo
  Edges <- NoEdge
  Requests <- AllRequests
SPECIFICATION Spec
CHECK_DEADLOCK FALSE
INVARIANTS
  TypeOK
  OnlyMarginsStop
