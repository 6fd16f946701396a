CONSTANTS
  Unreadable = Unreadable
  RcFile <- OneFile
  KeyEvent <- TwoSymbolKey
  Signal <- NoSignal
SPECIFICATION Spec
CHECK_DEADLOCK FALSE
PROPERTIES
  KeyGoesOneWay
