CONSTANTS
  Unreadable = Unreadable
  RcFile <- OneFile
  KeyEvent <- ReconfigureKey
  Signal <- NoSignal
SPECIFICATION Spec
CHECK_DEADLOCK FALSE
INVARIANTS
  DefaultsWhenUnreadable
