CONSTANTS
  Unreadable = Unreadable
  RcFile <- Files
  KeyEvent <- Keys
  Signal <- TwoSignals
SPECIFICATION FairSpec
CHECK_DEADLOCK FALSE
INVARIANTS
  TypeOK
  LastKeybindWins
  FaultNeedsBadReload
PROPERTIES
  LastKeysymDecides
  KeyComesCloser
  KeyIsDecided
  RequestedExitHappens
