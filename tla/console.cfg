SPECIFICATION ConsoleLiveSpec
CONSTANTS
  OutSize = 5
  RxSize = 2
  TxSize = 2
  UartDepth = 2
  Info = 2
  Done = 1
  MaxPrints = 3
  MaxSessions = 2
  MaxRestarts = 1
INVARIANTS SessionText PanicTold
PROPERTIES SessionServed
CHECK_DEADLOCK FALSE
