SPECIFICATION ReaderLiveSpec
CONSTANTS
  Outputs = 2
  Chain = 1
  Columns = 2
  RowCount = 3
  FifoDepth = 2
INVARIANTS SourceNeverHeld ReservationsExact RowWritten
PROPERTIES ShownBufferUntouched ImplementsRowFetch EveryReadEnds
