SPECIFICATION ReaderSpec
CONSTANTS
  Outputs = 2
  Chain = 1
  Columns = 2
  RowCount = 2
  FifoDepth = 2
INVARIANTS WholeRowWritten
