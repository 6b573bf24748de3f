SPECIFICATION AddressSpec
CONSTANTS
  Outputs = 1
  Chain = 2
  Columns = 2
  RowCount = 2
  PanelConfig <- MCPanelConfig
  Widths <- MCWidths
  sdram_offset = 7
  MemoryWords = 56
INVARIANTS AddressRight LedsApart
