SPECIFICATION HubSpec
CONSTANTS
  BrightnessBits = 3
  BrightnessPsc = 1
  CounterMax = 8
  RowCount = 4
  Pairs = 4
  Pixels = 16
  TailLoss = 2
  Outputs = 2
  Chain = 2
  Columns = 2
INVARIANTS LitPixelsRight
PROPERTIES PinsStable
