SPECIFICATION ControlLiveSpec
CONSTANTS
  BrightnessBits = 3
  BrightnessPsc = 2
  CounterMax = 8
  RowCount = 4
  Pairs = 4
  Pixels = 8
  TailLoss = 2
INVARIANTS ControlInv LatchQuiet NoLostStart
PROPERTIES DarkWhenPanelChanges OperandsStable ImplementsSchedule EveryRowShown
