SPECIFICATION DriverLiveSpec
CONSTANTS
  Byte = {0, 1, 2, 3, 4, 5}
  SlotBytes = 2
  Incoming <- MCIncoming
  Outgoing <- MCOutgoing
  MaxArrivals = 3
  MaxSends = 3
  MaxResets = 1
INVARIANTS SlotsApart FilterWhole
PROPERTIES ImplementsLink QueuesEnd
CHECK_DEADLOCK FALSE
