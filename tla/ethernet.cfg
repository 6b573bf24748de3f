SPECIFICATION PathLiveSpec
CONSTANTS
  Packets <- MCPackets
  Header <- MCHeader
  MinWords = 5
INVARIANTS PathInv CpuInOrder CancelledOnlyAccepted
PROPERTIES AcceptedIsCancelled PacketsPass
