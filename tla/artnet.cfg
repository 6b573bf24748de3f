SPECIFICATION QueueLiveSpec
CONSTANTS
  Packets <- MCPackets
  PerUniverse = 4
  MaxUniverse = 2
  CounterSize = 8
  FifoDepth = 8
  Patience = 2
INVARIANTS PixelsInPlace HeaderAtStart OnlyAcceptedCopied LossOnlyWhenSlow
PROPERTIES WholePacketCopied ReceiverReturns
