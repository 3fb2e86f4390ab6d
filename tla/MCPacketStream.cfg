SPECIFICATION FairSpec
CONSTANTS
  InLens <- PduLens
  OutLens <- TwoPackets
  HdrLen = 2
  InitialReads = {0, 2}
  MaxEvents = 2
CHECK_DEADLOCK FALSE
INVARIANTS Framing AliveInCallback FdEventAlive WireOrder
PROPERTIES Delivered AllWritten
