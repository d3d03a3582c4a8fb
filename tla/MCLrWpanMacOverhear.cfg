SPECIFICATION Spec
CONSTANTS
  acked = acked
  plain = plain
  long = long
  Frames <- TwoFrames
  AckFrames <- MCAckFrames
  TooLong <- NoFrame
  Ack = Ack
  Beacon = Beacon
  NoPacket = NoPacket
  macMaxFrameRetries = 1
  ClientOps <- Overhear
  MaxQueue = 2
  MaxHeard = 1
  MaxAccess = 1
INVARIANTS
  EveryWaitEnds
