SPECIFICATION Spec
CONSTANTS
  acked = acked
  plain = plain
  long = long
  Frames <- TwoFrames
  AckFrames <- MCAckFrames
  TooLong <- NoFrame
  Ack = Ack
  Beacon = Beacon
  NoPacket = NoPacket
  macMaxFrameRetries = 1
  ClientOps <- ThroughQueue
  MaxQueue = 1
  MaxHeard = 0
  MaxAccess = 1
PROPERTIES
  ConfirmedOnceSent
