SPECIFICATION Spec
CONSTANTS
  acked = acked
  plain = plain
  long = long
  Frames <- TwoFrames
  AckFrames <- MCAckFrames
  TooLong <- NoFrame
  Ack = Ack
  Beacon = Beacon
  NoPacket = NoPacket
  macMaxFrameRetries = 1
  ClientOps <- ReceiveBeacons
  MaxQueue = 2
  MaxHeard = 0
  MaxAccess = 1
PROPERTIES
  FrontIsServed
