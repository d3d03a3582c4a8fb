SPECIFICATION Spec
CONSTANTS
  acked = acked
  plain = plain
  Frames <- MCFrames
  AckFrames <- MCAckFrames
  TooLong <- MCTooLong
  Ack = Ack
  Beacon = Beacon
  NoPacket = NoPacket
  macMaxFrameRetries = 1
  ClientOps <- ThroughQueue
  MaxQueue = 2
  MaxHeard = 2
  MaxAccess = 1
  Backoffs = 1
  MaxChains = 4
  MaxWindow = 2
INVARIANTS
  AccessAgrees
  OneAccess
  NoAssertFails
PROPERTIES
  FrontIsServed
