SPECIFICATION Spec
CONSTANTS
  acked = acked
  plain = plain
  Frames <- MCAckFrames
  AckFrames <- MCAckFrames
  TooLong <- MCTooLong
  Ack = Ack
  Beacon = Beacon
  NoPacket = NoPacket
  macMaxFrameRetries = 0
  ClientOps <- Bypassing
  MaxQueue = 2
  MaxHeard = 1
  MaxAccess = 1
  Backoffs = 0
  MaxChains = 4
  MaxWindow = 2
INVARIANTS
  AccessAgrees
