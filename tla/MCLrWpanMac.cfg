SPECIFICATION Spec
CONSTANTS
  acked = acked
  plain = plain
  long = long
  Frames <- MCFrames
  AckFrames <- MCAckFrames
  TooLong <- MCTooLong
  Ack = Ack
  Beacon = Beacon
  NoPacket = NoPacket
  macMaxFrameRetries = 1
  ClientOps <- ThroughQueue
  MaxQueue = 3
  MaxHeard = 2
  MaxAccess = 1
INVARIANTS
  TypeOK
  NoAssertFails
  CurrentIsFront
  EveryWaitEnds
  IdleQueueOnlyAfterFailure
PROPERTIES
  ConfirmTruthful
  FrontIsServed
