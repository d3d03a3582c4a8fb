SPECIFICATION Spec
CONSTANTS
  frame1 = frame1
  frame2 = frame2
  jammer = jammer
  Signals <- MCSignals
  Foreign <- MCForeign
  Strong <- MCStrong
  NoSignal = NoSignal
  ClientOps <- TxOnInRx
  MaxEvents = 2
INVARIANTS
  TransmitterHeld
