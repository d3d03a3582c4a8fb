SPECIFICATION Spec
CONSTANTS
  frame1 = frame1
  frame2 = frame2
  jammer = jammer
  Signals <- MCSignals
  Foreign <- MCForeign
  Strong <- NoStrong
  NoSignal = NoSignal
  ClientOps <- Undisciplined
  MaxEvents = 1
INVARIANTS
  PendingHasCause
PROPERTIES
  IndicatedOnlyIfReceived
