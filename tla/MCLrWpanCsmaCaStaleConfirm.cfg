SPECIFICATION Spec
CONSTANTS
  macMaxBE = 5
  MinBESettings <- NoSettings
  MaxBESettings <- NoSettings
  BackoffSettings <- NoSettings
  ClientOps <- CancelDuringCca
  MaxChains = 2
PROPERTIES
  ConfirmAfterCancelIgnored
