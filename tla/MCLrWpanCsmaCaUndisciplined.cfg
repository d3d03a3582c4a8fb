SPECIFICATION Spec
CONSTANTS
  macMaxBE = 5
  MinBESettings <- NoSettings
  MaxBESettings <- NoSettings
  BackoffSettings <- OneBackoff
  ClientOps <- Undisciplined
  MaxChains = 2
INVARIANTS
  AccessNeverForgotten
