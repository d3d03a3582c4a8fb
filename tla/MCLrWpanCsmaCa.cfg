SPECIFICATION Spec
CONSTANTS
  macMaxBE = 5
  MinBESettings <- MCMinBESettings
  MaxBESettings <- MCMaxBESettings
  BackoffSettings <- MCBackoffSettings
  ClientOps <- Disciplined
  MaxChains = 2
INVARIANTS
  TypeOK
  OneChain
  WindowNeverWraps
  ExponentialBackoff
PROPERTIES
  GrantedAfterTwoIdle
  FailsAfterAllBackoffs
  AccessEnds
  AccessSpec
