SPECIFICATION PanSpec
CONSTANTS
  d1 = d1
  d2 = d2
  Devices <- MCDevices
  Lengths <- MCLengths
  MaxTimers = 1
  MaxRequests = 2
  MaxFrames = 2
SYMMETRY DeviceSymmetry
INVARIANTS
  PanTypeOK
PROPERTIES
  SlotsExclusive
  SlotsGiven
