SPECIFICATION Spec
CONSTANTS
  d1 = d1
  d2 = d2
  d3 = d3
  Devices <- MCDevices
  Lengths <- MCLengths
  MaxTimers = 1
  MaxRequests = 4
SYMMETRY DeviceSymmetry
INVARIANTS
  CAPKeepsMinimum
