SPECIFICATION Spec
CONSTANTS
  d1 = d1
  d2 = d2
  d3 = d3
  d4 = d4
  a1 = a1
  a2 = a2
  Devices <- TwoDevices
  InPan <- TwoDevices
  Addresses <- MCAddresses
  Preset = Preset
  Broadcast = Broadcast
  NoAddress = NoAddress
  aMaxLostBeacons = 4
  MaxQueue = 2
INVARIANTS
  TypeOK
  AddressesAgree
PROPERTIES
  DroppedOnlyAfterSilence
  SilenceNoticed
