SPECIFICATION FairSpec
CONSTANTS
  Devices = {hdd}
  hdd = hdd
  NoDevice = NoDevice
  GameLists <- SmallLists
  Autosort = TRUE
  MaxUpdates = 2
INVARIANTS
  OneReading
  MenuIsComplete
PROPERTIES
  AppliedInOrder
  UpdateEnds
