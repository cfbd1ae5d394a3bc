SPECIFICATION Spec
CONSTANTS
  Devices = {hdd}
  hdd = hdd
  NoDevice = NoDevice
  GameLists <- SmallLists
  Autosort = TRUE
  MaxUpdates = 1
INVARIANTS
  NothingLost
