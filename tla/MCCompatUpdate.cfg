SPECIFICATION FairSpec
CONSTANTS
  Devices = {bdm, bdm1, eth}
  bdm = bdm
  bdm1 = bdm1
  eth = eth
  Recognized = {bdm, eth}
  NoDevice = NoDevice
  Counts = {0, 1, 2}
  Retries = 3
  MaxStarts = 2
  MaxQueue = 2
INVARIANTS
  SocketsClosed
  AbortStopsAll
PROPERTIES
  DoneMeansUpdated
  UpdateEnds
