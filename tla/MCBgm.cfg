SPECIFICATION FairSpec
CONSTANTS
  RingCount = 4
  MaxStarts = 3
  MaxWakeups = 3
INVARIANTS
  NoStandstill
  PointersInStep
PROPERTIES
  StopReturns
  KeepsPlaying
