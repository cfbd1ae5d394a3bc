SPECIFICATION FairSpec
CONSTANTS
  Pads = {a, b}
  DS4Pads = {a}
  GenuinePads = {a}
  MAX_PADS = 2
  Enabled = {0, 1}
  Handles = {1, 2}
  NoPad = NoPad
  NoHandle = NoHandle
  MaxPages = 2
  MaxPlugs = 1
  MaxFaults = 1
INVARIANTS RunningHasLink OneSlotPerLink SlotFollowsLink
PROPERTY ResetReturns
CHECK_DEADLOCK FALSE
