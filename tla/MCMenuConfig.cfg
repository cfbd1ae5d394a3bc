SPECIFICATION FairSpec
CONSTANTS
  ListCount = 2
  ItemCount = 2
  Delay = 1
  MaxQueue = 2
INVARIANTS
  CachedIsSelected
  ReturnsSelectedIfQuiet
  EditIsSaved
PROPERTIES
  LoadReturns
  SelectionIsDrawn
