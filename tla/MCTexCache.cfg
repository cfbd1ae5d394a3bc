SPECIFICATION Spec
CONSTANTS
  Count = 2
  PoolSize = 2
  Games = {g1, g2, g3}
  g1 = g1
  g2 = g2
  g3 = g3
  Delay = 2
  MaxFrame = 3
PROPERTY FreeSlotIsUsed
