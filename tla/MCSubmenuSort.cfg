SPECIFICATION SortSpec
CONSTANTS
  Texts = {1, 2, 3, 4}
  MaxLength = 6
INVARIANTS
  Linked
  SortsStably
PROPERTY SortEnds
