CONSTANTS
  Start = 32
  End = 192
  TableSize = 6
  Sizes = {0, 1, 16, 17, 40}
  MaxHeld = 5
SPECIFICATION HeapSpec
INVARIANT HeldDisjoint
INVARIANT ListCovers
INVARIANT NoFreeNeighbours
