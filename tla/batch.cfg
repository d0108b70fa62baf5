CONSTANTS
  Files <- All
  MaxPid = 3
  Word = 4
  Values = {0, 1}
  MaxSaved = 6
SPECIFICATION BatchSpec
PROPERTY ImplementsBlocks
PROPERTY LocalsScoped
CHECK_DEADLOCK FALSE
