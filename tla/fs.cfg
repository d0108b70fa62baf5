CONSTANTS
  Volumes <- MCVolumes
  Faults <- MCFaults
  Retry = FALSE
  Lengths = {1, 5}
  SS = 2
  Radix = 4
  MAXINT = 100000
  DirLimit = 12
  NDIR = 1
  ADDR = 2
  MAX_LINK_COUNT = 3
  PATH_MAX = 14
  LoopLimit = 20
  FIRST = 2
  LAST = 5
  ANCHOR = 7
  RecordLimit = 24
  UdfLimit = 10
SPECIFICATION Spec
INVARIANT OnlyFaultsFail
INVARIANT CachedMapRight
PROPERTY ImplementsByteFile
CHECK_DEADLOCK FALSE
