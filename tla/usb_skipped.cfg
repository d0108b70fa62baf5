CONSTANTS
  NPorts = 1
  HubPorts = 0
  Plugs <- LowSpeed
  TopLun = 1
  Failing = {}
  MaxDev = 8
  MaxDri = 4
  Byte = 256
  Word = 65536
  ConfigLength = 32
  Stray = 127
  MaxRuns = 1
SPECIFICATION Spec
INVARIANT ProbesOnlyHubs
CHECK_DEADLOCK FALSE
