CONSTANTS
  NPorts = 1
  HubPorts = 2
  Plugs <- HubOfSticks
  TopLun = 1
  Failing = {"head"}
  MaxDev = 8
  MaxDri = 4
  Byte = 256
  Word = 65536
  ConfigLength = 32
  Stray = 127
  MaxRuns = 1
SPECIFICATION Spec
INVARIANT DrivesAreReal
CHECK_DEADLOCK FALSE
