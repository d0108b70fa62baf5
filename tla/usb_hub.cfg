CONSTANTS
  NPorts = 1
  HubPorts = 3
  Plugs <- OnePort
  TopLun = 1
  Failing <- LateFaults
  MaxDev = 8
  MaxDri = 4
  Byte = 256
  Word = 65536
  ConfigLength = 32
  Stray = 127
  MaxRuns = 1
SPECIFICATION Spec
INVARIANT ProbesOnlyHubs
INVARIANT SticksBecomeDrives
INVARIANT DrivesAreReal
CHECK_DEADLOCK FALSE
