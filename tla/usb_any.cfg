CONSTANTS
  NPorts = 2
  HubPorts = 1
  Plugs <- AnyPlug
  TopLun = 1
  Failing <- Steps
  MaxDev = 3
  MaxDri = 2
  Byte = 4
  Word = 2
  ConfigLength = 1
  Stray = 127
  MaxRuns = 2
SPECIFICATION Spec
INVARIANT DrivesDistinct
PROPERTY EnumerationEnds
CHECK_DEADLOCK FALSE
