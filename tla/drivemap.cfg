SPECIFICATION Spec
CONSTANTS
  Numbers = {128, 129, 130}
  Disks <- MCDisks
  DRIVE_MAP_SIZE = 4
  Page = 2
  Memory = 16
  Regions <- MCRegions
  map_mem_min = 2
  map_mem_max = 16
  FourGB = 14
  Images <- MCImages
  Options <- MCOptions
  MaxCommands = 3
  Aliases = FALSE
  Untidy = FALSE
  FullRehook = FALSE
INVARIANT MemDrivesPlaced
INVARIANT RehookSucceeds
PROPERTY ImplementsDriveNames
