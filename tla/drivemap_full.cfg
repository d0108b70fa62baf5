SPECIFICATION Spec
CONSTANTS
  Numbers = {128, 129, 130}
  Disks <- FullDisks
  DRIVE_MAP_SIZE = 3
  Page = 1
  Memory = 7
  Regions <- FullRegions
  map_mem_min = 1
  map_mem_max = 7
  FourGB = 7
  Images <- FullImages
  Options <- FullOptions
  MaxCommands = 4
  Aliases = FALSE
  Untidy = FALSE
  FullRehook = TRUE
PROPERTY ImplementsDriveNames
