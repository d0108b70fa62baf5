SPECIFICATION Spec
CONSTANTS
  Drives <- LbaDrives
  Total <- LbaTotal
  Geometries <- LbaGeometries
  WriteTargets <- LbaTargets
  Images <- LbaImages
  SS = 1
  BufSectors = 4
  VT = 3
  Wrap = 32
  Bytes = {0, 1}
  Bad = 2
  Data <- LbaData
  LateErrors = FALSE
  ChainedTune = FALSE
  MaxLen = 5
INVARIANTS TypeOK CacheCoherent ReadIsCurrent
PROPERTIES OnlyRequestedBytesChange ImplementsStore
