SPECIFICATION Spec
CONSTANTS
  Drives <- LbaDrives
  Total <- WideTotal
  Geometries <- LbaGeometries
  WriteTargets <- WideTargets
  Images <- WideImages
  SS = 1
  BufSectors = 2
  VT = 2
  Wrap = 4
  Bytes = {0, 1}
  Bad = 2
  Data <- LbaData
  LateErrors = FALSE
  ChainedTune = FALSE
  MaxLen = 5
INVARIANTS ReadIsCurrent
