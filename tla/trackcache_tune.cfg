SPECIFICATION Spec
CONSTANTS
  Drives <- TwoDrives
  Total <- TwoTotal
  Geometries <- TwoGeometries
  WriteTargets <- TwoTargets
  Images <- TwoImages
  SS = 1
  BufSectors = 3
  VT = 2
  Wrap = 32
  Bytes = {0, 1}
  Bad = 2
  Data <- TwoData
  LateErrors = FALSE
  ChainedTune = TRUE
  MaxLen = 2
INVARIANTS ReadIsCurrent
