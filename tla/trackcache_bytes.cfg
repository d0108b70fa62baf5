SPECIFICATION Spec
CONSTANTS
  Drives <- ByteDrives
  Total <- ByteTotal
  Geometries <- ByteGeometries
  WriteTargets <- ByteTargets
  Images <- ByteImages
  SS = 2
  BufSectors = 2
  VT = 2
  Wrap = 3
  Bytes = {0, 1}
  Bad = 2
  Data <- ByteData
  LateErrors = FALSE
  ChainedTune = FALSE
  MaxLen = 5
INVARIANT TypeOK
INVARIANT ReadIsCurrent
PROPERTY OnlyRequestedBytesChange
PROPERTY CallsReturn
