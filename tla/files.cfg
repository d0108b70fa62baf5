CONSTANTS
  Files <- MCFiles
  Disk <- MCDisk
  SS = 2
  WSIZE = 4
  INBUFSIZ = 4
  Step = 3
  Lengths = {0, 2, 5}
  MaxOpens = 2
  Failing = {"plain", "stored"}
SPECIFICATION Spec
INVARIANT CursorRight
INVARIANT WindowRight
PROPERTY ReadsEnd
PROPERTY ImplementsByteFile
CHECK_DEADLOCK FALSE
