CONSTANTS
  Drives = {"hd0"}
  Disks <- MCDisks
  SliceMax = 2
  Last = 5
  Array = 1
  Stray <- MCStray
  Limit = 40
  Total = 40
  SS = 2
  Wide = 256
  Conditions <- NoDrives
  Dests <- MCDests
  Sectors = {0, 1, 2}
  Lengths = {0, 1, 3}
SPECIFICATION Spec
INVARIANT FindVisitsAll
INVARIANT OpenFindsIt
INVARIANT ReadsStayInside
PROPERTY WalkEnds
