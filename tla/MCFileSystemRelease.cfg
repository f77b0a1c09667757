CONSTANTS
  Threads = {t1, t2}
  None = None
  Build = "release"
  OldUnits <- MCOldUnits
  Names = {n1, n2}
  Values = {v1}
  InodesNum = 3
  ImapBits = 4
  DataBlocks = 3
  DmapBits = 4
  DataStart = 7
  BlockSize = 2
  NDirect = 2
  NIndirect = 1
  SizeLimit = 3
  DataLimit = 2
SYMMETRY Symmetry
SPECIFICATION Spec
INVARIANT WithinFile
CHECK_DEADLOCK FALSE
