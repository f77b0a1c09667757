CONSTANTS
  Threads = {t1}
  None = None
  Build = "debug"
  OldUnits <- MCOldUnits
  Names = {n1, n2}
  Values = {v1}
  InodesNum = 3
  ImapBits = 4
  DataBlocks = 9
  DmapBits = 9
  DataStart = 7
  BlockSize = 2
  NDirect = 2
  NIndirect = 1
  SizeLimit = 5
  DataLimit = 1
SYMMETRY Symmetry
SPECIFICATION Spec
INVARIANT OwnBlocks
CHECK_DEADLOCK FALSE
