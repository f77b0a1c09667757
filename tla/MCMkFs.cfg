\* Ten blocks are full after a few files; seventeen leave room.
SPECIFICATION Spec
CONSTANTS
  Totals = {2, 6, 10, 17}
  InodeBlocks = {0, 1, 5}
  BlockSize = 4
  ByteBits = 2
  InodesPerBlock = 4
  BufferSize = 4
  NDirect = 2
  NIndirect = 1
  DirNameSize = 2
  DirEntrySize = 2
  ArgLists <- MCArgLists
  Paths <- MCPaths
INVARIANTS
  LayoutFits
  ValidMeansFormatted
  FreshFileSystem
  PrintsSource
  ResolvesPath
PROPERTIES
  Ends
CHECK_DEADLOCK FALSE
