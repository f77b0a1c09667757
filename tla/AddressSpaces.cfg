CONSTANTS
  Fanout = 4
  PageSize = 2
  None = None
  MaxTables = 7
  Vas = {0, 5, 30, 62}
  Pas = {8, 21}
  Sizes = {0, 2, 5}
  Perms = {"R", "RW"}
  KernelBase = 32
  MemEnd = 44
  MmioBase = 14
  MmioLen = 2
  PlicBase = 8
  PlicLen = 4
  Etexts = {36, 38}
  TrampolinePa = 34
  TrapFrames = {40, 43}
  InitPage = 38
SPECIFICATION SpacesSpec
INVARIANTS TablesFormTree MapsAligned SpacesExact
CHECK_DEADLOCK FALSE
