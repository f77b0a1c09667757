SPECIFICATION Spec
CONSTANTS
  Threads = {t1, t2}
  Blocks = {b1, b2, b3}
  IndexBlock = b1
  Values = {zero, v}
  Zero = zero
  Refused = {b3}
  Objs = {o1, o2, o3}
  Capacity = 2
  None = None
INVARIANTS
  TypeOK
  OneCopyPerBlock
  ExclusiveUse
  CleanIsOnDisk
  EnoughBuffers
PROPERTY ImplementsStore
SYMMETRY Symmetry
CHECK_DEADLOCK FALSE
