SPECIFICATION UsedSpec
CONSTANTS
  Threads = {t1}
  Blocks = {b1, b2, b3}
  IndexBlock = b1
  Values = {zero}
  Zero = zero
  Refused = {}
  Objs = {o1, o2, o3}
  Capacity = 2
  None = None
INVARIANT SortedByUse
CHECK_DEADLOCK FALSE
