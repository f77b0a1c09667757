CONSTANTS
  MaxProc = 3
  Free = Free
  MaxTicks = 3
  MaxDepth = 2
SPECIFICATION Spec
PROPERTY TrapsAlwaysReturn
CHECK_DEADLOCK FALSE
