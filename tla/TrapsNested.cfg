CONSTANTS
  MaxProc = 3
  Free = Free
  MaxTicks = 3
  MaxDepth = 2
SPECIFICATION Spec
INVARIANT ReturnsToInterrupted
CHECK_DEADLOCK FALSE
