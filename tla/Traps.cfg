CONSTANTS
  MaxProc = 3
  Free = Free
  MaxTicks = 20
  MaxDepth = 3
SPECIFICATION Spec
INVARIANTS CurrentTaskExists NestsOnlyAtEnd
PROPERTY TrapsReturn
CHECK_DEADLOCK FALSE
