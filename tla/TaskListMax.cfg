CONSTANT MaxProc = 4
SPECIFICATION TaskListSpec
INVARIANT AtMostMaxProc
CHECK_DEADLOCK FALSE
