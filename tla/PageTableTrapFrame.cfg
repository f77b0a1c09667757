CONSTANTS
  Fanout = 4
  PageSize = 2
  None = None
  MaxTables = 7
  Vas = {60}
  Pas = {8, 21}
  Sizes = {2}
  Perms = {"R", "RW"}
SPECIFICATION Spec
INVARIANT TrapFrameMapped
CHECK_DEADLOCK FALSE
