CONSTANTS
  Threads = {t1}
  None = None
  Dir = d
  Files = {f1}
  NewFiles = {g1, g2}
  NDirect = 2
  Indices = {1, 2}
  Kinds = {"read"}
  MaxOps = 1
SPECIFICATION Spec
PROPERTY Returns
CHECK_DEADLOCK FALSE
