CONSTANTS
  Threads = {t1, t2, t3}
  None = None
  Dir = d
  Files = {f1}
  NewFiles = {g1, g2}
  NDirect = 2
  Indices = {1}
  Kinds = {"create", "resize", "read", "write", "path"}
  MaxOps = 1
SPECIFICATION Spec
PROPERTY Returns
CHECK_DEADLOCK FALSE
