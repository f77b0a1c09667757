CONSTANTS
  Threads = {t1, t2}
  Inodes = {i1, i2, i3}
  Copies = {1, 2, 3, 4}
  Capacity = 2
  Growing = {i1}
  MaxSize = 2
  None = None
SYMMETRY Symmetry
SPECIFICATION Spec
INVARIANT NoLostGrowth
