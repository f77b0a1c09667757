SPECIFICATION Spec
CONSTANTS
  MaxOrder = 4
  Pages = 9
  Requests = {0, 1, 2, 3, 4, 5, 9}
  None = None
INVARIANTS
  Partition
  NoFalseExhaustion
PROPERTY ImplementsFrames
