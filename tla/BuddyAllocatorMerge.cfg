SPECIFICATION Spec
CONSTANTS
  MaxOrder = 4
  Pages = 8
  Requests = {1, 2, 3}
  None = None
INVARIANT BuddiesMerged
