SPECIFICATION Spec
CONSTANTS
  MaxOrder = 2
  Pages = 4
  Requests = {1, 2, 4}
  None = None
INVARIANT MaxOrderServed
