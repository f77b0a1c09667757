SPECIFICATION Spec
CONSTANTS
  page = page
  small = small
  Caches <- MCCaches
  Slots <- MCSlots
  NFrames = 3
  Clients = {k1, k2, k3, k4}
  None = None
INVARIANTS
  OwnMemoryUntilEmptied
  FramesConserved
  SlabsExact
SYMMETRY Symmetry
CONSTRAINT OnlyHeads
