CONSTANTS
  Threads = {t1}
  Blocks = {0, 1, 2}
  Values = {0, 1}
  None = None
  SectorsPerBlock = 2
  SectorsNum = 4
  QueueSize = 2
  IdxMod = 4
  Builds = {"release"}
  Interrupts = FALSE
  Faulty = {}
SPECIFICATION Spec
PROPERTY RefusedBeyondCapacity
CHECK_DEADLOCK FALSE
