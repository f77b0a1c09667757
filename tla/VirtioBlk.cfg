CONSTANTS
  Threads = {t1, t2}
  Blocks = {0, 1}
  Values = {0, 1}
  None = None
  SectorsPerBlock = 2
  SectorsNum = 3
  QueueSize = 2
  IdxMod = 4
  Builds = {"debug", "release"}
  Interrupts = TRUE
  Faulty = {0}
SPECIFICATION FairSpec
INVARIANTS RequestAlive LiveOnDriverRings RingsInStep
PROPERTIES ImplementsDevice SendReturns
CHECK_DEADLOCK FALSE
