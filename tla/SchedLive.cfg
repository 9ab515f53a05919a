SPECIFICATION FairSpec
CONSTANTS
  Threads = {idle, boot, a, b}
  IDLE = idle
  BOOT = boot
  NULL = null
  Deep = {}
  NSlots = 4
  MaxTime = 1
  MaxSleep = 1
  LateTick = FALSE
PROPERTIES RunnableRuns SleepersWake
\* A thread that exits or blows its stack reaches _bug(), which stops the system.
CHECK_DEADLOCK FALSE
