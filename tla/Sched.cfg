SPECIFICATION Spec
CONSTANTS
  Threads = {idle, boot, a, b, c}
  IDLE = idle
  BOOT = boot
  NULL = null
  Deep = {boot, a, b, c}
  NSlots = 4
  MaxTime = 2
  MaxSleep = 1
  LateTick = FALSE
SYMMETRY Symmetry
INVARIANTS TypeOK CurrentOnCpu OneHome OverflowCaught Preemptible
PROPERTIES SleepNotEarly
\* A thread that exits or blows its stack reaches _bug(), which stops the system.
CHECK_DEADLOCK FALSE
