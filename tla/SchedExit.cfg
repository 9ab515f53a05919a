SPECIFICATION Spec
CONSTANTS
  Threads = {idle, boot, a}
  IDLE = idle
  BOOT = boot
  NULL = null
  Deep = {}
  NSlots = 3
  MaxTime = 1
  MaxSleep = 1
  LateTick = FALSE
INVARIANTS SwitchHasCurrent
CHECK_DEADLOCK FALSE
