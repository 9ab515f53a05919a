SPECIFICATION FairSpec
CONSTANTS
  Threads = {p, q}
  Locking = {a, b, c}
  sz = 2
  NUMBERS = 4
  Byte <- MCByte
  MaxCount = 3
  MaxCalls = 2
  MaxReceived = 3
  Channels = {0, 37}
  PacketNumbers = 2
  Depth = 1
  Lines = {37, 74}
  INTERRUPTS_MAX = 96
  NoHandler = "none"
INVARIANTS TypeOK InOrder NeverStalls Dispatched OneHolder
PROPERTIES CallsReturn
\* A radio that has been switched off after an error cannot send: _fflush waits for ever.
CHECK_DEADLOCK FALSE
