SPECIFICATION FairSpec
CONSTANTS
  Writers = {p, q}
  NONE = none
  sz = 2
  MaxCount = 3
  MaxBytes = 3
  Byte <- MCByte
INVARIANTS TypeOK NothingLost NeverStalls
PROPERTIES NoOverrun IsQueue WriteReturns AllSent
\* Received is always possible: no deadlock to check.
