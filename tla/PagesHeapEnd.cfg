SPECIFICATION Spec
CONSTANTS
  NONE = none
  WORD_T_BITS = 32
  Sizes = {5}
  Requests = {1, 2, 4}
INVARIANTS InHeap
CHECK_DEADLOCK FALSE
