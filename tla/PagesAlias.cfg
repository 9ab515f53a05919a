SPECIFICATION Spec
CONSTANTS
  NONE = none
  WORD_T_BITS = 32
  Sizes = {65}
  Requests = {1, 2, 8, 64}
INVARIANTS Disjoint
CHECK_DEADLOCK FALSE
