SPECIFICATION Spec
CONSTANTS
  NONE = none
  WORD_T_BITS = 32
  Sizes = {5, 6, 7, 8, 12}
  Requests = {1, 2, 3, 4, 5, 8}
INVARIANTS TypeOK Disjoint RightOrder SinglePageServed Coalesced
PROPERTIES PromiseKept
CHECK_DEADLOCK FALSE
