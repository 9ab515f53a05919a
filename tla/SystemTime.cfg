SPECIFICATION Spec
CONSTANTS
  Freq = 3
  Period = 10
  Wrap = 9
  Nano = 7
  MaxGap = 6
  MaxElapsed = 30
  Nested = FALSE
INVARIANTS TypeOK NeverAhead BaseExact
PROPERTIES Monotone Fresh
\* The bounds on the gap and on the time stop the counter.
CHECK_DEADLOCK FALSE
