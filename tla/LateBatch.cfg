SPECIFICATION Spec
CONSTANTS
  MaxDate = 3
  MaxFaults = 1
  Late = TRUE
INVARIANTS
  IncrementalEqualsFull
CHECK_DEADLOCK FALSE
