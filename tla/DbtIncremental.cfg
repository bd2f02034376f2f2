SPECIFICATION Spec
CONSTANTS
  MaxDate = 3
  MaxFaults = 2
  Late = FALSE
INVARIANTS
  TypeOK
  IncrementalEqualsFull
  VerifiedBatchBuilds
CHECK_DEADLOCK FALSE
