SPECIFICATION Spec
CONSTANTS
  OrderIds = {o1}
  Seeded = {}
  Delays = {0, 1}
  Lateness = {1}
  Period = 4
  Grace = 4
  Retry = 2
  MaxDate = 9
INVARIANTS
  OneChangePerDate
CHECK_DEADLOCK FALSE
