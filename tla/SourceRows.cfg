SPECIFICATION Spec
CONSTANTS
  OrderIds = {o1}
  Seeded = {}
  Delays = {0, 1}
  Lateness = {1}
  Period = 4
  Grace = 4
  Retry = 2
  MaxDate = 9
INVARIANTS
  TypeOK
  PeriodsDisjoint
  OneCompletedPerCycle
  NeverBilledEarly
  ActivePeriodIsPaid
  RetriesWithinGrace
  OneOpenContract
  ScanComplete
  OrderPaymentAgree
  BusinessTimesOrdered
  NoRunAborts
CHECK_DEADLOCK FALSE
