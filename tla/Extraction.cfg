SPECIFICATION Spec
CONSTANTS
  MaxTime = 2
  MaxKey = 3
  PageSize = 2
  RejectPercent = 50
  ChildTable = TRUE
  UuidColumns = FALSE
  Plans <- TwoRules
INVARIANTS
  TypeOK
  RangeDelivered
  BronzeKeysUnique
CHECK_DEADLOCK FALSE
