SPECIFICATION Spec
CONSTANTS
  MaxTime = 1
  MaxKey = 2
  PageSize = 2
  RejectPercent = 50
  ChildTable = FALSE
  UuidColumns = TRUE
  Plans <- NoRules
INVARIANTS
  RowErrorsOnlyReject
CHECK_DEADLOCK FALSE
