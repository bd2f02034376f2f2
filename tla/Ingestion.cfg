SPECIFICATION Spec
CONSTANTS
  Runs = {r1, r2}
  Rewinders = {w1}
  NoRun = NoRun
  Batches = {b1, b2}
  Reconciled = {b1, b2}
  MaxRow = 2
  RejectPercent = 50
  TTL = 1
  MaxClock = 1
SYMMETRY Symmetry
INVARIANTS
  TypeOK
  NoRowLost
  CatalogMatchesStore
  SuccessIffCatalogued
  RowsLoadedOnce
  RewoundRowsReread
CHECK_DEADLOCK FALSE
