SPECIFICATION Spec
CONSTANTS
  Runs = {r1, r2}
  Rewinders = {w1}
  NoRun = NoRun
  Batches = {b1, b2}
  Reconciled = {b1, b2}
  MaxRow = 1
  RejectPercent = 0
  TTL = 1
  MaxClock = 1
SYMMETRY Symmetry
INVARIANTS
  RewindHonoured
CHECK_DEADLOCK FALSE
