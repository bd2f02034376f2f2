SPECIFICATION Spec
CONSTANTS
  NoOwner = NoOwner
  TTL = 1
  Generators = {g1, g2}
  Warehouses = {w1}
  Tables = {t1, t2}
  MaxDate = 2
  Variants = {v1}
  MaxClock = 1
SYMMETRY Symmetry
INVARIANTS
  TypeOK
  CommittedSnapshotsAgree
  SuccessIsCommitted
PROPERTIES
  SourceFrozen
  SourceCursorsForward
  InputCommittedOnce
CHECK_DEADLOCK FALSE
