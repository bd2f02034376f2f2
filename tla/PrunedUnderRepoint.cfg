SPECIFICATION Spec
CONSTANTS
  Publishers = {p1}
  NoFile = NoFile
  Exports = {e1, e2, e3, e4}
  DagExports = {e1}
  Canonical = Canonical
  Retention = 3
  Exclusive = FALSE
SYMMETRY Symmetry
INVARIANTS
  PointedFileExists
CHECK_DEADLOCK FALSE
