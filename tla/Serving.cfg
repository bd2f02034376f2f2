SPECIFICATION Spec
CONSTANTS
  Publishers = {p1, p2}
  NoFile = NoFile
  Exports = {e1, e2, e3, e4}
  DagExports = {e1, e2}
  Canonical = Canonical
  Retention = 3
  Exclusive = TRUE
SYMMETRY Symmetry
INVARIANTS
  TypeOK
  ManifestTrue
  PointedFileExists
  NeverShowsOlder
CHECK_DEADLOCK FALSE
