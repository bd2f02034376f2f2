SPECIFICATION FairSpec
CONSTANTS
  Publishers = {p1, p2}
  Recoverers = {c1}
  NoFile = NoFile
  DagRuns = {d1}
  NoDag = NoDag
INVARIANTS
  TypeOK
  PreviousIsBase
PROPERTIES
  ImplementsVersions
  SwapsOntoItsBase
  ScratchNeverPublished
  AbandonedRunClosed
  SwapIsRecorded
