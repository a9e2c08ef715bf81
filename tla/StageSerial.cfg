SPECIFICATION Spec
CONSTANTS
  Runs = {r1}
  Posts = {p1, p2}
  Versions = {a, b}
  Snapshots <- MC2
  Absent = Absent
  Excluded = Excluded
  None = None
  Dumps <- MCDumps
  Overlap = FALSE
  InOrder = TRUE
  ExecutorRaises = TRUE
SYMMETRY PostSymmetry
INVARIANTS TypeOK SeenCoversScan FreshAfterPass
PROPERTIES PrunesAfterScan JournaledRemovals MirrorSpec
