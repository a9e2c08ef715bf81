SPECIFICATION Spec
CONSTANTS
  Runs = {r1}
  Posts = {p1}
  Versions = {a, b}
  Snapshots <- MC1
  Absent = Absent
  Excluded = Excluded
  None = None
  Dumps <- MCDumps
  Overlap = FALSE
  InOrder = TRUE
  ExecutorRaises = TRUE
PROPERTIES PrunesOnlyAbsent
