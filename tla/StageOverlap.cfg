SPECIFICATION FairSpec
CONSTANTS
  Runs = {r1, r2}
  Posts = {p1}
  Versions = {a, b}
  Snapshots <- MC1
  Absent = Absent
  Excluded = Excluded
  None = None
  Dumps <- AllDumps
  Overlap = TRUE
  InOrder = FALSE
  ExecutorRaises = FALSE
INVARIANTS ScanHoldsLock
PROPERTIES LegacyKept RunsEnd
