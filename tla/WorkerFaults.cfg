SPECIFICATION FairSpec
CONSTANTS
  Items <- MC2
  HashOf <- OneTwice
  Payloads = {x, y}
  Workers = {w1, w2}
  MaxRetries = 1
  StorageFails = TRUE
  None = None
INVARIANTS TypeOK OkIsOnDisk OkLinesOnDisk NothingLost
PROPERTIES CompletedSurvive RunEnds
