SPECIFICATION FairSpec
CONSTANTS
  Items <- MC3
  HashOf <- TwoNames
  NameOf <- Sharing
  ShardOf <- Letters
  Images <- OnlyA
  Payloads = {x, y}
  StorageFails = TRUE
  None = None
INVARIANTS OkIsOnDisk RowsHaveLines
PROPERTIES CompletedSurvive Extracted
