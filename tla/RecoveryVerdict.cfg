SPECIFICATION RecoverySpec
CONSTANTS
  Items <- MC2
  HashOf <- Distinct
  NameOf <- OneShard
  ShardOf <- Letters
  Images <- OnlyA
  Payloads = {x}
  StorageFails = FALSE
  None = None
  Confirmed <- AsShipped
  Torn = FALSE
  Scripts = {s1}
INVARIANTS PassIsHonest
