SPECIFICATION FairSpec
CONSTANTS
  Hashes <- MC2
  Urls <- MCUrls
  Candidates <- MCCandidates
  Links <- MCLinks
  Favicons <- MCFavicons
  Payloads <- MC2
  Images <- MCImages
  OldBytes <- MCOld
  MaxRetries = 1
  PageLimit = 2
  Layers <- MCSilent
  Same = TRUE
  None = None
INVARIANTS TypeOK RequestsBounded UpgradesMatch
PROPERTIES RecordedIfNew RunEnds
