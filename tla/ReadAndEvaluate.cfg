CONSTANTS
  Configs <- MCConfigs
  ReferenceId = 1
  MaxPasses = 2
  TreeEntries <- MCEntries
  CountModulus = 64
  Callers <- MCCallers
  FilesVanish = TRUE
  MaxQueued = 4
SPECIFICATION FairSpec
INVARIANTS
  OwnedOnce
  ReadsWhatIsAsked
  PairedByToy
  DeliveredInOrder
  CountIsHonest
PROPERTIES
  ReadingEnds
CHECK_DEADLOCK FALSE
