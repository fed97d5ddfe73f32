CONSTANTS
  Procs = {p1, p2}
  MaxCalls = 1
  NamedAtStart <- MCUnnamed
  Trees <- MCNewFile
  Faults <- MCKills
  OrphanLocks = FALSE
SPECIFICATION FairSpec
INVARIANTS
  TypeOK
PROPERTIES
  MutexGivenBackByHolder
  CallsReturn
