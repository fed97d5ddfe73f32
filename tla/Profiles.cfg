SPECIFICATION Spec
CONSTANTS
  Steps = 4
  ScanPoints = {0, 8, 24}
  DataNlls = {1, 2}
  NominalNlls = {1}
  Deltas <- MCDeltas
  FewToys = 0
  Levels <- MCLevels
  MaxData = 3
  MaxToys = 4
  Samples = 3
  MaxVars = 2
  Unit = 4
  Readable <- MCReadable
  Fits <- MCFits
  MaxRead = 3
  MaxScans = 2
  Level <- MCLevel
INVARIANTS
  GridOnce
  MinIsMinimum
  IntervalsCover
  EndsExplained
CHECK_DEADLOCK FALSE
