CONSTANTS
  Configs <- MCOneToyEach
  ReferenceId = 1
  MaxPasses = 2
  TreeEntries <- MCEntries
  CountModulus = 64
  Callers <- MCCallers
  FilesVanish = TRUE
  MaxQueued = 4
SPECIFICATION ResultsSpec
INVARIANTS
  EvaluatesStoredResults
CHECK_DEADLOCK FALSE
