CONSTANTS
  Procs = {p1}
  MaxCalls = 1
  NamedAtStart <- MCNamed
  Trees <- MCNewFile
  Faults <- MCSignals
  OrphanLocks = FALSE
SPECIFICATION Spec
INVARIANTS
  CaughtSignalAborts
