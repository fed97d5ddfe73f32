CONSTANTS
  Procs = {p1, p2}
  MaxCalls = 2
  NamedAtStart <- MCNamed
  Trees <- MCNewFile
  Faults <- MCSignals
  OrphanLocks = TRUE
SYMMETRY MCSymmetry
SPECIFICATION Spec
INVARIANTS
  FileExclusive
  SignalsSpareTheFile
  HalfAsynchronous
  Conservation
  FinishSavesEverything
PROPERTIES
  ImplementsStore
