CONSTANTS
  Procs = {p1}
  MaxCalls = 2
  NamedAtStart <- MCNamed
  Trees <- MCNewFile
  Faults <- MCNoFaults
  OrphanLocks = FALSE
SPECIFICATION Spec
INVARIANTS
  PairsStayTogether
