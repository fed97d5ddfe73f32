CONSTANTS
  Builders = {b1, b2}
  Schedulers = {s1, s2}
  Options <- MCOptions
  QueueLimit = 1
  MaxRuns = 2
  MaxAtATime = 2
  MaxMishaps = 1
SYMMETRY ProcessSymmetry
SPECIFICATION Spec
INVARIANTS
  TypeOK
  UniqueSeeds
  GridCovered
  SubmittedRight
  NoJobLost
PROPERTIES
  JobFilesFresh
CHECK_DEADLOCK FALSE
