CONSTANTS
  EventParts = 64
  Kind <- MCKind
  Subs <- MCSubs
  Coefs <- MCCoefs
  ExpectedEvents <- MCExpected
  WithProto <- MCProto
  ProtoOnly <- MCProtoOnly
  Yields <- MCYields
  MaxPoisson = 2
  MayAbort = TRUE
  MaxCalls = 2
  Vars <- MCVars
  Observables <- MCObservables
  Cumulative <- MCCumulative
  ProbUnit = 2
  Params <- MCParams
  Unit = 2
  Requests <- MCRequests
  MaxDraw = 3
SPECIFICATION FairGeneration
INVARIANTS
  SizesMatch
  ProtoSuffices
  ShuffleUniform
  MixedRight
  ConstrainedAsRecorded
PROPERTY GenerationEnds
CHECK_DEADLOCK FALSE
