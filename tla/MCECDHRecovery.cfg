CONSTANTS
  Iterations = 7
  MaxMarkers = 2
  KeyBytes <- MCKeyBytes
  o1 = o1
  o2 = o2
  Offsets <- MCOffsets
  TrueOffset = o1
  NoiseSeqs <- MCNoise
SPECIFICATION Spec
INVARIANTS
  TypeOK
  KeyFoundWhenTraceComplete
  CorrectOnlyTrueKey
\* main returns once it has reported, returned early or died.
CHECK_DEADLOCK FALSE
