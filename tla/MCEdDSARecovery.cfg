CONSTANTS
  NGroups = 0
  o1 = o1
  o2 = o2
  Offsets <- MCOffsets
  TrueOffset = o1
  NoisePatterns <- MCNoise
  Digests <- MCDigests
SPECIFICATION Spec
INVARIANTS
  TypeOK
  NoInvalidForgery
  KeyRecoveredWhenObservable
\* main returns when both loops are done or signedBToUnsigned panicked.
CHECK_DEADLOCK FALSE
