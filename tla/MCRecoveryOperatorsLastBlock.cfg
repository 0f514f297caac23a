CONSTANTS
  NGroups = 1
  PageBytes = 6
  StackBufAlignment = 2
  StackBufBytes = 4
  AesBlock = 2
  MainLoopCycles = 2
  MemAccessesPerCycle = 2
SPECIFICATION Spec
INVARIANTS
  StackBufCandidatesComplete
