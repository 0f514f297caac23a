CONSTANTS
  CT = CT
  FE = FE
  NoPage = NoPage
  NoEvent = NoEvent
  d1 = d1
  d2 = d2
  d3 = d3
  d4 = d4
  d5 = d5
  DataPages <- MCDataPages
  Cycles = 2
  ElemsFromBack = 4
SPECIFICATION Spec
SYMMETRY MCSymmetry
INVARIANTS
  LocatorNeverPanics
