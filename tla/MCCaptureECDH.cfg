CONSTANTS
  Gpa1 = Gpa1
  Gpa2 = Gpa2
  NoPage = NoPage
  NoEvent = NoEvent
  d1 = d1
  d2 = d2
  d3 = d3
  DataPages <- MCDataPages
  IgnoreCycles = 1
  Iterations = 4
  RetrackedPageRefaults = FALSE
SPECIFICATION MCSpec
SYMMETRY MCSymmetry
INVARIANTS
  TraceLayout
  WriteGPAIsWindowAccess
  ToggleLogIsVictimToggles
  ToggleWriteGPAIsWindowAccess
PROPERTY
  RecorderRefinement
