CONSTANTS
  g1 = g1
  g2 = g2
  g3 = g3
  GPAs = {g1, g2}
  MaxLines = 5
  MinLen = 3
  MaxLen = 8
SPECIFICATION Spec
INVARIANTS
  RunsAreDelimited
  AllowListIsCommonPages
  ToggleCountsAreRealRuns
