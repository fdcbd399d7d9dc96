SPECIFICATION Spec
CONSTANTS
  N = 2
  Paths = {p1, p2}
  MaxRuns = 1
  Absent = Absent
  Old = Old
  Broken = Broken
INVARIANT AllTaggedBeforeAnyAppears
CHECK_DEADLOCK FALSE
