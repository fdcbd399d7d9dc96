SPECIFICATION FairSpec
CONSTANTS
  N = 2
  Paths = {p1, p2}
  MaxRuns = 2
  Absent = Absent
  Old = Old
  Broken = Broken
INVARIANTS
  GainCoversAlbum
  SuccessPublishesAll
  OneFaultKeepsACopy
PROPERTIES
  NothingBeforeLastTrack
  FailureStopsPublishing
  ReplacesSafely
  RunEnds
CHECK_DEADLOCK FALSE
