SPECIFICATION Spec
CONSTANTS
  Albums <- MCAlbums
  Tolerance = 2
INVARIANTS
  FilesStayUpdatable
  SeedsAreOfTheDisc
  ReleaseAndMediumAgree
  OwnMediumIsKept
CHECK_DEADLOCK FALSE
