SPECIFICATION FairSpec
CONSTANTS
  D = 2
  MaxDiscs = 3
INVARIANTS
  HeldOnlyForADisc
  ExitCodeIsTruthful
PROPERTIES
  EjectsOnlyWhenReleased
  RipsAgainOnlyByFault
  DiscIsNoticed
  OneDiscRunEnds
CHECK_DEADLOCK FALSE
