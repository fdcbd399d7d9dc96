SPECIFICATION Spec
CONSTANTS
  E = 2
  F = 2
  NoArt = NoArt
INVARIANT CandidatesAreFromTheirSource
CHECK_DEADLOCK FALSE
