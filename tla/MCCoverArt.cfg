SPECIFICATION Spec
CONSTANTS
  E = 3
  F = 2
  NoArt = NoArt
INVARIANTS
  PreferenceIsKept
  EarlierEntryWins
  FailsOnlyWithNothing
  OnePicturePerAlbum
PROPERTIES
  PictureIsNeverLost
CHECK_DEADLOCK FALSE
