SPECIFICATION FairSpec
CONSTANTS
  Columns = 3
  MaxSpinners = 2
INVARIANTS
  ScreenIsGivenBack
PROPERTIES
  RowsAreWhole
  StopReturns
CHECK_DEADLOCK FALSE
