SPECIFICATION FairSpec
CONSTANTS
  S = 3
  Keys = {k1}
  NoKey = NoKey
  MaxTitles = 2
  MaxVariants = 2
  MaxFinds = 2
INVARIANTS
  ListedInServerOrder
  ErrorIsTheFirst
  NoReleaseFoundTwice
  SearchOnlyWhenDue
  ShownIsHonest
PROPERTIES
  FetchReturns
CHECK_DEADLOCK FALSE
