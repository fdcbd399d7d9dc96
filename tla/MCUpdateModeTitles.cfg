SPECIFICATION Spec
CONSTANTS
  File = {1, 2}
  Disc = {1, 2}
  Release = {1, 2}
  CddbId <- MCCddbId
  Records <- MCRecords
  Seeds <- MCSeeds
  Plans <- MCPlans
  Filters <- MCFilters
  Lines <- MCLines
PROPERTY NameIsNotMadeUp
CHECK_DEADLOCK FALSE
