SPECIFICATION Spec
CONSTANTS
  Contacts <- MCContacts
  Deals <- MCDeals
  Moments <- MCMoments
  PageLimit = 1
  FetchLimit = 1
  MaxRowsPerType = 2
  MaxTotalRows = 3
  MaxWrites = 2
CHECK_DEADLOCK FALSE
INVARIANTS
  FinishedWalkIsExact
PROPERTIES
  WalkEnds
