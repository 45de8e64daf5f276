CONSTANTS
  Samples = 3
SPECIFICATION FairSpec
INVARIANTS TypeOK NewestIsFiltered
PROPERTIES FilterGoesOn EndReturns
CHECK_DEADLOCK FALSE
