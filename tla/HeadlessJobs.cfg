SPECIFICATION FairSpec
CONSTANTS
  Jobs = {j1, j2}
  MaxTroubles = 1
CHECK_DEADLOCK FALSE
INVARIANTS TypeOK JobsAreOwned
PROPERTIES ToldTruly JobsSettle
