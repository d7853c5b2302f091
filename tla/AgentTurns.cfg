SPECIFICATION Spec
CONSTANTS
  MaxExecutions = 2
  MaxRecords = 2
  MaxTroubles = 2
CHECK_DEADLOCK FALSE
INVARIANTS TypeOK OutcomesStick NothingIsMissed
PROPERTIES FreshOrFailed DeathsAreReal
