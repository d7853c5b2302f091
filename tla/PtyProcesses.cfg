SPECIFICATION FairSpec
CONSTANTS
  Callers = {c1}
  MaxFaults = 1
  MaxRestarts = 1
CHECK_DEADLOCK FALSE
INVARIANTS TypeOK KillsAreKept
PROPERTIES KeepsContract ExitsAreKept ReservedIsLeftAlone EndsAreSettled
