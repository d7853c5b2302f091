SPECIFICATION Spec
CONSTANTS
  Callers = {c1}
  MaxFaults = 1
  MaxRestarts = 1
CHECK_DEADLOCK FALSE
PROPERTIES SweepSparesLaunches
