SPECIFICATION Spec
CONSTANTS
  MaxExec = 3
  MaxInv = 2
  MaxRestarts = 0
  Builds = {b1}
  Clients = {c1}
CHECK_DEADLOCK FALSE
INVARIANTS TypeOK StatusIsTrue
PROPERTIES KeepsPromise
