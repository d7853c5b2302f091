SPECIFICATION Spec
CONSTANTS
  MaxExec = 2
  MaxInv = 1
  MaxRestarts = 1
  Builds = {b1}
  Clients = {c1}
CHECK_DEADLOCK FALSE
INVARIANTS AtMostOneLeaf
PROPERTIES ControlsHold ComputedOnce AnsweredIsRouted
