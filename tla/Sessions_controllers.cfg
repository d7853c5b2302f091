SPECIFICATION Spec
CONSTANTS
  c1 = c1
  p1 = p1
  p2 = p2
  Clients = {c1}
  Panes = {p1, p2}
  MaxProcesses = 2
  MaxGenerations = 2
  MaxTroubles = 1
SYMMETRY Symmetry
INVARIANTS TypeOK OneController NothingIsLeftBehind
CHECK_DEADLOCK FALSE
