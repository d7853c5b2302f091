SPECIFICATION Spec
CONSTANTS
  c1 = c1
  c2 = c2
  p1 = p1
  p2 = p2
  Clients = {c1, c2}
  Panes = {p1}
  MaxProcesses = 2
  MaxGenerations = 2
  MaxTroubles = 0
SYMMETRY Symmetry
INVARIANTS OneStream
PROPERTIES AttachIsCurrent
CHECK_DEADLOCK FALSE
