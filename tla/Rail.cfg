CONSTANTS
  projects = projects
  surfaces = surfaces
  a = a
  b = b
  c = c
  p = p
  q = q
  End = End
  NotYet = NotYet
  Scopes <- MCScopes
  Rows <- MCRows
  MaxSteps = 3
SPECIFICATION Spec
SYMMETRY Symmetry
INVARIANTS TypeOK MovesAreShown Converges
