SPECIFICATION Spec
CONSTANTS
  Hashes = {h1}
  Captures = {c1, c2}
  MaxCrashes = 2
SYMMETRY Symmetry
CHECK_DEADLOCK FALSE
INVARIANTS TypeOK Resolvable GotIsKept LedgerExact
