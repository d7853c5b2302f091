SPECIFICATION Spec
CONSTANTS
  MaxProcesses = 1
  MaxRuns = 1
  MaxTroubles = 0
CHECK_DEADLOCK FALSE
PROPERTIES AuditIsConclusive
