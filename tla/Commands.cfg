SPECIFICATION FairSpec
CONSTANTS
  MaxProcesses = 2
  MaxRuns = 2
  MaxTroubles = 1
CHECK_DEADLOCK FALSE
INVARIANTS TypeOK LiveIsKnown OneProcess StopHolds
PROPERTIES OutcomesHold EndedIsNoticed
