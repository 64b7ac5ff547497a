SPECIFICATION Spec
CONSTANTS
  MaxEdits = 1
  MaxRequests = 1
  MaxForeign = 0
  MaxRuns = 0
  MaxCalls = 1
  MaxToolRounds = 1
INVARIANT NoChangesMeansSaved
CHECK_DEADLOCK FALSE
