SPECIFICATION FairSpec
CONSTANTS
  MaxEdits = 2
  MaxRequests = 2
  MaxForeign = 1
  MaxRuns = 2
  MaxCalls = 2
  MaxToolRounds = 2
INVARIANTS TypeOK SyncedViews CleanIsSaved OneRunAtATime
PROPERTIES NothingTypedIsLost ResultsNeverGoBack SavesArrive TestsEnd ChatEnds
CHECK_DEADLOCK FALSE
