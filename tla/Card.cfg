SPECIFICATION FairSpec
CONSTANTS
  MaxCalls = 3
  MaxPending = 3
INVARIANT NothingStale
PROPERTIES StreamIsShown LeavingStops
