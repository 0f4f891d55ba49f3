SPECIFICATION FairSpec
CONSTANTS
  MaxRings = 2
  MaxQueue = 2
  MaxCrashes = 0
  DedupWindow = 2
  CrashWindow = 2
  RestartLimit = 1
  SendMayFail = FALSE
  Video = FALSE
  Doors = FALSE
  Restarts = FALSE
INVARIANT OncePerRing
INVARIANT AloneInv
INVARIANT MissedAfterRing
PROPERTY RingHandled
PROPERTY AlertingEnds
