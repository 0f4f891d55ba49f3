SPECIFICATION Spec
CONSTANTS
  MaxRings = 1
  MaxQueue = 1
  MaxCrashes = 3
  DedupWindow = 1
  CrashWindow = 1
  RestartLimit = 1
  SendMayFail = TRUE
  Video = TRUE
  Doors = TRUE
  Restarts = TRUE
INVARIANT GivesUpOnBurst
PROPERTIES NoStaleCrash RingsLostOnlyThere
VIEW SharedView
