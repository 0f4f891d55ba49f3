SPECIFICATION Spec
CONSTANTS
  None = None
  Clients = {c1}
  Listeners = {l1, l2}
  Sessions = {s1, s2, s3}
  StopTasks = {p1, p2}
  Notifications = TRUE
  StartMayFail = TRUE
  Buttons = {"start", "stop", "camera", "door", "notifications", "unload"}
  MaxDrops = 0
  MaxPresses = 4
  MaxRestarts = 2
SYMMETRY Symmetry
INVARIANTS NoDoubleStop NoOrphanSession
CHECK_DEADLOCK FALSE
