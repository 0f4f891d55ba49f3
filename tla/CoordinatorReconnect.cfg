SPECIFICATION Spec
CONSTANTS
  None = None
  Clients = {c1, c2, c3}
  Listeners = {l1, l2}
  Sessions = {s1, s2}
  StopTasks = {p1}
  Notifications = TRUE
  StartMayFail = TRUE
  Buttons = {"start", "stop", "door", "unload"}
  MaxDrops = 1
  MaxPresses = 2
  MaxRestarts = 1
SYMMETRY Symmetry
INVARIANTS LiveConnectionKeptAlive IndInv
PROPERTIES LostOnlyThere StopStands
CHECK_DEADLOCK FALSE
