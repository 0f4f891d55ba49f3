SPECIFICATION LiveSpec
CONSTANTS
  None = None
  Clients = {c1, c2, c3}
  Listeners = {l1}
  Sessions = {s1, s2}
  StopTasks = {p1}
  Notifications = FALSE
  StartMayFail = FALSE
  Buttons = {"start", "stop", "unload"}
  MaxDrops = 1
  MaxPresses = 1
  MaxRestarts = 1
PROPERTIES ConnectionRecovers DeadSessionReplaced KeepsSlot
CHECK_DEADLOCK FALSE
