SPECIFICATION LiveSpec
CONSTANTS
  None = None
  Clients = {c1}
  Listeners = {l1}
  Sessions = {s1}
  StopTasks = {p1}
  Notifications = TRUE
  StartMayFail = TRUE
  Buttons = {"start"}
  MaxDrops = 0
  MaxPresses = 1
  MaxRestarts = 1
PROPERTIES PausedListenerResumes
CHECK_DEADLOCK FALSE
