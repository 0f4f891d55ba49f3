SPECIFICATION Spec
CONSTANTS
  v1 = v1
  v2 = v2
  Viewers = {v1, v2}
  MaxQueue = 1
  MaxErrors = 2
  MaxPackets = 4
  MaxLost = 2
  MayOvertake = TRUE
SYMMETRY ViewersSymmetry
INVARIANTS DamageIsLoss EveryFrameWakes FreshFrames
CHECK_DEADLOCK FALSE
