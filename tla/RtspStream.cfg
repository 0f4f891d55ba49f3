SPECIFICATION Spec
CONSTANTS
  Clients = {c1, c2}
  TsMod = 4
  MaxGap = 1
  MaxQueue = 1
  MaxCalls = 2
SYMMETRY Symmetry
INVARIANTS NoStaleFrames  IndInv
PROPERTY TimestampsForward
CHECK_DEADLOCK FALSE
