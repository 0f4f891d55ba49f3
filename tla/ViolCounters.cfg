SPECIFICATION Spec
CONSTANTS
  MaxMessages = 1
  MaxDoors = 1
INVARIANT CountersFresh
CHECK_DEADLOCK FALSE
