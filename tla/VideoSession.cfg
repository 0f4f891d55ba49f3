SPECIFICATION FairSpec
CONSTANTS
  MaxMessages = 2
  MaxDoors = 1
INVARIANTS IndInv
PROPERTIES KeepsPromises HandshakeExclusive QuietAfterStop CallEndSettles DoorReturns ReusedOnlyThere TakenOnlyThere
CHECK_DEADLOCK FALSE
