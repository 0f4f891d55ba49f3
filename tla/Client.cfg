SPECIFICATION FairSpec
CONSTANTS
  Names = {"PUSH", "CTPP"}
  JsonNames = {"PUSH"}
  MaxChannels = 2
  MaxRequests = 2
  MaxDeviceIds = 2
  MaxPackets = 1
  MayIgnore = TRUE
  MayDrop = TRUE
INVARIANTS NumbersMatch NothingLost AnswerIsMine
PROPERTIES CallsReturn KeepsService
CHECK_DEADLOCK FALSE
