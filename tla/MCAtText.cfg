CONSTANTS
  Messages <- MCMessages
  RspPrefixes <- MCPrefixes
  RxBufferLen = 4
  BufferSizes = {0, 2}
  PayloadRooms = {2, 4}
  FlushLen = 3
  MaxMessages = 3
  MaxCmds = 2
  MaxFailures = 1
  MaxText = 4
  MaxListText = 5
  EscapeBuf = 8
SPECIFICATION MCSpec
INVARIANTS
  FramesAsSent PayloadIntact BufferIsLive
  ParametersSurvive SplitAsDefined InPlaceIsSafe
CHECK_DEADLOCK FALSE
