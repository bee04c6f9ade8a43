CONSTANTS
  DataLen = 4
  BlockSize = 2
  UINT8_RANGE = 4
  MaxRetries = 3
  ShortReads = FALSE
  Timely = FALSE
  MaxFaults = 1
  MaxSends = 1
  MaxUnread = 1
SPECIFICATION Spec
INVARIANT TransferComplete
