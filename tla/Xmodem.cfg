CONSTANTS
  DataLen = 9
  BlockSize = 2
  UINT8_RANGE = 4
  MaxRetries = 3
  ShortReads = FALSE
  Timely = TRUE
  MaxFaults = 5
  MaxSends = 2
  MaxUnread = 2
SPECIFICATION FairSpec
INVARIANTS
  TransferComplete NeverOutOfStep
PROPERTY SendReturns
