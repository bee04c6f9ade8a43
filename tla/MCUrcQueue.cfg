CONSTANTS
  even = even
  odd = odd
  Urc <- MCUrc
  LineLen <- MCLineLen
  NoUrc = NoUrc
  Thread = {t1, t2}
  NoThread = NoThread
  BufferLen = 20
  StartPos = 1
  UINT16_MAX = 3
SPECIFICATION Spec
SYMMETRY Symmetry
INVARIANTS
  EntriesIntact PayloadRoomIsFree UsedBytesExact HeadersAligned
  NoSpaceLeak Inv
PROPERTY FifoSpec
