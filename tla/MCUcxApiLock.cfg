SPECIFICATION Spec
CONSTANTS
  App = {a1, a2}
  NoThread = NoThread
  ShortEnums = FALSE
  MaxCalls = 2
  MaxEntries = 2
  MaxFaults = 1
  MaxUrcs = 0
INVARIANT LockReturned
SYMMETRY Symmetry
CHECK_DEADLOCK FALSE
