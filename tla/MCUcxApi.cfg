SPECIFICATION Spec
CONSTANTS
  App = {a1, a2}
  NoThread = NoThread
  ShortEnums = FALSE
  MaxCalls = 2
  MaxEntries = 2
  MaxFaults = 1
  MaxUrcs = 2
INVARIANTS
  AsDeclared
  LockBalanced
  SuccessIsAnswered
  PointersIntact
  ErrorsOfModuleAreReported
  NoUrcTaken
PROPERTIES
  CallbackGetsUrc
SYMMETRY Symmetry
CHECK_DEADLOCK FALSE
