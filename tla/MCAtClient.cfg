CONSTANTS
  App = {a1, a2}
  Worker = {w}
  NoThread = NoThread
  Ports = {"polling"}
  MaxTimeouts = 1
  MaxCmds = 2
  MaxUrcs = 2
  MaxIoErrors = 1
  MaxCloses = 1
  QueueCap = 2
  MaxEvents = 5
SPECIFICATION Spec
CONSTRAINT FewEvents
SYMMETRY Symmetry
INVARIANTS
    HandledInOrder
  CallbackKeepsUrc PayloadOfPending
