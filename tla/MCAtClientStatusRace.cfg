CONSTANTS
  App = {a1}
  Worker = {w}
  NoThread = NoThread
  Ports = {"posix"}
  MaxTimeouts = 0
  MaxCmds = 2
  MaxUrcs = 1
  MaxIoErrors = 0
  MaxCloses = 0
  QueueCap = 1
  MaxEvents = 9
SPECIFICATION Spec
PROPERTY ReturnsOwnStatus
