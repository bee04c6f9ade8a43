CONSTANTS
  App = {a1}
  Worker = {w}
  NoThread = NoThread
  Ports = {"freertos"}
  MaxTimeouts = 0
  MaxCmds = 0
  MaxUrcs = 2
  MaxIoErrors = 0
  MaxCloses = 0
  QueueCap = 1
  MaxEvents = 9
SPECIFICATION FairSpec
PROPERTY RxIsRead
