CONSTANTS
  App = {a1}
  Worker = {w}
  NoThread = NoThread
  Ports = {"polling", "posix", "freertos"}
  MaxTimeouts = 0
  MaxCmds = 2
  MaxUrcs = 2
  MaxIoErrors = 0
  MaxCloses = 0
  QueueCap = 2
  MaxEvents = 9
SPECIFICATION FairSpec
PROPERTY CallsReturn RxIsReadWithoutSignals UrcsAreHandledByPolling
