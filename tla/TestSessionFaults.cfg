SPECIFICATION FairSpec
CONSTANTS
  NPackets = 2
  When <- MCWhen2
  LossTimeout = 1
  RxCap = 1
  StartTimes = {0}
  MaxTime = 3
  MaxCopies = 1
  Stray <- NoStray2
  SinkMayFail = TRUE
  SocketMayFail = TRUE
PROPERTIES
  RunTerminates
  GoroutinesEnd
