SPECIFICATION Spec
CONSTANTS
  NPackets = 2
  When <- MCWhen2
  LossTimeout = 1
  RxCap = 1
  StartTimes <- EarlyOrLate
  MaxTime = 3
  MaxCopies = 1
  Stray <- NoStray2
  SinkMayFail = FALSE
  SocketMayFail = TRUE
INVARIANT
  ReceiverServesRun
