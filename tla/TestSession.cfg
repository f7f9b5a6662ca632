SPECIFICATION Spec
CONSTANTS
  NPackets = 2
  When <- MCWhen2
  LossTimeout = 1
  RxCap = 1
  StartTimes <- EarlyOrLate
  MaxTime = 3
  MaxCopies = 2
  Stray <- OneStray2
  SinkMayFail = FALSE
  SocketMayFail = FALSE
INVARIANTS
  TypeOK
  LossIsFinal
  NilMeansComplete
  NoEarlyReturn
  ReceiverServesRun
PROPERTIES
  NoEarlyLoss
  StreamRefined
