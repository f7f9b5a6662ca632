SPECIFICATION ControlFairSpec
CONSTANTS
  Configs <- MCConfigs
  ExchangeTimeout = 2
INVARIANTS
  ControlTypeOK
  PeersAgree
  ModeAgreed
  CancelIsReported
  FailedSetupReleases
PROPERTIES
  NoStaleDeadline
  CallsEnd
  CancelEndsCall
  WatchdogReleased
