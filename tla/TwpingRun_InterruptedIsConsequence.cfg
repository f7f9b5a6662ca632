SPECIFICATION Spec
CONSTANTS
  Configs <- MCConfigs
  ExchangeTimeout = 1
  CountWrap = 4
  ArgSets <- MCArgSets
INVARIANT
  InterruptedIsConsequence
