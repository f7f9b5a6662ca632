SPECIFICATION Spec
CONSTANTS
  Digit = 32
  Nano = 10
  Micro = 5
  JAN1970 = 3
  Bits = 5
  ExpQ <- MCExpQ
  CounterWrap = 8
  Slots <- MCSlots
  ScaleMod = 8
  MultMod = 8
  NPackets = 3
  Starts <- MCStarts
  Lags <- MCLags
  Trips <- MCTrips
  Hosts <- MCHosts
INVARIANTS
  TimesTypeOK
  ScheduleKept
  IntervalExact
  StampsFaithful
