SPECIFICATION FairSpec
CONSTANTS
  MinPeriod = 2
  CfgPeriod = 3
  Intervals = {0, 1, 4}
  Longest = 4
  Measured <- CornerReadings
  Noise <- AnyPulse
  MaxCmds = 3
INVARIANTS
  TypeOK
  
  PeriodInForce
  SampleIsMeasured
PROPERTIES
  StreamObeys
CHECK_DEADLOCK FALSE
