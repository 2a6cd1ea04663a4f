CONSTANTS
  UsecsPerSec = 2
  SecsMod = 16
  Settings <- AllSettings
  Grace = 1
  MAX_INTERVAL = 3
  Tests = 2
  MaxLate = 1
  MaxIdle = 2
  MaxBlocks = 2
SPECIFICATION Spec
INVARIANTS TimersSane OneReportPerInterval IntervalsWithinTotal BytesMeasured LimitIsAverage OnTime
PROPERTY TestEnds
CHECK_DEADLOCK FALSE
