SPECIFICATION Spec
CONSTANTS
  Settings <- MCSettings
  Loads <- MCLoads
  MaxIntervals = 1
INVARIANTS
  ReportsAgree
  IntervalsShowEverything
  ServerOutputComplete
CHECK_DEADLOCK FALSE
