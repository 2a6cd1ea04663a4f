SPECIFICATION Spec
CONSTANTS
  Segments = 2
  CounterMod = 5
  Duplicates = TRUE
  SendFails = TRUE
  MaxSent = 5
INVARIANTS
  TypeOK
  LossExact
  LossNeverOverstated
  LossWithinReport
CHECK_DEADLOCK FALSE
