SPECIFICATION Spec
CONSTANTS
  Pids = {p1, p2, p3}
  NoPid = NoPid
INVARIANT ServerStopsWithService
PROPERTY ServesUntilStopped
CHECK_DEADLOCK FALSE
