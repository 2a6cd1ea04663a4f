SPECIFICATION FairSpec
CONSTANTS
  c1 = c1
  c2 = c2
  None = None
  Clients <- MCClients
  NumStreams = 1
  Mode <- MCFirstReceives
  Refused <- MCFirst
  Tos <- MCSecond
  Reopens <- MCSecond
  Limited = TRUE
  HasIdleTimeout = FALSE
  HasTestTimer = TRUE
  OneOff = FALSE
  SlowPeers = FALSE
  Interrupts <- MCClients
  ServerSignal = TRUE
  Vanish <- MCSecond
  Faults = {"reopen", "reset", "sockopt", "start", "stream", "select"}
PROPERTIES
  ClientsFinish
  ServerIsFreed
  ErrorIsTold
CHECK_DEADLOCK FALSE
