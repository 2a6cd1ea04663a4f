SPECIFICATION FairSpec
CONSTANTS
  c1 = c1
  c2 = c2
  None = None
  Clients <- MCClients
  NumStreams = 2
  Mode <- MCFirstBidir
  Refused <- MCNobody
  Tos <- MCNobody
  Reopens <- MCFirst
  Limited = FALSE
  HasIdleTimeout = FALSE
  HasTestTimer = TRUE
  OneOff = FALSE
  SlowPeers = FALSE
  Interrupts <- MCNobody
  ServerSignal = FALSE
  Vanish <- MCNobody
  Faults = {}
PROPERTIES
  AdmittedCompletes
CHECK_DEADLOCK FALSE
