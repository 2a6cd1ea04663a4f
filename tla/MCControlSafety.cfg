SPECIFICATION Spec
CONSTANTS
  c1 = c1
  c2 = c2
  None = None
  Clients <- MCClients
  NumStreams = 1
  Mode <- MCFirstBidir
  Refused <- MCNobody
  Tos <- MCNobody
  Reopens <- MCFirst
  Limited = TRUE
  HasIdleTimeout = TRUE
  HasTestTimer = TRUE
  OneOff = FALSE
  SlowPeers = TRUE
  Interrupts <- MCClients
  ServerSignal = TRUE
  Vanish <- MCSecond
  Faults = {"listen", "start", "stream"}
INVARIANTS
  ControlInvariant
  StreamsMatch
  RunningTogether
  Framing
  SuccessMeansExchanged
  ErrorIsOwn
PROPERTIES
  StrangersAreHarmless
  ErrorIsTold
  ImplementsSession
CHECK_DEADLOCK FALSE
