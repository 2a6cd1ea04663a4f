SPECIFICATION Spec
CONSTANTS
  Fds = {n1, n2, n3, n4, n5, n6}
  NoFd = NoFd
  NumStreams = 2
  Tests <- MCTests
  ServerOptions <- MCServerOptions
  MaxTests = 2
  MaxFailures = 1
  Winsock = FALSE
SYMMETRY Numbers
INVARIANTS
  ReleasedOnce
  OwnDescriptors
  ReceivedFromPeer
CHECK_DEADLOCK FALSE
