SPECIFICATION Spec
CONSTANTS
  Fds = {n1, n2, n3, n4, n5, n6}
  NoFd = NoFd
  NumStreams = 2
  Tests <- WindowsTests
  ServerOptions <- MCServerOptions
  MaxTests = 1
  MaxFailures = 0
  Winsock = TRUE
SYMMETRY Numbers
INVARIANT
  DeniedIsNoError
CHECK_DEADLOCK FALSE
