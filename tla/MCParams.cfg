SPECIFICATION Spec
CONSTANTS
  HaveSSL = TRUE
  HaveRetransmits = TRUE
  ServerLacks = {"-D", "--sctp", "-m"}
  ClientLacks = {"-C"}
  RateMod = 67108864
  ServerOptions <- MCServerOptions
  ClientOptions <- MCClientOptions
  MaxOptions = 3
  FileSize = 5
  Mss = {0, 1400}
INVARIANTS
  CommandLine
  ServerRunsTheTest
  AdmittedWithinLimits
CHECK_DEADLOCK FALSE
