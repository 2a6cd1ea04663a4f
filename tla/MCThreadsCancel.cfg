SPECIFICATION FairSpec
CONSTANTS
  NumStreams = 2
  FromClient = 1
  Cap = 1
  Settings <- MCLimited
PROPERTIES
  CancelEndsThread
CHECK_DEADLOCK FALSE
