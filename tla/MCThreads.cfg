SPECIFICATION FairSpec
CONSTANTS
  NumStreams = 2
  FromClient = 1
  Cap = 1
  Settings <- MCSettings
INVARIANTS
  ThreadsJoined
  NoSenderAfterTestEnd
PROPERTIES
  MainsReturn
  CancelEndsThread
