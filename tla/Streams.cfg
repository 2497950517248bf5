CONSTANTS
  f1 = f1
  Friends <- OneFriend
  AgentSdks <- Sdks
  PeerSdks <- Clients
  InvokeSdks <- Sdks
  Cap = 1
  MaxEvents = 3
  Workers = 2
  MaxLines = 2
  MaxReceived = 2
  MaxStreams = 3
  MaxWire = 3
  MaxCancels = 3
SPECIFICATION OutputsSpec
INVARIANTS StreamsClose OneAbortPerCancel GivenAsSent ConsoleInOrder
PROPERTIES StopWorks ReaderEnds ConsoleServes
CHECK_DEADLOCK FALSE
