CONSTANTS
  s1 = s1
  s2 = s2
  s3 = s3
  u1 = u1
  NoSocket = NoSocket
  Sockets <- MCSockets
  Callers <- OneCaller
  Identities <- AgentOnly
  InitialBackoff = 2
  MaxBackoff = 3
  Polite = TRUE
  ServerFails = TRUE
  RefreshRejected = FALSE
SPECIFICATION FairSpec
PROPERTY Recovers
