CONSTANTS
  s1 = s1
  s2 = s2
  s3 = s3
  NoSocket = NoSocket
  Sockets <- MCSockets
  InitialBackoff = 2
  MaxBackoff = 5
  Callback <- Both
  Patience <- Both
  ServerFails = TRUE
  MaxTimers = 2
SPECIFICATION FairNodeSpec
INVARIANTS NodeTypeOK OneGreetedSocket DisconnectIsFinal
PROPERTY Recovers
