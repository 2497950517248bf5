CONSTANTS
  c1 = c1
  c2 = c2
  u1 = u1
  l1 = l1
  NoConn = NoConn
  Conns <- TwoConns
  Callers <- OneCaller
  Loops <- OneLoop
  Kinds <- JsonOnly
  InitialBackoff = 1
  MaxBackoff = 2
  Discipline <- Any
  ServerFails = TRUE
SPECIFICATION FairSpec
INVARIANTS TypeOK NoPanic DisconnectIsFinal OneServedConn
PROPERTIES Recovers PingsEnd
