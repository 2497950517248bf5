CONSTANTS
  a = a
  b = b
  c = c
  NoId = NoId
  Ids <- MCIds
  MaxSize = 2
  BaseDelay = 2
  MaxDelay = 6
  MaxDeliveries = 6
SPECIFICATION FairSpec
PROPERTIES KeepsPromise Recovers BacksOff
