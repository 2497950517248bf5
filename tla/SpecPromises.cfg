CONSTANTS
  t1 = t1
  t2 = t2
  NoTask = NoTask
  Tasks <- TwoTasks
  Sdks <- AllSdks
  Limit = 1
  a = a
  b = b
  c = c
  d = d
  e = e
  r1 = r1
  NoId = NoId
  Ids <- MCIds
  Readers <- OneReader
  PruneAt = 4
  Keep = 2
  MaxDeliveries = 9
SPECIFICATION PromisesSpec
INVARIANT TrackerConsistent
PROPERTIES FollowsProtocol CallsReturn KeepsPromise
