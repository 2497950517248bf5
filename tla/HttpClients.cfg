CONSTANTS
  c1 = c1
  c2 = c2
  o1 = o1
  o2 = o2
  t1 = t1
  t2 = t2
  None = None
  Codes <- MCCodes
  Owners <- MCOwners
  Tasks <- MCTasks
  Modes <- MCModes
  MaxTime = 2
SPECIFICATION Spec
SYMMETRY Symmetry
INVARIANTS NothingSkipped OneIdentity SpeaksToFriends
