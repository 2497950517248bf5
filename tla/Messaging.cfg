CONSTANTS
  a1 = a1
  a2 = a2
  g1 = g1
  g2 = g2
  f1 = f1
  t1 = t1
  t2 = t2
  None = None
  Agents <- MCAgents
  Groups <- MCGroups
  Frames <- MCFrames
  Tasks <- MCTasks
  MaxSends = 1
  MaxAsks = 2
  Modes <- MCModes
SPECIFICATION Spec
SYMMETRY Symmetry
INVARIANTS AnsweredAsAsked HonestOutcome StoredWithOwner
