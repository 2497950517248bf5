CONSTANTS
  k1 = k1
  k2 = k2
  f1 = f1
  t1 = t1
  t2 = t2
  NoKey = NoKey
  OwnKeys <- TwoKeys
  FriendKeys <- OneFriend
  Tasks <- TwoTasks
  Serial <- Both
  Careful <- Both
  Nested <- Both
SPECIFICATION Spec
SYMMETRY Symm
INVARIANTS OneCurrent KeysSurvive ActiveIsStored ReturnsOwn
