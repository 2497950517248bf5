CONSTANTS
  k1 = k1
  k2 = k2
  u1 = u1
  u2 = u2
  l1 = l1
  l2 = l2
  d1 = d1
  d2 = d2
  d3 = d3
  d4 = d4
  NoKey = NoKey
  NoDict = NoDict
  NoLoop = NoLoop
  AutoKeys <- TwoKeys
  UserKeys <- TwoUserKeys
  Loops <- TwoLoops
  Dicts <- FourDicts
  Usages <- SomeUsages
  Modes <- Both
SPECIFICATION IdentitySpec
SYMMETRY Symm
INVARIANTS KeysKept OnlineAsItself
