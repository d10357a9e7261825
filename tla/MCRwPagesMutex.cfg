\* Two constructors at once.
SPECIFICATION Spec
CONSTANTS
  Threads = {t1, t2}
  Objs = {o1, o2}
  Nodes = {n1, n2}
  RoPages = 2
  RwPagesMax = 3
  Avoid = {}
  RangeEnd <- MCRangeEnd
  PageSize = 2
  Requests <- MCAligned
  MaxTries = 2
  Free = free
  Game = game
  Null = null
INVARIANTS
  FindAndMapExclusive
