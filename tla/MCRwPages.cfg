\* One thread, two objects, three reservations, and the game, in three pages.
SPECIFICATION FairSpec
CONSTANTS
  Threads = {t1}
  Objs = {o1, o2}
  Nodes = {n1, n2, n3}
  RoPages = 2
  RwPagesMax = 3
  Avoid = {}
  RangeEnd <- MCRangeEnd
  PageSize = 2
  Requests <- MCRequests
  MaxTries = 1
  Free = free
  Game = game
  Null = null
INVARIANTS
  VirtmemSound
  AbortsExplained
PROPERTIES
  OperationEnds
  ImplementsAliasMap
