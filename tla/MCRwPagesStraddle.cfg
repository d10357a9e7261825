\* A request that its offset carries over a page end; the first page of the region
\* is of the heap.
SPECIFICATION Spec
CONSTANTS
  Threads = {t1}
  Objs = {o1, o2}
  Nodes = {n1, n2}
  RoPages = 2
  RwPagesMax = 3
  Avoid = {0}
  RangeEnd <- MCRangeEnd
  PageSize = 2
  Requests <- MCRequests
  MaxTries = 2
  Free = free
  Game = game
  Null = null
INVARIANTS
  ComparisonHolds
