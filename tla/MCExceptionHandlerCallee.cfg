\* The reload of x19-x28 by a caught exception.
SPECIFICATION Spec
CONSTANTS
  Threads = {t1, t2}
  MaxDepth = 1
  NoAct = none
INVARIANTS
  CaughtReloadsCallee
