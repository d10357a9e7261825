\* The window between a verdict and its return trap.
SPECIFICATION Spec
CONSTANTS
  Threads = {t1, t2}
  MaxDepth = 1
  NoAct = none
INVARIANTS
  TrapRestoresOwnThread
