\* Abort with the handler that DbgGui installs.
SPECIFICATION FairSpec
CONSTANTS
  Threads = {t1, t2}
  MaxDepth = 0
  NoAct = none
PROPERTIES
  AbortDoesNotReturn
