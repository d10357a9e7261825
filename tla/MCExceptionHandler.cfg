\* Two threads, two tryCatch levels each; no symmetry under liveness.
SPECIFICATION FairSpec
CONSTANTS
  Threads = {t1, t2}
  MaxDepth = 2
  NoAct = none
INVARIANTS
  PathSound
PROPERTIES
  SkipIsTransparent
  VerdictHonoured
  FaultAnswered
