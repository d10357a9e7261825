\* A third trampoline, when the pool has two rows.
SPECIFICATION EngineSpec
INVARIANTS
  RowsInPool
CONSTANTS
  near = near
  far = far
  odd = odd
  inlined = inlined
  other = other
  last = last
  Callers = {t1}
  Functions = {near, far, odd, inlined, other, last}
  Far = {far, odd}
  Odd = {odd}
  Jobs <- Trampolines
  BootJobs = 3
  HookMax = 2
  EntryMax = 2
  BodyWords = 6
  MaxTrace = 18
