\* Hooks of every kind, before the game runs and while it does.  Threads only read
\* what is installed, so that one of them shows what any of them meets.
SPECIFICATION EngineFairSpec
INVARIANTS
  CallsWhole
  HooksRun
  HookSound
PROPERTIES
  CallsEnd
CONSTANTS
  near = near
  far = far
  odd = odd
  inlined = inlined
  other = other
  last = last
  Callers = {t1}
  Functions = {near, far, odd, inlined, other, last}
  Far = {far, odd}
  Odd = {odd}
  Jobs <- MCJobs
  BootJobs <- MCBootJobs
  HookMax = 12
  EntryMax = 2
  BodyWords = 6
  MaxTrace = 18
