\* The entry of an inline hook branches behind the first moved instruction.
SPECIFICATION EngineSpec
INVARIANTS
  InlineCallsWhole
CONSTANTS
  near = near
  far = far
  odd = odd
  inlined = inlined
  other = other
  last = last
  Callers = {t1}
  Functions = {near, far, odd, inlined, other, last}
  Far = {far, odd}
  Odd = {odd}
  Jobs <- InlineOnce
  BootJobs = 1
  HookMax = 12
  EntryMax = 2
  BodyWords = 6
  MaxTrace = 18
