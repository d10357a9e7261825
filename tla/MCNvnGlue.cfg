\* One queue and two command buffers; one key, one button, and one reader of pads.
SPECIFICATION FairSpec
CONSTANTS
  Threads = {t1, t2}
  Presenter = t1
  Queues = {q1}
  Bufs = {b1, b2}
  Buttons = {a}
  Keys = {k}
  Readers = {r1}
  Refusable = {"device", q1}
  Null = null
INVARIANTS
  StartedOnce
  StartsWhenComplete
  NothingMissing
  InputWhole
  PadsReachGame
PROPERTIES
  PresentsReachDriver
