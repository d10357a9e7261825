SPECIFICATION Spec
CONSTANTS
  game = game
  render = render
  handler = handler
  Nobody = Nobody
  Handler = handler
  p1 = p1
  p2 = p2
  heap = heap
  actor = actor
  NoAddress = NoAddress
  Game = game
  Render = render
  Loggers <- MCLoggers
  Lengths <- MCLengths
  Cost <- MCCost
  Actors <- MCActors
  Paths <- MCPaths
  Addresses <- MCAddresses
  LogSize = 16
  LineMax = 2
  Margin = 6
  Logs = 3
  ActorMax = 2
  Uses = 2
SYMMETRY MCSymmetry
INVARIANTS LogKept FrameSound GotoServed FilesSound
CHECK_DEADLOCK FALSE
