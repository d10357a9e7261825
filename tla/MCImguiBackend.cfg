\* Four frames out of five kinds.
SPECIFICATION Spec
CONSTANTS
  Frames <- MCFrames
  VtxUnits = 2
  Page = 6
  MaxFrames = 4
  None = none
INVARIANTS
  DrawsFrame
  BuffersSound
  NoLeak
