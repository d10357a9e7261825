\* A literal in front of the function, and one below a near trampoline.
\* The processor stops where it leaves the trampoline.
SPECIFICATION Spec
CONSTANTS
  H26 = 256
  H21 = 64
  H19 = 128
  H14 = 64
  PageWords = 64
  Int32 = 4096
  MaxInstructions = 5
  TrampolineSize = 50
  Base = 200
  RwShift = 7777
  Regs = {0, 8, 17, 30}
  OutBases <- MCNearAndFar
  Windows <- MCLiterals
PROPERTIES
  LiteralLoaded
CHECK_DEADLOCK FALSE
