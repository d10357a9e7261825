\* Two instructions of every class, three that branch among each other, adr and
\* adrp, and five that fill the row; trampolines near, at middle distance and far.
\* The processor stops where it leaves the trampoline.
SPECIFICATION Spec
CONSTANTS
  H26 = 256
  H21 = 64
  H19 = 128
  H14 = 64
  PageWords = 64
  Int32 = 4096
  MaxInstructions = 5
  TrampolineSize = 50
  Base = 200
  RwShift = 7777
  Regs = {0, 8, 17, 30}
  OutBases <- MCOutBases
  Windows <- MCWindows
INVARIANTS
  RowSound
  LiteralsAligned
PROPERTIES
  KeepsMeaning
CHECK_DEADLOCK FALSE
