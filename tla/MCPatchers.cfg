\* Two writes, through any of the patchers, between two lines.
SPECIFICATION Spec
CONSTANTS
  Size = 4
  DLine = 2
  ILine = 2
  Palettes <- MCPalettes
  Data <- MCData
  Assembly <- MCAssembly
  MaxWrites = 2
INVARIANTS
  PatchInv
  FlushedIsFetched
  WrittenAsAsked
