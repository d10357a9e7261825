SPECIFICATION MCSpec
CONSTANTS
  boot = boot
  t1 = t1
  t2 = t2
  BootThread = boot
  Threads <- MCThreads
  Callers <- MCCallers
  MaxModules <- MCMaxModules
  MaxHandles <- MCMaxHandles
  Spaces <- MCSpaces
  Kernels <- MCKernels
  Programs <- MCPrograms
INVARIANTS LayoutSound HandleSound LinkSound
PROPERTIES BootEnds
