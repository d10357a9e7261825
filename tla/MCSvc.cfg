\* Every wrapper, and every function of smc.c, with a monitor that obeys or refuses.
SPECIFICATION Spec
INVARIANTS
  KernelIsAskedFor
  OutputsDelivered
  SmcTellsFailure
