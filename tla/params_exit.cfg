SPECIFICATION Spec
CONSTANTS
  Keys = {k1}
  Cleared = {k1}
  Procs <- MCProcs
  Uses <- MCUses
  Together = FALSE
  MAX_CALLS = 3
  MAX_FAULTS = 1
CHECK_DEADLOCK FALSE
INVARIANT QueueEmptyAtExit
