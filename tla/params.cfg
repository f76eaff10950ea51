SPECIFICATION Spec
CONSTANTS
  Keys = {k1, k2}
  Cleared = {k1}
  Procs <- MCProcs
  Uses <- MCUses
  Together = FALSE
  MAX_CALLS = 3
  MAX_FAULTS = 1
INVARIANTS NeverTorn AcknowledgedStays Snapshot
PROPERTIES ActsAsStore WriterCatchesUp
