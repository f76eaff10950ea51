SPECIFICATION Spec
CONSTANTS
  Readers = {11}
  Publishers = {1}
  Queues <- Longer
  Overlap = TRUE
  Overrun = FALSE
  Rivals = FALSE
CHECK_DEADLOCK FALSE
INVARIANT ReturnedWhole
