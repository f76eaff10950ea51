SPECIFICATION MCSpec
CONSTANTS
  Readers = {11, 12}
  Publishers = {1, 2}
  Queues <- Both
  Overlap = FALSE
  Overrun = FALSE
  Rivals = FALSE
CHECK_DEADLOCK FALSE
INVARIANTS
  ReturnedWhole
  SlotsAreCounted
PROPERTIES
  InOrder
  CallsReturn
