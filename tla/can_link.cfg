SPECIFICATION Spec
CONSTANTS
  w1 = w1
  w2 = w2
  w3 = w3
  Frames = {w1, w2, w3}
  Blocked = {w3}
  RX_SLOTS = 3
  TX_SLOTS = 1
  HW_SLOTS = 1
  MIN_SLOTS = 1
  Batches <- MCBatches
  XFER = 3
  RECV = 5
  NACKS = 1
  TIMEOUTS = 0
  Forwarded = {1}
  MAX_BUS = 1
  MAX_FAULTS = 1
INVARIANTS WholeInOrder NothingLost WriteFits OncePerFault
PROPERTIES GenuineAnswer LinkRecovers
