SPECIFICATION MCSpec
CONSTANTS
  SOFT_DISABLE_FRAMES = 2
  MISMATCH_LIMIT = 2
  SETTLE_FRAMES = 1
  STALE_FRAMES = 2
  QUEUE = 2
INVARIANTS SoftDisableEnds MismatchGivesUp
PROPERTIES ConsentGiven BrakeDisengages
