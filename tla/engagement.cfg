SPECIFICATION Spec
CONSTANTS
  SOFT_DISABLE_FRAMES = 1
  MISMATCH_LIMIT = 2
  SETTLE_FRAMES = 1
  STALE_FRAMES = 1
  EXPIRE = 1
  LOSE_FROM = 1
  LOSE_BY = 2
  MAX_EXITS = 1
PROPERTIES NotAllowedEndsIt UnusedControlsEnd GivenUpIsFinal
