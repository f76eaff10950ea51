SPECIFICATION MCFairSpec
CONSTANTS
  Configs <- Ka2Configs
  Traffic <- Ka2Traffic
  Commands <- Ka2Commands
INVARIANTS
  BrakeStopsMoving
  OneSource
  ProtonDebounce
PROPERTIES
  GrantNeedsDriver
  InvalidFramesTeachNothing
  LagKeepsInterrupting
