SPECIFICATION SteeringSpec
CONSTANTS
  Limits <- BothLimits
  Torques <- MCTorques
  Measured <- MCMeasured
  AngleModes <- MCAngleModes
  Angles <- MCAngles
  Speeds <- MCSpeeds
  MAX_SAMPLE_VALS = 2
  FAR = 8
  MAX_RT_INTERVAL = 1
  SINCE_CAP = 6
  FREED_CAP = 6
INVARIANTS
  RampTakesTime
  FightIsGivenUp
  AngleFollowsWheel
PROPERTIES
  RiseLimited
  CutsAreRare
  SteersFromWhereItIs
  RefusalDoesNotStick
