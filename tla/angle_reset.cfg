SPECIFICATION MCSpec
CONSTANTS
  Limits <- BydLimits
  Angles <- MCAngles
  Measured <- MCMeasured
  Speeds <- MCSpeeds
  MAX_SAMPLE_VALS = 2
  FAR = 8
PROPERTIES
  RefusalKeepsAngle
