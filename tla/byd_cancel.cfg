SPECIFICATION MCSpec
CONSTANTS
  Configs <- BydRelaxed
  Traffic <- BydTraffic
  Commands <- BydCommands
PROPERTIES
  CancelRetakesControl
