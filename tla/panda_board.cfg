SPECIFICATION MCSpec
CONSTANTS
  Configs <- HostConfigs
  Traffic <- CarTraffic
  Commands <- HostCommands
  HarnessStates = {"NC", "NORMAL"}
INVARIANTS
  RelayFollowsMode
  UnusedControlsExpire
PROPERTIES
  LossSoundsSiren
  KeepsPromise
  DeadHostReleasesCar
