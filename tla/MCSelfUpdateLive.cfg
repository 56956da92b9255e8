SPECIFICATION ScheduledSpec
CONSTANTS
  Build <- MCBuild
  VersionOf <- MCVersionOf
  FirstBuild = 1
  Offers <- MCOneOffer
  Thread = {"main"}
  Helper = {h1}
  Ranges = "honoured"
  MaxFaults = 2
  MaxCuts = 2
  MaxRestarts = 0
PROPERTIES UpdateInstalled
CHECK_DEADLOCK FALSE
