SPECIFICATION ScheduledSpec
CONSTANTS
  Build <- MCBuild
  VersionOf <- MCVersionOf
  FirstBuild = 1
  Offers <- MCOneOffer
  Thread = {"main", "ws"}
  Helper = {h1, h2}
  Ranges = "ignored"
  MaxFaults = 0
  MaxCuts = 0
  MaxRestarts = 0
PROPERTIES UpdateRestarts
CHECK_DEADLOCK FALSE
