SPECIFICATION ScheduledSpec
CONSTANTS
  Build <- MCBuild
  VersionOf <- MCVersionOf
  FirstBuild = 1
  Offers <- MCOneOffer
  Thread = {"main", "ws"}
  Helper = {h1, h2}
  Ranges = "honoured"
  MaxFaults = 0
  MaxCuts = 0
  MaxRestarts = 1
PROPERTIES HelpersEnd ServiceComesBack
CHECK_DEADLOCK FALSE
