SPECIFICATION Spec
CONSTANTS
  Build <- MCBuild
  VersionOf <- MCVersionOf
  FirstBuild = 1
  Offers <- MCOffers
  Thread = {"main"}
  Helper = {h1}
  Ranges = "honoured"
  MaxFaults = 2
  MaxCuts = 2
  MaxRestarts = 0
INVARIANTS TypeOK ExeIntact VersionNotAhead
PROPERTIES NeverStepsBackUnharmed
CHECK_DEADLOCK FALSE
