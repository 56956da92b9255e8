SPECIFICATION FairSpec
CONSTANTS
  MaxVersion = 1
  MaxChanges = 0
  MaxFaults = 0
PROPERTIES TrayEnded
