SPECIFICATION FairSpec
CONSTANTS
  AppxFile = 1
  MaxChanges = 1
  MaxFaults = 1
  Capacity = 1
INVARIANTS TypeOK NoFalseRemoval InstallationScanned
PROPERTIES InventoryKnown
