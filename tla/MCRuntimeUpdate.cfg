SPECIFICATION FairSpec
CONSTANTS
  MaxVersion = 2
  MaxChanges = 1
  MaxFaults = 1
INVARIANTS TypeOK NothingLost
PROPERTIES FilesUpdated TrayKept
