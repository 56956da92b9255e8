SPECIFICATION FairSpec
CONSTANTS
  c1 = c1
  a1 = a1
  Command = {c1}
  Announcement = {a1}
  MaxConfig = 1
  WsEnabled <- MCWsEnabled
  Capacity = 1
  MaxBoxes = 1
  MaxItems = 1
  MaxFaults = 2
INVARIANTS TypeOK AnswersInOrder TrackedWhileShown
PROPERTIES ImplementsMailbox ItemsArrive ConfigSettles AnnouncementsAcked
