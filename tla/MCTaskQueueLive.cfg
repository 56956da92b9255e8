SPECIFICATION FairSpec
CONSTANTS
  Task <- MCTask
  Thread <- MCThread
  Main = "main"
  App <- MCApp
  AppOf <- MCNoAppOf
  NoApp = 0
  VersionOf <- MCVersionOf
  Priority <- MCPriority
  Batches <- MCBatches
  Forced <- MCForced
  MaxRetries = 2
  ReportAttempts = 2
PROPERTIES QueuedTaskLeaves
