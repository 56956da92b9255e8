SPECIFICATION Spec
CONSTANTS
  Task <- MCTask
  Thread <- MCThread
  Main = "main"
  App <- MCApp
  AppOf <- MCAppOf
  NoApp = 0
  VersionOf <- MCVersionOf
  Priority <- MCPriority
  Batches <- MCBatches
  Forced <- MCForced
  MaxRetries = 3
  ReportAttempts = 1
INVARIANTS TypeOK OneTaskInHand RetryOnlyQueued SuccessIsTrue AppsTracked
PROPERTIES NoRerunAfterSuccess BackoffKept ImplementsLifecycle
