SPECIFICATION FairSpec
CONSTANTS
  a1 = a1
  App = {a1}
  MaxRuns = 2
  MaxRemovals = 1
  MaxFaults = 2
  MaxWaiting = 2
INVARIANTS TypeOK QueuedStaysShown
PROPERTIES CardSettles
