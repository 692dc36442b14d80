SPECIFICATION FairSpec
CONSTANTS
  Profiles = {p1}
  Concurrency = 1
  CallLimit = 2
  TimeLimit = 2
  MaxTraversal = 1
  MaxChanges = 1
  MaxCommands = 2
  MaxFaults = 1
INVARIANTS ResearchingIsRunning StopStands DeletionStands
PROPERTIES ResultsAreCurrent QueuedIsServed
CHECK_DEADLOCK FALSE
