SPECIFICATION FairSpec
CONSTANTS
  Runs = {r1, r2}
  Planned = {r1}
  NoRun = NoRun
  MaxSteps = 2
  MaxAttempts = 1
  TornAppends = TRUE
INVARIANTS ActiveExact LiveTimelineAgrees
PROPERTIES LifecycleHolds PendingIsExecuted
