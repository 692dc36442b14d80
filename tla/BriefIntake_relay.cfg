SPECIFICATION FairSpec
CONSTANTS
  Materials = {a, b}
  Relayed = TRUE
  MaxVersions = 2
  MaxRuns = 4
  MaxFaults = 0
INVARIANTS RevisionsGoForward
PROPERTIES CancellationsAreShown
