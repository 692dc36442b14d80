SPECIFICATION FairSpec
CONSTANTS
  Materials = {a, b}
  Relayed = FALSE
  MaxVersions = 2
  MaxRuns = 4
  MaxFaults = 1
PROPERTIES RevisionsArePrepared
