SPECIFICATION FairSpec
CONSTANTS
  Channels = {"c1", "c2", "c3"}
  Callers = {"loop", "tick"}
  MaxChanges = 1
  MaxFaults = 1
PROPERTIES AckedIsRead ReplacementKeepsCoverage WakeUpsAreRead CoverageReturns
