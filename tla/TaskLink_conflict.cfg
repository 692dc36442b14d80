SPECIFICATION FairSpec
CONSTANTS
  Slots = {s1, s2}
  Contents = {c1}
  MaxRecords = 1
  MaxEdits = 3
  MaxOutside = 1
  MaxFaults = 0
PROPERTIES ConflictStands
CHECK_DEADLOCK FALSE
