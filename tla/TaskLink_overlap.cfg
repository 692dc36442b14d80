SPECIFICATION FairSpec
CONSTANTS
  Slots = {s1, s2}
  Contents = {c1, c2}
  MaxRecords = 3
  MaxEdits = 3
  MaxOutside = 1
  MaxFaults = 1
INVARIANTS CreateOnce
PROPERTIES Converges ReadConflictStands
CHECK_DEADLOCK FALSE
