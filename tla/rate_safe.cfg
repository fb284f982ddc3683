SPECIFICATION RateFairSpec
CONSTANTS
  c1 = c1
  c2 = c2
  Callers <- MCCallers
  Costs = {1, 2, 4}
  MINUTE = 2
  HOUR = 3
  MaxPerMinute = 2
  MaxRecordsPerHour = 3
  WaitCap = 1
  MaxReset = 1
INVARIANTS
  BudgetsKept
PROPERTIES
  NoStarvation
CHECK_DEADLOCK FALSE
