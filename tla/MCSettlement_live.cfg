CONSTANTS
  p1 = p1
  p2 = p2
  c1 = c1
  NRes = 2
  Procs = {p1}
  Callers = {}
  Costs = {1}
  QueueCap = 1
  MaxCrashes = 1
  MaxLate = 0
SPECIFICATION LiveSpec
PROPERTY TasksComplete
CHECK_DEADLOCK FALSE
