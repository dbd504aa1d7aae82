CONSTANTS
  p1 = p1
  p2 = p2
  c1 = c1
  NRes = 1
  Procs = {p1}
  Callers = {c1}
  Costs = {1, 2}
  QueueCap = 1
  MaxCrashes = 1
  MaxLate = 1
SPECIFICATION Spec
INVARIANTS
  CompletedIsDone
PROPERTY SettlesLikeReservation
CHECK_DEADLOCK FALSE
