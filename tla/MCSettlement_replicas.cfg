CONSTANTS
  p1 = p1
  p2 = p2
  c1 = c1
  NRes = 1
  Procs = {p1, p2}
  Callers = {}
  Costs = {1, 2}
  QueueCap = 1
  MaxCrashes = 1
  MaxLate = 2
SPECIFICATION Spec
SYMMETRY Replicas
INVARIANTS
  TypeOK AcceptedIsCharged AcceptedNeverExpires OneHolder ClaimsAreHeld
CHECK_DEADLOCK FALSE
