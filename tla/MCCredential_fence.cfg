CONSTANTS
  p1 = p1
  p2 = p2
  Free = Free
  Stray = Stray
  Procs = {p1, p2}
  MaxTokens = 3
  MaxEdits = 1
  MaxFaults = 0
SPECIFICATION Spec
INVARIANT OnlyUncertaintyOrphans
CHECK_DEADLOCK FALSE
