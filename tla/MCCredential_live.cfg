CONSTANTS
  p1 = p1
  p2 = p2
  Free = Free
  Stray = Stray
  Procs = {p1, p2}
  MaxTokens = 2
  MaxEdits = 0
  MaxFaults = 1
SPECIFICATION FairSpec
PROPERTIES
  RotationPersists ExpiredIsRefreshed
CHECK_DEADLOCK FALSE
