CONSTANTS
  p1 = p1
  p2 = p2
  Free = Free
  Stray = Stray
  Procs = {p1, p2}
  MaxTokens = 3
  MaxEdits = 1
  MaxFaults = 2
SPECIFICATION Spec
SYMMETRY Replicas
INVARIANTS
  TypeOK SpentOnce NewAuthorizationKept AnswersAreCurrent ClaimAccounted
CHECK_DEADLOCK FALSE
