CONSTANTS
  w1 = w1
  w2 = w2
  NRequests = 2
  Writers = {w1, w2}
  Scopes = {"daily", "weekly"}
  Period <- Days
  Limit <- Quota
  Costs = {1, 2}
  StartsAt = 1
  Term = 2
  Fenced = TRUE
  MaxTime = 3
  MaxEdits = 1
SPECIFICATION Spec
SYMMETRY Equals
INVARIANTS
  TypeOK NotOversold UsageCounted
PROPERTY StatusStands
CHECK_DEADLOCK FALSE
