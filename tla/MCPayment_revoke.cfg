CONSTANTS
  c1 = c1
  c2 = c2
  job = job
  Orders = {1, 2}
  Wechat = {}
  Subscription = {1, 2}
  Group <- OneGroup
  Callers = {c1, c2}
  Job = job
  Limit = 1
  MaxCalls <- OneCall
  MaxFaults = 0
SPECIFICATION Spec
INVARIANTS
  RevokeSparesOthers
CHECK_DEADLOCK FALSE
