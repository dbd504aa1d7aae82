CONSTANTS
  c1 = c1
  c2 = c2
  job = job
  Orders = {1, 2, 3}
  Wechat = {1}
  Subscription = {2, 3}
  Group <- OneGroup
  Callers = {c1, c2}
  Job = job
  Limit = 1
  MaxCalls <- OneCall
  MaxFaults = 2
SPECIFICATION FairSpec
INVARIANTS
  TypeOK IssuedOnceForPayment ClosedIsNeverPaid HandedUrlStands RefundTakesOwnTime
PROPERTIES
  PaidIsIssued ExpiredEnds
CHECK_DEADLOCK FALSE
