CONSTANTS
  u1 = u1
  u2 = u2
  Users = {u1, u2}
  NRes = 2
  ResUser <- PairRes
  NOps = 1
  OpUser <- PairOps
  InitBalance <- PairInit
  BlockOverdraft = {}
  Amounts = {1, 2}
  Profiles <- SomeProfiles
SPECIFICATION Spec
INVARIANTS
  TypeOK SettledOnce RepliesAgree FrozenMatchesHolds
  MoneyConserved UsageMatchesLedger DebtIsReceivable
PROPERTY SettlesLikeReservation
CHECK_DEADLOCK FALSE
