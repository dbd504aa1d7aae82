CONSTANTS
  u1 = u1
  Users = {u1}
  NRes = 2
  ResUser <- SoloRes
  NOps = 0
  OpUser <- NoOps
  InitBalance <- LargeInit
  BlockOverdraft = {}
  Amounts = {150, 300}
  Profiles <- WalletOnly
  Tolerance = 100
SPECIFICATION Spec
INVARIANT LedgerSnapshotMatchesWallet
CHECK_DEADLOCK FALSE
