\* The documented sum, with one session that loads the user first.
CONSTANTS
  Users = {u1}
  Sessions = {s1, s2}
  Preloading = {s1}
  Amounts = {1, 2}
  MaxRows = 2
  NotLoaded = NotLoaded
  Unlocked = Unlocked
SPECIFICATION WalletSpec
INVARIANT LedgerSumIsBalance
